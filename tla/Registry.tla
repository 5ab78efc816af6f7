------------------------------ MODULE Registry ------------------------------
(***************************************************************************)
(* sempkg_registry: the FastAPI application (app.py) over BundleStorage    *)
(* (storage.py) and TokenStore, with the two programs that talk to it,     *)
(* sembundle's publish and the RegistryClient of sempkg.                   *)
(*                                                                         *)
(* publish_bundle is a coroutine: after its last await it stores the       *)
(* bundle and rebuilds the index without giving up the event loop, but     *)
(* get_index and download_bundle run on threads and see every file as it   *)
(* is at that moment.  Nothing is undone when a write fails or the server  *)
(* stops, and a restarted server serves what it finds.                     *)
(***************************************************************************)
EXTENDS TokenStore

CONSTANTS
  Publishers,  \* concurrent uploads
  Clients,     \* concurrent installs
  Versions,    \* name@version of a bundle
  Bundles,     \* contents of well-formed bundles
  Malformed,   \* uploads without a manifest that names a version
  VersionOf,   \* [Bundles -> Versions], from manifest.json
  Tools,       \* how bundles are uploaded, a subset of {"sembundle", "http"}
  None         \* no such file, header, entry or bundle

ASSUME BundlesNameVersions == VersionOf \in [Bundles -> Versions]
ASSUME ToolsExist == Tools \subseteq {"sembundle", "http"}
ASSUME ActorsDiffer ==
  /\ Publishers \cap Admins = {} /\ NoOne \notin Publishers
ASSUME NoneIsNothing ==
  /\ None \notin Bundles \cup {""} /\ "" \notin Bundles
  /\ None \notin [of : Bundles, whole : BOOLEAN]
  /\ None \notin [sha256 : Bundles \cup {""}, signed : BOOLEAN]

VARIABLES
  bundle,     \* the .sembundle files: None or [of: Bundles, whole: BOOLEAN]
  sidecar,    \* the .sha256 files: None, "" or the bundle it is the digest of
  signature,  \* versions that have a .sig file
  index,      \* index.json: [whole: BOOLEAN, entries]
  pub,        \* the progress of each upload
  cli,        \* the progress of each install
  stored,     \* uploads answered with success
  installed   \* bundles that installs have accepted

storage == <<bundle, sidecar, signature, index>>
uploads == <<pub, stored>>
installs == <<cli, installed>>
vars == <<up, loop, faults, tokenVars, storage, uploads, installs>>

Whole(b) == [of |-> b, whole |-> TRUE]
Begun(b) == [of |-> b, whole |-> FALSE]
NoEntries == [v \in Versions |-> None]

Init ==
  /\ TokenInit
  /\ bundle = [v \in Versions |-> None]
  /\ sidecar = [v \in Versions |-> None]
  /\ signature = {}
  /\ index = [whole |-> TRUE, entries |-> NoEntries]
  /\ pub = [p \in Publishers |-> Idle]
  /\ cli = [c \in Clients |-> Idle]
  /\ stored = {} /\ installed = {}
-----------------------------------------------------------------------------
(***************************************************************************)
(* POST /publish.                                                          *)
(***************************************************************************)
\* publish.rs has no part for a signature.
Attached(tool, signed) == tool = "http" /\ signed

\* From the token check to the first await.
Receive(p, t, b, tool, signed) ==
  /\ pub[p].pc = "idle" /\ up /\ loop = NoOne
  /\ IsValid(t)
  /\ pub' = [pub EXCEPT ![p] = [pc |-> "reading", of |-> b, signed |-> signed,
                                sig |-> Attached(tool, signed)]]
  /\ UNCHANGED <<up, loop, faults, tokenVars, storage, stored, installs>>

Ver(p) == VersionOf[pub[p].of]
Goto(p, to) == pub' = [pub EXCEPT ![p].pc = to]

\* An upload that is too large, no archive or without a version: 413 or 400.
Refuse(p) ==
  /\ pub[p].pc = "reading" /\ up /\ loop = NoOne
  /\ pub[p].of \in Malformed
  /\ pub' = [pub EXCEPT ![p] = Idle]
  /\ UNCHANGED <<up, loop, faults, tokenVars, storage, stored, installs>>

\* store refuses a version whose file exists: 409.
Conflict(p) ==
  /\ pub[p].pc = "reading" /\ up /\ loop = NoOne
  /\ pub[p].of \in Bundles /\ bundle[Ver(p)] # None
  /\ pub' = [pub EXCEPT ![p] = Idle]
  /\ UNCHANGED <<up, loop, faults, tokenVars, storage, stored, installs>>

\* Mutant of Vacant: an upload may replace a version.
VacantAlways(v) == TRUE

\* not dest_file.exists()
Vacant(v) == bundle[v] = None

\* Mutant of CreateBundle: the digest is stored before the bundle.
CreateBundleDigestFirst(p) ==
  /\ pub[p].pc = "reading" /\ up /\ loop = NoOne
  /\ pub[p].of \in Bundles /\ Vacant(Ver(p))
  /\ bundle' = [bundle EXCEPT ![Ver(p)] = Begun(pub[p].of)]
  /\ sidecar' = [sidecar EXCEPT ![Ver(p)] = pub[p].of]
  /\ loop' = p
  /\ Goto(p, "created")
  /\ UNCHANGED <<up, faults, tokenVars, signature, index, stored, installs>>

\* write_bytes creates the file ...
CreateBundle(p) ==
  /\ pub[p].pc = "reading" /\ up /\ loop = NoOne
  /\ pub[p].of \in Bundles /\ Vacant(Ver(p))
  /\ bundle' = [bundle EXCEPT ![Ver(p)] = Begun(pub[p].of)]
  /\ loop' = p
  /\ Goto(p, "created")
  /\ UNCHANGED <<up, faults, tokenVars, sidecar, signature, index, stored, installs>>

\* ... and fills it.
WriteBundle(p) ==
  /\ pub[p].pc = "created"
  /\ bundle' = [bundle EXCEPT ![Ver(p)] = Whole(pub[p].of)]
  /\ Goto(p, "written")
  /\ UNCHANGED <<up, loop, faults, tokenVars, sidecar, signature, index, stored,
                 installs>>

CreateSidecar(p) ==
  /\ pub[p].pc = "written"
  /\ sidecar' = [sidecar EXCEPT ![Ver(p)] = ""]
  /\ Goto(p, "digesting")
  /\ UNCHANGED <<up, loop, faults, tokenVars, bundle, signature, index, stored,
                 installs>>

WriteSidecar(p) ==
  /\ pub[p].pc = "digesting"
  /\ sidecar' = [sidecar EXCEPT ![Ver(p)] = pub[p].of]
  /\ Goto(p, "digested")
  /\ UNCHANGED <<up, loop, faults, tokenVars, bundle, signature, index, stored,
                 installs>>

WriteSignature(p) ==
  /\ pub[p].pc = "digested"
  /\ signature' = IF pub[p].sig THEN signature \cup {Ver(p)} ELSE signature
  /\ Goto(p, "indexing")
  /\ UNCHANGED <<up, loop, faults, tokenVars, bundle, sidecar, index, stored,
                 installs>>

\* Mutant of Digest: the digest is taken from the upload, not from the disk.
DigestTrusting(v) == bundle[v].of

\* The sha256 of an entry; "" stands for a sidecar that is missing, too.
Digest(v) == IF sidecar[v] = None THEN "" ELSE sidecar[v]

\* Mutant of Scan: the index that is there is saved again.
ScanPrevious == index.entries

\* What rebuild_index collects.
Scan == [v \in Versions |->
          IF bundle[v] = None THEN None
          ELSE [sha256 |-> Digest(v), signed |-> v \in signature]]

\* rebuild_index up to save_index's open, which truncates the file.  Only the
\* loop's owner writes what the scan reads.
OpenIndex(p) ==
  /\ pub[p].pc = "indexing"
  /\ index' = [whole |-> FALSE, entries |-> Scan]
  /\ Goto(p, "saving")
  /\ UNCHANGED <<up, loop, faults, tokenVars, bundle, sidecar, signature, stored,
                 installs>>

SaveIndex(p) ==
  /\ pub[p].pc = "saving"
  /\ index' = [index EXCEPT !.whole = TRUE]
  /\ stored' = stored \cup {[of |-> pub[p].of, signed |-> pub[p].signed]}
  /\ loop' = NoOne
  /\ pub' = [pub EXCEPT ![p] = Idle]
  /\ UNCHANGED <<up, faults, tokenVars, bundle, sidecar, signature, installs>>

Working(p) == pub[p].pc \notin {"idle", "reading"}

\* An OSError on the way: 500, and what is written stays.
UploadFault(p) ==
  /\ Working(p)
  /\ faults < MaxFaults /\ faults' = faults + 1
  /\ loop' = NoOne
  /\ pub' = [pub EXCEPT ![p] = Idle]
  /\ UNCHANGED <<up, tokenVars, storage, stored, installs>>

-----------------------------------------------------------------------------
(***************************************************************************)
(* sempkg install name@version --registry: lookup, download, install.      *)
(***************************************************************************)
\* lookup(...).ok(): a server that does not answer, an index that cannot be
\* parsed and a version that is not listed all count as "no digest known".
Expected(v) ==
  IF up /\ index.whole /\ index.entries[v] # None
  THEN index.entries[v].sha256 ELSE None

Lookup(c, v) ==
  /\ cli[c].pc = "idle"
  /\ cli' = [cli EXCEPT ![c] = [pc |-> "looked", version |-> v,
                                expected |-> Expected(v)]]
  /\ UNCHANGED <<up, loop, faults, tokenVars, storage, uploads, installed>>

\* download_bundle up to the answer's headers; the body is read later.
Request(c) ==
  /\ cli[c].pc = "looked"
  /\ IF up /\ bundle[cli[c].version] # None
       THEN cli' = [cli EXCEPT ![c] = [pc |-> "answered", version |-> @.version,
                      expected |-> @.expected, header |-> sidecar[@.version]]]
       ELSE cli' = [cli EXCEPT ![c] = Idle]
  /\ UNCHANGED <<up, loop, faults, tokenVars, storage, uploads, installed>>

Download(c) ==
  /\ cli[c].pc = "answered"
  /\ cli' = [cli EXCEPT ![c] = IF ~up THEN Idle ELSE
               [pc |-> "received", version |-> @.version, expected |-> @.expected,
                header |-> @.header, body |-> bundle[@.version]]]
  /\ UNCHANGED <<up, loop, faults, tokenVars, storage, uploads, installed>>

\* download_bundle's comparison: an unknown digest matches everything.
DigestMatches(c) ==
  cli[c].expected = None \/
  (cli[c].body.whole /\ cli[c].expected = cli[c].body.of)

\* Mutant of Extractable: install_bytes unpacks whatever arrived.
ExtractableAnything(c) == TRUE

\* install_bytes validates the archive before it extracts it.
Extractable(c) == cli[c].body.whole

Install(c) ==
  /\ cli[c].pc = "received"
  /\ installed' = IF DigestMatches(c) /\ Extractable(c)
                  THEN installed \cup {[version |-> cli[c].version,
                                        body |-> cli[c].body]}
                  ELSE installed
  /\ cli' = [cli EXCEPT ![c] = Idle]
  /\ UNCHANGED <<up, loop, faults, tokenVars, storage, uploads>>
-----------------------------------------------------------------------------
\* The server stops: its coroutines and threads with it, the files stay.
Stop ==
  /\ up /\ faults < MaxFaults /\ faults' = faults + 1
  /\ up' = FALSE /\ loop' = NoOne
  /\ pub' = [p \in Publishers |-> Idle]
  /\ adm' = [a \in Admins |-> IF a \in ServedAdmins THEN Idle ELSE adm[a]]
  /\ UNCHANGED <<tokens, minted, granted, revoked, crossed, storage, stored, installs>>

\* serve: BundleStorage and TokenStore only make sure their directories exist.
Serve ==
  /\ ~up /\ up' = TRUE
  /\ UNCHANGED <<loop, faults, tokenVars, storage, uploads, installs>>

Uploading ==
  \E p \in Publishers :
    \/ \E t \in Tokens, b \in Bundles \cup Malformed, tool \in Tools,
          signed \in BOOLEAN : Receive(p, t, b, tool, signed)
    \/ Refuse(p) \/ Conflict(p)
    \/ CreateBundle(p) \/ WriteBundle(p)
    \/ CreateSidecar(p) \/ WriteSidecar(p) \/ WriteSignature(p)
    \/ OpenIndex(p) \/ SaveIndex(p) \/ UploadFault(p)

Installing ==
  \E c \in Clients :
    \/ \E v \in Versions : Lookup(c, v)
    \/ Request(c) \/ Download(c) \/ Install(c)

Next ==
  \/ TokenNext /\ UNCHANGED <<storage, uploads, installs>>
  \/ Uploading \/ Installing \/ Stop \/ Serve

Spec == Init /\ [][Next]_vars
-----------------------------------------------------------------------------
(***************************************************************************)
(* Properties.                                                             *)
(***************************************************************************)
Digests == Bundles \cup {"", None}
Files == {Whole(b) : b \in Bundles} \cup {Begun(b) : b \in Bundles} \cup {None}
Entries == [sha256 : Bundles \cup {""}, signed : BOOLEAN] \cup {None}
Steps == {"reading", "created", "written", "digesting", "digested", "indexing",
          "saving"}

Uploads ==
  [pc : {"idle"}] \cup
  [pc : {"reading"}, of : Malformed, signed : BOOLEAN, sig : BOOLEAN] \cup
  [pc : Steps, of : Bundles, signed : BOOLEAN, sig : BOOLEAN]

Installs ==
  [pc : {"idle"}] \cup
  [pc : {"looked"}, version : Versions, expected : Digests] \cup
  [pc : {"answered"}, version : Versions, expected : Digests, header : Digests] \cup
  [pc : {"received"}, version : Versions, expected : Digests, header : Digests,
   body : Files \ {None}]

\* Every file, request and answer has one of the forms the code can give it; an
\* answer with a body is never one for a file that is not there.
TypeOK ==
  /\ TokenTypeOK
  /\ loop \in Admins \cup Publishers \cup {NoOne}
  /\ bundle \in [Versions -> Files]
  /\ sidecar \in [Versions -> Digests]
  /\ signature \subseteq Versions
  /\ index \in [whole : BOOLEAN, entries : [Versions -> Entries]]
  /\ pub \in [Publishers -> Uploads]
  /\ cli \in [Clients -> Installs]
  /\ stored \subseteq [of : Bundles, signed : BOOLEAN]
  /\ installed \subseteq [version : Versions, body : Files \ {None}]

\* The X-Bundle-SHA256 header of download_bundle (app.py:116) is never the
\* digest of other bytes than those that follow it, although the header and the
\* body are read at different moments of an upload on another thread.
HeaderMatchesBody ==
  \A c \in Clients :
    cli[c].pc = "received" /\ cli[c].header \in Bundles =>
      cli[c].body = Whole(cli[c].header)

\* What publish_bundle answered with success stays as it was uploaded, and an
\* index that can be read lists it with its digest, and as signed when it came
\* with a signature (docs/registry-server.md:203), whatever fails later.
StoredStaysListed ==
  \A s \in stored :
    LET v == VersionOf[s.of]
    IN  /\ bundle[v] = Whole(s.of) /\ sidecar[v] = s.of
        /\ index.whole => /\ index.entries[v] # None
                          /\ index.entries[v].sha256 = s.of
                          /\ s.signed => index.entries[v].signed

\* All installs of a version get the same bytes, those the registry still has
\* (install_bytes, registry.rs download_bundle), even when they were downloaded
\* while the upload was running or without a digest to compare with.
InstalledIsStored == \A i \in installed : i.body.whole /\ bundle[i.version] = i.body

\* Between uploads the index lists every bundle that can be downloaded, with
\* its digest (docs/registry-server.md:11).
BundlesAreListed ==
  loop = NoOne /\ index.whole =>
    \A v \in Versions :
      bundle[v] # None => index.entries[v] # None /\ index.entries[v].sha256 \in Bundles

\* The same as long as no write has failed and the server has not been stopped,
\* with rival uploads and readers of the index in between.
ListedWithoutFaults == faults = 0 => BundlesAreListed

\* The registry keeps RegistryContract: the finished bundle files are what is
\* published, and the entries with a digest are the catalogue.
Contract == INSTANCE RegistryContract WITH
  published <- [v \in Versions |->
    IF bundle[v] # None /\ bundle[v].whole THEN bundle[v].of ELSE None],
  catalogue <- [v \in Versions |->
    IF index.whole /\ index.entries[v] # None /\ index.entries[v].sha256 \in Bundles
    THEN index.entries[v].sha256 ELSE None]

\* A version's bytes are written once, and a digest is announced only for bytes
\* that are there.
KeepsContract == Contract!Spec
=============================================================================
