--------------------------- MODULE RegistryProofs ---------------------------
(***************************************************************************)
(* What the registry promises, for any number of uploads, installs,        *)
(* administrators, versions and faults.                                    *)
(*                                                                         *)
(* Everything rests on one fact about steps: a bundle file that is whole   *)
(* never changes (WholeStays).  It holds because only the owner of the     *)
(* event loop writes, because it began with a vacant version, and because  *)
(* no other upload can have become the owner since (UploadsOwnLoop,        *)
(* UploadsOnDisk).  Digests are then truthful wherever they are kept: in a *)
(* sidecar, in the index and in an answer on its way to a client, and the  *)
(* registry keeps RegistryContract.                                        *)
(*                                                                         *)
(* That uploads are listed needs the order of an upload's own writes, too  *)
(* (StockInv): the scan of rebuild_index finds the digest of every upload  *)
(* that was answered, and of every bundle when nothing has failed.         *)
(*                                                                         *)
(* tokens.json holds what was answered until a writer overtakes another:   *)
(* of those that are between reading and writing it, whoever has read what *)
(* is still true is about to write what will be (FreshReads, TokenInv).    *)
(***************************************************************************)
EXTENDS Registry, FiniteSetTheorems, TLAPS

Holds(v, b) == bundle[v] = Whole(b)

\* An upload that has begun to write occupies the event loop.
UploadsOwnLoop == \A p \in Publishers : Working(p) => loop = p

\* So does the creation of a token through the server.
CreatorsOwnLoop == \A a \in Admins : adm[a].pc # "idle" /\ Coroutine(a) => loop = a

\* The upload finds on disk what it has written so far.
UploadsOnDisk ==
  \A p \in Publishers : Working(p) =>
    IF pub[p].pc = "created" THEN bundle[Ver(p)] = Begun(pub[p].of)
                             ELSE Holds(Ver(p), pub[p].of)

SidecarsTrue == \A v \in Versions, b \in Bundles : sidecar[v] = b => Holds(v, b)

IndexTrue ==
  \A v \in Versions, b \in Bundles :
    index.entries[v] # None /\ index.entries[v].sha256 = b => Holds(v, b)

\* The file an answer is read from exists, and the header is true of it.
AnswersTrue ==
  \A c \in Clients : cli[c].pc = "answered" =>
    /\ bundle[cli[c].version] # None
    /\ \A b \in Bundles : cli[c].header = b => Holds(cli[c].version, b)

BodiesTrue ==
  \A c \in Clients : cli[c].pc = "received" =>
    /\ \A b \in Bundles : cli[c].header = b => cli[c].body = Whole(b)
    /\ cli[c].body.whole => bundle[cli[c].version] = cli[c].body

RegInv ==
  /\ TypeOK
  /\ UploadsOwnLoop /\ CreatorsOwnLoop /\ UploadsOnDisk
  /\ SidecarsTrue /\ IndexTrue
  /\ AnswersTrue /\ BodiesTrue
  /\ InstalledIsStored

\* A vacant version has no digest file left either.
VacantBare == \A v \in Versions : bundle[v] = None => sidecar[v] = None

\* An upload under way finds what it has written so far, and nothing that it
\* has yet to write.
UploadsWritten ==
  \A p \in Publishers :
    /\ pub[p].pc \in {"created", "written"} => sidecar[Ver(p)] = None
    /\ pub[p].pc = "digesting" => sidecar[Ver(p)] = ""
    /\ pub[p].pc \in {"digested", "indexing", "saving"} => sidecar[Ver(p)] = pub[p].of
    /\ pub[p].pc \in {"indexing", "saving"} /\ pub[p].sig => Ver(p) \in signature
    /\ pub[p].pc = "saving" => index.entries = Scan

StockInv == RegInv /\ VacantBare /\ UploadsWritten

\* The digest of v is on disk and in the index.
Listed(v) ==
  /\ sidecar[v] \in Bundles
  /\ index.entries[v] # None /\ index.entries[v].sha256 \in Bundles

\* As long as nothing fails, a bundle that is not listed yet is one that an
\* upload is working on.
Attended ==
  faults = 0 =>
    \A v \in Versions : bundle[v] # None =>
      Listed(v) \/ \E p \in Publishers : Working(p) /\ Ver(p) = v

\* The server gets the signature of every bundle that has one.
SignaturesSent == \A p \in Publishers : pub[p].pc # "idle" => pub[p].sig = pub[p].signed

\* What was answered with success is on disk and in the index, be the index
\* readable or not.
StoredKept ==
  \A s \in stored :
    LET v == VersionOf[s.of]
    IN  /\ Holds(v, s.of) /\ sidecar[v] = s.of
        /\ index.entries[v] # None /\ index.entries[v].sha256 = s.of
        /\ s.signed => v \in signature /\ index.entries[v].signed

\* The tokens that are used somewhere have been generated.
TokensMinted ==
  /\ tokens.set \cup granted \cup revoked \subseteq minted
  /\ \A a \in Admins : adm[a].pc # "idle" =>
       adm[a].token \in minted /\ adm[a].data \subseteq minted

\* Administrators have read what was answered before, and a token that is being
\* created is nobody else's.
ReadsPast ==
  \A a \in Admins : adm[a].pc # "idle" =>
    /\ adm[a].read.granted \subseteq granted /\ adm[a].read.revoked \subseteq revoked
    /\ adm[a].op = "add" =>
         /\ adm[a].token \notin granted
         /\ \A b \in Admins \ {a} :
              adm[b].pc # "idle" /\ adm[b].op = "add" => adm[b].token # adm[a].token

\* What an administrator who was told nothing new is about to write agrees with
\* what has been answered, the answer that will follow included.
Agrees(a) ==
  /\ adm[a].data \cap revoked = {}
  /\ adm[a].op = "add" => /\ adm[a].token \in adm[a].data
                          /\ granted \ revoked \subseteq adm[a].data
  /\ adm[a].op = "revoke" =>
       /\ adm[a].token \notin adm[a].data /\ adm[a].token \notin revoked
       /\ granted \ (revoked \cup {adm[a].token}) \subseteq adm[a].data

FreshReads == \A a \in Admins : adm[a].pc # "idle" /\ adm[a].read = Told => Agrees(a)

\* An administrator that writes is alone, has read what is still true, and the
\* file cannot be read meanwhile.
WritesAlone ==
  \A a \in Admins : adm[a].pc = "opened" =>
    /\ adm[a].read = Told /\ tokens = Truncated
    /\ \A b \in Admins : adm[b].pc = "opened" => b = a

TokenInv ==
  /\ TokensMinted /\ ReadsPast
  /\ ~crossed => FreshReads /\ WritesAlone /\ (Readable => SaysAsTold(tokens.set))

-----------------------------------------------------------------------------
(***************************************************************************)
(* Types.                                                                  *)
(***************************************************************************)
LEMMA ElementFacts ==
  /\ \A b \in Bundles : Whole(b) \in Files /\ Begun(b) \in Files
  /\ \A b \in Bundles : Whole(b) # Begun(b) /\ Whole(b).whole /\ Whole(b).of = b
  /\ \A b \in Bundles : b # None /\ b # "" /\ Whole(b) # None /\ Begun(b) # None
<1>1. \A b \in Bundles : Whole(b) \in [of : Bundles, whole : BOOLEAN]
                         /\ Begun(b) \in [of : Bundles, whole : BOOLEAN]
  BY DEF Whole, Begun
<1>2. \A b \in Bundles : b # None /\ b # "" /\ Whole(b) # None /\ Begun(b) # None
  BY <1>1, NoneIsNothing
<1>3. \A b \in Bundles : Whole(b) # Begun(b) /\ Whole(b).whole /\ Whole(b).of = b
  BY DEF Whole, Begun
<1> QED BY <1>2, <1>3 DEF Files

\* A file of entries has a length.
LEMMA LengthIsNatural ==
  ASSUME tokens.length \in Nat, NEW S \in SUBSET Tokens
  PROVE  Over(S) \in [set : SUBSET Tokens, length : Nat]
<1>1. Cardinality(S) \in Nat
  BY TokensFinite, FS_Subset, FS_CardinalityType
<1> QED BY <1>1 DEF Over, LongestOf

\* The administrators' steps keep every type.
LEMMA TokenStepTypes == ASSUME TypeOK, TokenNext, UNCHANGED <<storage, uploads, installs>>
                        PROVE  TypeOK'
<1> USE DEF TypeOK, TokenTypeOK, storage, uploads, installs
<1>1. PICK a \in Admins :
        \/ \E route \in Routes, t \in Tokens :
             LoadToAdd(a, route, t) \/ LoadToRevoke(a, route, t)
        \/ OpenToSave(a) \/ Save(a) \/ AdminFault(a)
  BY DEF TokenNext
<1>2. CASE \E route \in Routes, t \in Tokens : LoadToAdd(a, route, t)
  <2>1. PICK route \in Routes, t \in Tokens : LoadToAdd(a, route, t)
    BY <1>2
  <2>2. adm' \in [Admins -> Progress]
    BY <2>1 DEF LoadToAdd, Progress, With, Told
  <2>3. /\ t \in Tokens /\ loop' \in Admins \cup Publishers \cup {NoOne}
        /\ minted' \subseteq Tokens /\ granted' \subseteq Tokens /\ revoked' \subseteq Tokens
    BY <2>1 DEF LoadToAdd
  <2> QED BY <2>1, <2>2, <2>3 DEF LoadToAdd
<1>3. CASE \E route \in Routes, t \in Tokens : LoadToRevoke(a, route, t)
  <2>1. PICK route \in Routes, t \in Tokens : LoadToRevoke(a, route, t)
    BY <1>3
  <2>2. adm' \in [Admins -> Progress]
    BY <2>1 DEF LoadToRevoke, Progress, Told
  <2> QED BY <2>1, <2>2 DEF LoadToRevoke
<1>4. CASE OpenToSave(a)
  <2>1. adm' \in [Admins -> Progress]
    BY <1>4 DEF OpenToSave, Progress
  <2> QED BY <1>4, <2>1 DEF OpenToSave, Truncated
<1>5. CASE Save(a)
  <2>1. adm[a].token \in Tokens /\ adm[a].data \in SUBSET Tokens
    BY <1>5 DEF Save, Progress
  <2>2. adm' \in [Admins -> Progress]
    BY <1>5 DEF Save, Progress, Idle
  <2>3. tokens' \in [set : SUBSET Tokens, length : Nat]
    BY <1>5, <2>1, LengthIsNatural DEF Save
  <2>4. loop' \in Admins \cup Publishers \cup {NoOne}
    BY <1>5 DEF Save, LoopAfter
  <2>5. minted' = minted /\ granted' \subseteq Tokens /\ revoked' \subseteq Tokens
    BY <1>5, <2>1 DEF Save
  <2> QED BY <1>5, <2>2, <2>3, <2>4, <2>5 DEF Save
<1>6. CASE AdminFault(a)
  <2>1. adm' \in [Admins -> Progress]
    BY <1>6 DEF AdminFault, Progress, Idle
  <2> QED BY <1>6, <2>1, FaultsBounded DEF AdminFault, LoopAfter
<1> QED BY <1>1, <1>2, <1>3, <1>4, <1>5, <1>6

\* An upload of a bundle may go to any of the steps of one.
LEMMA GotoTypes ==
  ASSUME pub \in [Publishers -> Uploads], NEW p \in Publishers, NEW to \in Steps,
         pub[p].pc # "idle", pub[p].of \in Bundles, Goto(p, to)
  PROVE  pub' \in [Publishers -> Uploads]
<1>1. [pub[p] EXCEPT !.pc = to] \in Uploads
  <2>1. pub[p].signed \in BOOLEAN /\ pub[p].sig \in BOOLEAN
    BY DEF Uploads
  <2>2. [pub[p] EXCEPT !.pc = to] =
          [pc |-> to, of |-> pub[p].of, signed |-> pub[p].signed, sig |-> pub[p].sig]
    BY DEF Uploads
  <2> QED BY <2>1, <2>2 DEF Uploads
<1> QED BY <1>1 DEF Goto

\* So do the steps of an upload.
LEMMA UploadStepTypes == ASSUME TypeOK, Uploading PROVE TypeOK'
<1> USE BundlesNameVersions
    DEF TypeOK, TokenTypeOK, tokenVars, storage, installs
<1>1. PICK p \in Publishers :
        \/ \E t \in Tokens, b \in Bundles \cup Malformed, tool \in Tools,
              signed \in BOOLEAN : Receive(p, t, b, tool, signed)
        \/ Refuse(p) \/ Conflict(p)
        \/ CreateBundle(p) \/ WriteBundle(p)
        \/ CreateSidecar(p) \/ WriteSidecar(p) \/ WriteSignature(p)
        \/ OpenIndex(p) \/ SaveIndex(p) \/ UploadFault(p)
  BY DEF Uploading
<1>2. Working(p) => pub[p].of \in Bundles /\ pub[p].signed \in BOOLEAN /\ Ver(p) \in Versions
  BY DEF Working, Uploads, Ver
<1>3. CASE \E t \in Tokens, b \in Bundles \cup Malformed, tool \in Tools,
              signed \in BOOLEAN : Receive(p, t, b, tool, signed)
  <2>1. PICK t \in Tokens, b \in Bundles \cup Malformed, tool \in Tools,
             signed \in BOOLEAN : Receive(p, t, b, tool, signed)
    BY <1>3
  <2>2. Attached(tool, signed) \in BOOLEAN
    BY DEF Attached
  <2>3. pub' \in [Publishers -> Uploads]
    BY <2>1, <2>2 DEF Receive, Uploads, Steps
  <2> QED BY <2>1, <2>3 DEF Receive
<1>4. CASE Refuse(p) \/ Conflict(p)
  <2>1. pub' \in [Publishers -> Uploads]
    BY <1>4 DEF Refuse, Conflict, Uploads, Idle
  <2> QED BY <1>4, <2>1 DEF Refuse, Conflict
<1>5. CASE CreateBundle(p)
  <2>1. pub' \in [Publishers -> Uploads]
    BY <1>5, GotoTypes DEF CreateBundle, Steps
  <2>2. bundle' \in [Versions -> Files]
    BY <1>5, ElementFacts DEF CreateBundle, Ver
  <2> QED BY <1>5, <2>1, <2>2 DEF CreateBundle
<1>6. CASE WriteBundle(p)
  <2>1. pub' \in [Publishers -> Uploads]
    BY <1>2, <1>6, GotoTypes DEF WriteBundle, Working, Steps
  <2>2. bundle' \in [Versions -> Files]
    BY <1>2, <1>6, ElementFacts DEF WriteBundle, Working
  <2> QED BY <1>6, <2>1, <2>2 DEF WriteBundle
<1>7. CASE CreateSidecar(p) \/ WriteSidecar(p)
  <2>1. pub' \in [Publishers -> Uploads]
    BY <1>2, <1>7, GotoTypes DEF CreateSidecar, WriteSidecar, Working, Steps
  <2>2. sidecar' \in [Versions -> Digests]
    BY <1>2, <1>7 DEF CreateSidecar, WriteSidecar, Digests, Working
  <2> QED BY <1>7, <2>1, <2>2 DEF CreateSidecar, WriteSidecar
<1>8. CASE WriteSignature(p)
  <2>1. pub' \in [Publishers -> Uploads]
    BY <1>2, <1>8, GotoTypes DEF WriteSignature, Working, Steps
  <2>2. signature' \subseteq Versions
    BY <1>2, <1>8 DEF WriteSignature, Working
  <2> QED BY <1>8, <2>1, <2>2 DEF WriteSignature
<1>9. CASE OpenIndex(p)
  <2>1. pub' \in [Publishers -> Uploads]
    BY <1>2, <1>9, GotoTypes DEF OpenIndex, Working, Steps
  <2>2. Scan \in [Versions -> Entries]
    <3>1. ASSUME NEW v \in Versions PROVE Digest(v) \in Bundles \cup {""}
      BY DEF Digest, Digests
    <3> DEFINE entry(v) == [sha256 |-> Digest(v), signed |-> v \in signature]
    <3>2. ASSUME NEW v \in Versions PROVE entry(v) \in Entries
      <4>1. (v \in signature) \in BOOLEAN
        OBVIOUS
      <4> QED BY <3>1, <4>1 DEF Entries
    <3>3. None \in Entries
      BY DEF Entries
    <3> HIDE DEF entry
    <3>4. Scan = [v \in Versions |-> IF bundle[v] = None THEN None ELSE entry(v)]
      BY DEF Scan, entry
    <3> QED BY <3>2, <3>3, <3>4
  <2> QED BY <1>9, <2>1, <2>2 DEF OpenIndex
<1>10. CASE SaveIndex(p)
  <2>1. pub' \in [Publishers -> Uploads]
    BY <1>10 DEF SaveIndex, Uploads, Idle
  <2>2. stored' \subseteq [of : Bundles, signed : BOOLEAN]
    BY <1>2, <1>10 DEF SaveIndex, Working
  <2>3. index' \in [whole : BOOLEAN, entries : [Versions -> Entries]]
    BY <1>10 DEF SaveIndex
  <2> QED BY <1>10, <2>1, <2>2, <2>3 DEF SaveIndex
<1>11. CASE UploadFault(p)
  <2>1. pub' \in [Publishers -> Uploads]
    BY <1>11 DEF UploadFault, Uploads, Idle
  <2>2. faults' \in 0..MaxFaults
    BY <1>11, FaultsBounded DEF UploadFault
  <2> QED BY <1>11, <2>1, <2>2 DEF UploadFault
<1> QED BY <1>1, <1>3, <1>4, <1>5, <1>6, <1>7, <1>8, <1>9, <1>10, <1>11

\* So do the steps of an install: the file whose headers were sent is there.
LEMMA InstallStepTypes == ASSUME TypeOK, AnswersTrue, Installing PROVE TypeOK'
<1> USE DEF TypeOK, TokenTypeOK, tokenVars, storage, uploads
<1>1. PICK c \in Clients :
        (\E v \in Versions : Lookup(c, v)) \/ Request(c) \/ Download(c) \/ Install(c)
  BY DEF Installing
<1>2. CASE \E v \in Versions : Lookup(c, v)
  <2>1. PICK v \in Versions : Lookup(c, v)
    BY <1>2
  <2>2. Expected(v) \in Digests
    BY DEF Expected, Digests, Entries
  <2>3. cli' \in [Clients -> Installs]
    BY <2>1, <2>2 DEF Lookup, Installs
  <2> QED BY <2>1, <2>3 DEF Lookup
<1>3. CASE Request(c)
  <2>1. cli' \in [Clients -> Installs]
    BY <1>3 DEF Request, Installs, Idle
  <2> QED BY <1>3, <2>1 DEF Request
<1>4. CASE Download(c)
  <2>1. cli[c].version \in Versions /\ bundle[cli[c].version] \in Files \ {None}
    BY <1>4 DEF Download, Installs, AnswersTrue
  <2>2. cli' \in [Clients -> Installs]
    BY <1>4, <2>1 DEF Download, Installs, Idle
  <2> QED BY <1>4, <2>2 DEF Download
<1>5. CASE Install(c)
  <2>1. cli' \in [Clients -> Installs]
    BY <1>5 DEF Install, Installs, Idle
  <2>2. /\ cli[c].version \in Versions /\ cli[c].body \in Files \ {None}
    BY <1>5 DEF Install, Installs
  <2>3. installed' \subseteq [version : Versions, body : Files \ {None}]
    <3>1. [version |-> cli[c].version, body |-> cli[c].body]
            \in [version : Versions, body : Files \ {None}]
      BY <2>2
    <3> HIDE DEF TypeOK
    <3>2. installed \subseteq [version : Versions, body : Files \ {None}]
      BY DEF TypeOK
    <3> QED BY <1>5, <3>1, <3>2 DEF Install
  <2> QED BY <1>5, <2>1, <2>3 DEF Install
<1> QED BY <1>1, <1>2, <1>3, <1>4, <1>5

\* So do the server's.
LEMMA ServerStepTypes == ASSUME TypeOK, Stop \/ Serve PROVE TypeOK'
<1> USE DEF TypeOK, TokenTypeOK, tokenVars, storage, installs
<1>1. CASE Stop
  <2>1. pub' \in [Publishers -> Uploads] /\ adm' \in [Admins -> Progress]
    BY <1>1 DEF Stop, Uploads, Progress, Idle
  <2>2. faults' \in 0..MaxFaults
    <3>1. faults \in 0..MaxFaults
      OBVIOUS
    <3> HIDE DEF TypeOK
    <3> QED BY <1>1, <3>1, FaultsBounded DEF Stop
  <2>4. up' = FALSE /\ loop' = NoOne
    BY <1>1 DEF Stop
  <2>3. UNCHANGED <<tokens, minted, granted, revoked, bundle, sidecar, signature,
                    crossed, index, stored, cli, installed>>
    BY <1>1 DEF Stop
  <2> QED BY <2>1, <2>2, <2>3, <2>4
<1>2. CASE Serve
  BY <1>2 DEF Serve, uploads
<1> QED BY <1>1, <1>2

LEMMA StepTypes == ASSUME RegInv, [Next]_vars PROVE TypeOK'
<1>1. CASE Next
  BY <1>1, TokenStepTypes, UploadStepTypes, InstallStepTypes, ServerStepTypes
  DEF Next, RegInv
<1>2. CASE UNCHANGED vars
  BY <1>2 DEF RegInv, TypeOK, TokenTypeOK, vars, tokenVars, storage, uploads, installs
<1> QED BY <1>1, <1>2
-----------------------------------------------------------------------------
(***************************************************************************)
(* Who occupies the event loop.                                            *)
(***************************************************************************)
LEMMA OwnersStep == ASSUME RegInv, [Next]_vars PROVE UploadsOwnLoop' /\ CreatorsOwnLoop'
<1> USE ActorsDiffer, NoOneIsNoAdmin DEF UploadsOwnLoop, CreatorsOwnLoop, Working
<1>1. UploadsOwnLoop /\ CreatorsOwnLoop /\ pub \in [Publishers -> Uploads]
      /\ adm \in [Admins -> Progress]
  BY DEF RegInv, TypeOK, TokenTypeOK
<1>2. CASE TokenNext /\ UNCHANGED <<storage, uploads, installs>>
  <2>1. PICK a \in Admins :
          \/ \E route \in Routes, t \in Tokens :
               LoadToAdd(a, route, t) \/ LoadToRevoke(a, route, t)
          \/ OpenToSave(a) \/ Save(a) \/ AdminFault(a)
    BY <1>2 DEF TokenNext
  <2>2. CASE \E route \in Routes, t \in Tokens : LoadToAdd(a, route, t)
    BY <1>1, <1>2, <2>2 DEF LoadToAdd, CanCreate, Coroutine, uploads
  <2>3. CASE \E route \in Routes, t \in Tokens : LoadToRevoke(a, route, t)
    BY <1>1, <1>2, <2>3 DEF LoadToRevoke, Coroutine, uploads
  <2>4. CASE OpenToSave(a)
    <3>1. [adm[a] EXCEPT !.pc = "opened"].route = adm[a].route
          /\ [adm[a] EXCEPT !.pc = "opened"].op = adm[a].op
      BY <1>1, <2>4 DEF OpenToSave, Progress
    <3> QED BY <1>1, <1>2, <2>4, <3>1 DEF OpenToSave, Coroutine, uploads
  <2>5. CASE Save(a) \/ AdminFault(a)
    <3>1. /\ adm[a].pc # "idle" /\ loop' = LoopAfter(a)
          /\ adm' = [adm EXCEPT ![a] = Idle]
      BY <2>5 DEF Save, AdminFault
    <3>2. loop' # loop => loop = a
      BY <1>1, <3>1 DEF LoopAfter
    <3> QED BY <1>1, <1>2, <3>1, <3>2 DEF Coroutine, uploads, Idle
  <2> QED BY <2>1, <2>2, <2>3, <2>4, <2>5
<1>3. CASE Uploading
  <2>1. PICK p \in Publishers :
          \/ \E t \in Tokens, b \in Bundles \cup Malformed, tool \in Tools,
                signed \in BOOLEAN : Receive(p, t, b, tool, signed)
          \/ Refuse(p) \/ Conflict(p)
          \/ CreateBundle(p) \/ WriteBundle(p)
          \/ CreateSidecar(p) \/ WriteSidecar(p) \/ WriteSignature(p)
          \/ OpenIndex(p) \/ SaveIndex(p) \/ UploadFault(p)
    BY <1>3 DEF Uploading
  <2>2. adm' = adm
    BY <2>1 DEF Receive, Refuse, Conflict, CreateBundle, WriteBundle, CreateSidecar,
      WriteSidecar, WriteSignature, OpenIndex, SaveIndex, UploadFault, tokenVars
  <2>3. \A q \in Publishers \ {p} : pub'[q] = pub[q]
    BY <1>1, <2>1 DEF Receive, Refuse, Conflict, CreateBundle, WriteBundle,
      CreateSidecar, WriteSidecar, WriteSignature, OpenIndex, SaveIndex, UploadFault,
      Goto
  <2>4. CASE \/ \E t \in Tokens, b \in Bundles \cup Malformed, tool \in Tools,
                   signed \in BOOLEAN : Receive(p, t, b, tool, signed)
             \/ Refuse(p) \/ Conflict(p)
    <3>1. loop' = loop /\ pub'[p].pc \in {"idle", "reading"}
      BY <1>1, <2>4 DEF Receive, Refuse, Conflict, Idle
    <3> QED BY <1>1, <2>2, <2>3, <3>1 DEF Coroutine
  <2>5. CASE CreateBundle(p)
    <3>1. loop = NoOne /\ loop' = p
      BY <2>5 DEF CreateBundle
    <3> QED BY <1>1, <2>2, <2>3, <3>1 DEF Coroutine
  <2>6. CASE \/ WriteBundle(p) \/ CreateSidecar(p) \/ WriteSidecar(p)
             \/ WriteSignature(p) \/ OpenIndex(p)
    <3>1. Working(p) /\ loop' = loop
      BY <2>6 DEF WriteBundle, CreateSidecar, WriteSidecar, WriteSignature, OpenIndex
    <3> QED BY <1>1, <2>2, <2>3, <3>1 DEF Coroutine
  <2>7. CASE SaveIndex(p) \/ UploadFault(p)
    <3>1. Working(p) /\ loop' = NoOne /\ pub'[p].pc = "idle"
      BY <1>1, <2>7 DEF SaveIndex, UploadFault, Idle
    <3> QED BY <1>1, <2>2, <2>3, <3>1 DEF Coroutine
  <2> QED BY <2>1, <2>4, <2>5, <2>6, <2>7
<1>4. CASE Installing \/ Serve
  <2>1. loop' = loop /\ pub' = pub /\ adm' = adm
    BY <1>4 DEF Installing, Lookup, Request, Download, Install, Serve, uploads, tokenVars
  <2> QED BY <1>1, <2>1 DEF Coroutine
<1>5. CASE Stop
  <2>1. /\ \A p \in Publishers : pub'[p].pc = "idle"
        /\ \A a \in Admins : adm'[a].pc # "idle" => ~Coroutine(a)'
    BY <1>1, <1>5 DEF Stop, ServedAdmins, Coroutine, Idle
  <2> QED BY <2>1
<1>6. CASE UNCHANGED vars
  BY <1>1, <1>6 DEF vars, uploads, tokenVars, Coroutine
<1> QED BY <1>2, <1>3, <1>4, <1>5, <1>6 DEF Next
-----------------------------------------------------------------------------
(***************************************************************************)
(* Bundle files.                                                           *)
(***************************************************************************)
\* Only an upload that begins or completes its bundle writes a bundle file.
LEMMA BundleWriters ==
  ASSUME [Next]_vars
  PROVE  bundle' = bundle \/ \E p \in Publishers : CreateBundle(p) \/ WriteBundle(p)
<1>1. CASE Uploading
  BY <1>1 DEF Uploading, Receive, Refuse, Conflict, CreateSidecar, WriteSidecar,
    WriteSignature, OpenIndex, SaveIndex, UploadFault, storage
<1>2. CASE \/ TokenNext /\ UNCHANGED <<storage, uploads, installs>>
           \/ Installing \/ Stop \/ Serve \/ UNCHANGED vars
  BY <1>2 DEF Installing, Lookup, Request, Download, Install, Stop, Serve, vars, storage
<1> QED BY <1>1, <1>2 DEF Next

\* A whole bundle file stays as it is.
LEMMA WholeStays ==
  ASSUME RegInv, [Next]_vars, NEW v \in Versions, NEW b \in Bundles, Holds(v, b)
  PROVE  Holds(v, b)'
<1>1. CASE bundle' = bundle
  BY <1>1 DEF Holds
<1>2. ASSUME NEW p \in Publishers, CreateBundle(p) PROVE Holds(v, b)'
  <2>1. v # Ver(p)
    BY <1>2, ElementFacts DEF CreateBundle, Vacant, Holds, Whole, Begun, Files
  <2> QED BY <1>2, <2>1 DEF CreateBundle, Holds, RegInv, TypeOK
<1>3. ASSUME NEW p \in Publishers, WriteBundle(p) PROVE Holds(v, b)'
  <2>1. bundle[Ver(p)] = Begun(pub[p].of)
    BY <1>3 DEF WriteBundle, RegInv, UploadsOnDisk, Working
  <2>2. v # Ver(p)
    BY <2>1 DEF Holds, Whole, Begun
  <2> QED BY <1>3, <2>2 DEF WriteBundle, Holds, RegInv, TypeOK
<1> QED BY <1>1, <1>2, <1>3, BundleWriters

\* A bundle file that exists goes on existing.
LEMMA FilesStay ==
  ASSUME RegInv, [Next]_vars, NEW v \in Versions, bundle[v] # None
  PROVE  bundle'[v] # None
<1>1. ASSUME NEW p \in Publishers, CreateBundle(p) PROVE bundle'[v] # None
  BY <1>1 DEF CreateBundle, Vacant, RegInv, TypeOK
<1>2. ASSUME NEW p \in Publishers, WriteBundle(p) PROVE bundle'[v] # None
  <2>1. pub[p].of \in Bundles
    BY <1>2 DEF WriteBundle, RegInv, TypeOK, Uploads
  <2> QED BY <1>2, <2>1, ElementFacts DEF WriteBundle, RegInv, TypeOK
<1> QED BY <1>1, <1>2, BundleWriters

\* An upload that goes on working has taken one of these steps itself.
LEMMA PubWriters ==
  ASSUME RegInv, [Next]_vars, NEW p \in Publishers, pub'[p] # pub[p], Working(p)'
  PROVE  \/ CreateBundle(p) \/ WriteBundle(p) \/ CreateSidecar(p) \/ WriteSidecar(p)
         \/ WriteSignature(p) \/ OpenIndex(p)
<1>1. pub \in [Publishers -> Uploads]
  BY DEF RegInv, TypeOK
<1>2. CASE Uploading
  <2>1. PICK q \in Publishers :
          \/ \E t \in Tokens, b \in Bundles \cup Malformed, tool \in Tools,
                signed \in BOOLEAN : Receive(q, t, b, tool, signed)
          \/ Refuse(q) \/ Conflict(q)
          \/ CreateBundle(q) \/ WriteBundle(q)
          \/ CreateSidecar(q) \/ WriteSidecar(q) \/ WriteSignature(q)
          \/ OpenIndex(q) \/ SaveIndex(q) \/ UploadFault(q)
    BY <1>2 DEF Uploading
  <2>2. q = p
    BY <1>1, <2>1 DEF Receive, Refuse, Conflict, CreateBundle, WriteBundle,
      CreateSidecar, WriteSidecar, WriteSignature, OpenIndex, SaveIndex, UploadFault,
      Goto
  <2>3. ~(SaveIndex(p) \/ UploadFault(p) \/ Refuse(p) \/ Conflict(p))
    BY <1>1 DEF SaveIndex, UploadFault, Refuse, Conflict, Working, Idle
  <2>4. ~\E t \in Tokens, b \in Bundles \cup Malformed, tool \in Tools,
            signed \in BOOLEAN : Receive(p, t, b, tool, signed)
    BY <1>1 DEF Receive, Working
  <2> QED BY <2>1, <2>2, <2>3, <2>4
<1>3. CASE \/ TokenNext /\ UNCHANGED <<storage, uploads, installs>>
           \/ Installing \/ Serve \/ UNCHANGED vars
  BY <1>3 DEF Installing, Lookup, Request, Download, Install, Serve, vars, uploads
<1>4. CASE Stop
  BY <1>1, <1>4 DEF Stop, Working, Idle
<1> QED BY <1>2, <1>3, <1>4 DEF Next

\* What an upload under way has on disk.
LEMMA OnDiskStep == ASSUME RegInv, [Next]_vars PROVE UploadsOnDisk'
<1> SUFFICES ASSUME NEW p \in Publishers, Working(p)'
             PROVE  IF pub'[p].pc = "created" THEN bundle'[Ver(p)'] = Begun(pub'[p].of)
                                              ELSE Holds(Ver(p), pub[p].of)'
  BY DEF UploadsOnDisk
<1>1. /\ pub \in [Publishers -> Uploads] /\ bundle \in [Versions -> Files]
      /\ UploadsOwnLoop /\ UploadsOwnLoop' /\ UploadsOnDisk
  BY OwnersStep DEF RegInv, TypeOK
<1>2. CASE pub'[p] = pub[p]
  <2>1. Working(p) /\ loop = p /\ Ver(p)' = Ver(p)
    BY <1>1, <1>2 DEF Working, UploadsOwnLoop, Ver
  <2>2. /\ \A q \in Publishers : ~CreateBundle(q)
        /\ \A q \in Publishers : WriteBundle(q) => q = p /\ pub'[p].pc # pub[p].pc
    <3>1. ASSUME NEW q \in Publishers, CreateBundle(q) PROVE FALSE
      BY <2>1, <3>1, ActorsDiffer DEF CreateBundle
    <3>2. ASSUME NEW q \in Publishers, WriteBundle(q)
          PROVE  q = p /\ pub'[p].pc # pub[p].pc
      <4>1. Working(q)
        BY <3>2 DEF WriteBundle, Working
      <4>2. q = p
        BY <1>1, <2>1, <4>1 DEF UploadsOwnLoop
      <4> QED BY <1>1, <3>2, <4>2 DEF WriteBundle, Goto, Uploads
    <3> QED BY <3>1, <3>2
  <2>3. bundle' = bundle
    BY <1>2, <2>2, BundleWriters
  <2> QED BY <1>1, <1>2, <2>1, <2>3 DEF UploadsOnDisk, Holds, Ver
<1>3. CASE pub'[p] # pub[p]
  <2>1. \/ CreateBundle(p) \/ WriteBundle(p) \/ CreateSidecar(p) \/ WriteSidecar(p)
        \/ WriteSignature(p) \/ OpenIndex(p)
    BY <1>3, PubWriters
  <2>2. CASE CreateBundle(p)
    <3>1. Ver(p) \in Versions /\ pub'[p].pc = "created" /\ pub'[p].of = pub[p].of
      BY <1>1, <2>2, BundlesNameVersions DEF CreateBundle, Goto, Uploads, Ver
    <3> QED BY <1>1, <2>2, <3>1 DEF CreateBundle, Ver
  <2>3. CASE WriteBundle(p)
    <3>1. /\ Ver(p) \in Versions /\ pub'[p].pc = "written" /\ pub'[p].of = pub[p].of
      BY <1>1, <2>3, BundlesNameVersions DEF WriteBundle, Goto, Uploads, Ver
    <3> QED BY <1>1, <2>3, <3>1 DEF WriteBundle, Ver, Holds
  <2>4. CASE \/ CreateSidecar(p) \/ WriteSidecar(p)
             \/ WriteSignature(p) \/ OpenIndex(p)
    <3>1. /\ Working(p) /\ pub[p].pc # "created" /\ bundle' = bundle
      BY <2>4 DEF CreateSidecar, WriteSidecar, WriteSignature, OpenIndex, Working
    <3>2. PICK to \in {"digesting", "digested", "indexing", "saving"} : Goto(p, to)
      BY <2>4 DEF CreateSidecar, WriteSidecar, WriteSignature, OpenIndex
    <3>3. pub'[p].pc # "created" /\ pub'[p].of = pub[p].of
      BY <1>1, <3>1, <3>2 DEF Goto, Uploads, Working
    <3> QED BY <1>1, <3>1, <3>3 DEF UploadsOnDisk, Ver, Holds
  <2> QED BY <2>1, <2>2, <2>3, <2>4
<1> QED BY <1>2, <1>3
-----------------------------------------------------------------------------
(***************************************************************************)
(* Digests.                                                                *)
(***************************************************************************)
LEMMA SidecarStep == ASSUME RegInv, [Next]_vars PROVE SidecarsTrue'
<1> SUFFICES ASSUME NEW v \in Versions, NEW b \in Bundles, sidecar'[v] = b
             PROVE  Holds(v, b)'
  BY DEF SidecarsTrue
<1>1. CASE sidecar'[v] = sidecar[v]
  BY <1>1, WholeStays DEF RegInv, SidecarsTrue
<1>2. CASE sidecar'[v] # sidecar[v]
  <2>1. PICK p \in Publishers : CreateSidecar(p) \/ WriteSidecar(p)
    BY <1>2 DEF Next, Uploading, Receive, Refuse, Conflict, CreateBundle, WriteBundle,
      WriteSignature, OpenIndex, SaveIndex, UploadFault, Installing, Lookup, Request,
      Download, Install, Stop, Serve, vars, storage
  <2>2. ~CreateSidecar(p)
    BY <1>2, ElementFacts DEF CreateSidecar, RegInv, TypeOK
  <2>3. b = pub[p].of /\ v = Ver(p)
    BY <1>2, <2>1, <2>2 DEF WriteSidecar, RegInv, TypeOK
  <2>4. Holds(v, b)
    BY <2>1, <2>2, <2>3 DEF WriteSidecar, RegInv, UploadsOnDisk, Working
  <2> QED BY <2>4, WholeStays
<1> QED BY <1>1, <1>2

LEMMA IndexStep == ASSUME RegInv, [Next]_vars PROVE IndexTrue'
<1> SUFFICES ASSUME NEW v \in Versions, NEW b \in Bundles,
                    index'.entries[v] # None, index'.entries[v].sha256 = b
             PROVE  Holds(v, b)'
  BY DEF IndexTrue
<1>1. CASE index'.entries = index.entries
  BY <1>1, WholeStays DEF RegInv, IndexTrue
<1>2. CASE index'.entries # index.entries
  <2>1. PICK p \in Publishers : OpenIndex(p)
    <3>1. PICK p \in Publishers : OpenIndex(p) \/ SaveIndex(p)
      BY <1>2 DEF Next, Uploading, Receive, Refuse, Conflict, CreateBundle, WriteBundle,
        CreateSidecar, WriteSidecar, WriteSignature, UploadFault, Installing, Lookup,
        Request, Download, Install, Stop, Serve, vars, storage
    <3>2. ~SaveIndex(p)
      BY <1>2 DEF SaveIndex, RegInv, TypeOK
    <3> QED BY <3>1, <3>2
  <2>2. index'.entries = Scan
    BY <2>1 DEF OpenIndex
  <2>3. Digest(v) = b
    BY <2>2 DEF Scan
  <2>4. sidecar[v] = b
    BY <2>3, ElementFacts DEF Digest
  <2> QED BY <2>4, WholeStays DEF RegInv, SidecarsTrue
<1> QED BY <1>1, <1>2

-----------------------------------------------------------------------------
(***************************************************************************)
(* Installs.                                                               *)
(***************************************************************************)
\* An install that goes on has taken one of these steps itself.
LEMMA InstallWriters ==
  ASSUME RegInv, [Next]_vars, NEW c \in Clients, cli'[c] # cli[c]
  PROVE  (\E v \in Versions : Lookup(c, v)) \/ Request(c) \/ Download(c) \/ Install(c)
<1>1. cli \in [Clients -> Installs]
  BY DEF RegInv, TypeOK
<1>2. CASE Installing
  <2>1. PICK d \in Clients :
          (\E v \in Versions : Lookup(d, v)) \/ Request(d) \/ Download(d) \/ Install(d)
    BY <1>2 DEF Installing
  <2>2. d = c
    BY <1>1, <2>1 DEF Lookup, Request, Download, Install
  <2> QED BY <2>1, <2>2
<1>3. CASE Uploading
  BY <1>3 DEF Uploading, Receive, Refuse, Conflict, CreateBundle, WriteBundle,
    CreateSidecar, WriteSidecar, WriteSignature, OpenIndex, SaveIndex, UploadFault,
    installs
<1>4. CASE \/ TokenNext /\ UNCHANGED <<storage, uploads, installs>>
           \/ Stop \/ Serve \/ UNCHANGED vars
  BY <1>4 DEF Stop, Serve, vars, installs
<1> QED BY <1>2, <1>3, <1>4 DEF Next

LEMMA AnswersStep == ASSUME RegInv, [Next]_vars PROVE AnswersTrue'
<1> SUFFICES ASSUME NEW c \in Clients, cli'[c].pc = "answered"
             PROVE  /\ bundle'[cli'[c].version] # None
                    /\ \A b \in Bundles : cli'[c].header = b => Holds(cli[c].version, b)'
  BY DEF AnswersTrue
<1>1. cli \in [Clients -> Installs]
  BY DEF RegInv, TypeOK
<1>2. CASE cli'[c] = cli[c]
  <2>1. cli[c].version \in Versions
    BY <1>1, <1>2 DEF Installs
  <2>2. bundle[cli[c].version] # None
    BY <1>2 DEF RegInv, AnswersTrue
  <2>3. bundle'[cli[c].version] # None
    BY <2>1, <2>2, FilesStay
  <2>4. ASSUME NEW b \in Bundles, cli[c].header = b PROVE Holds(cli[c].version, b)
    BY <1>2, <2>4 DEF RegInv, AnswersTrue
  <2>5. \A b \in Bundles, v \in Versions : Holds(v, b) => Holds(v, b)'
    BY WholeStays
  <2> QED BY <1>2, <2>1, <2>3, <2>4, <2>5 DEF Holds
<1>3. CASE cli'[c] # cli[c]
  <2>1. Request(c)
    BY <1>1, <1>3, InstallWriters DEF Lookup, Download, Install, Idle
  <2>2. /\ bundle[cli[c].version] # None /\ cli'[c].version = cli[c].version
        /\ cli'[c].header = sidecar[cli[c].version] /\ bundle' = bundle
    BY <1>1, <2>1 DEF Request, Idle, storage
  <2>3. cli[c].version \in Versions
    BY <1>1, <2>1 DEF Request, Installs
  <2> QED BY <2>2, <2>3 DEF RegInv, SidecarsTrue, Holds
<1> QED BY <1>2, <1>3

LEMMA BodiesStep == ASSUME RegInv, [Next]_vars PROVE BodiesTrue'
<1> SUFFICES ASSUME NEW c \in Clients, cli'[c].pc = "received"
             PROVE  /\ \A b \in Bundles : cli'[c].header = b => cli'[c].body = Whole(b)
                    /\ cli'[c].body.whole => bundle'[cli'[c].version] = cli'[c].body
  BY DEF BodiesTrue
<1>1. cli \in [Clients -> Installs] /\ bundle \in [Versions -> Files]
  BY DEF RegInv, TypeOK
<1>2. CASE cli'[c] = cli[c]
  <2>1. cli[c].version \in Versions /\ cli[c].body \in Files \ {None}
    BY <1>1, <1>2 DEF Installs
  <2>2. ASSUME cli[c].body.whole PROVE bundle'[cli[c].version] = cli[c].body
    <3>1. PICK b \in Bundles : cli[c].body = Whole(b)
      BY <2>1, <2>2 DEF Files, Begun
    <3>2. Holds(cli[c].version, b)
      BY <1>2, <2>2, <3>1 DEF RegInv, BodiesTrue, Holds
    <3> QED BY <2>1, <3>1, <3>2, WholeStays DEF Holds
  <2> QED BY <1>2, <2>2 DEF RegInv, BodiesTrue
<1>3. CASE cli'[c] # cli[c]
  <2>1. Download(c)
    BY <1>1, <1>3, InstallWriters DEF Lookup, Request, Install, Idle
  <2>2. /\ cli[c].pc = "answered" /\ cli'[c].version = cli[c].version
        /\ cli'[c].header = cli[c].header /\ bundle' = bundle
        /\ cli'[c].body = bundle[cli[c].version]
    BY <1>1, <2>1 DEF Download, Idle, storage
  <2> QED BY <2>2 DEF RegInv, AnswersTrue, Holds
<1> QED BY <1>2, <1>3

LEMMA InstalledStep == ASSUME RegInv, [Next]_vars PROVE InstalledIsStored'
<1> SUFFICES ASSUME NEW i \in installed'
             PROVE  i.body.whole /\ bundle'[i.version] = i.body
  BY DEF InstalledIsStored
<1>1. i.version \in Versions /\ i.body \in Files \ {None}
  BY StepTypes DEF TypeOK
<1>2. i.body.whole /\ bundle[i.version] = i.body
  <2>1. CASE i \in installed
    BY <2>1 DEF RegInv, InstalledIsStored
  <2>2. CASE i \notin installed
    <3>1. PICK c \in Clients : Install(c)
      <4>1. CASE Installing
        BY <2>2, <4>1 DEF Installing, Lookup, Request, Download
      <4>2. CASE Uploading
        BY <2>2, <4>2 DEF Uploading, Receive, Refuse, Conflict, CreateBundle,
          WriteBundle, CreateSidecar, WriteSidecar, WriteSignature, OpenIndex,
          SaveIndex, UploadFault, installs
      <4>3. CASE \/ TokenNext /\ UNCHANGED <<storage, uploads, installs>>
                 \/ Stop \/ Serve \/ UNCHANGED vars
        BY <2>2, <4>3 DEF Stop, Serve, vars, installs
      <4> QED BY <4>1, <4>2, <4>3 DEF Next
    <3>2. /\ cli[c].pc = "received" /\ cli[c].body.whole
          /\ i.version = cli[c].version /\ i.body = cli[c].body
      BY <2>2, <3>1 DEF Install, Extractable
    <3> QED BY <3>2 DEF RegInv, BodiesTrue
  <2> QED BY <2>1, <2>2
<1>3. PICK b \in Bundles : i.body = Whole(b)
  BY <1>1, <1>2 DEF Files, Begun
<1> QED BY <1>1, <1>2, <1>3, WholeStays DEF Holds

-----------------------------------------------------------------------------
(***************************************************************************)
(* Theorems.                                                               *)
(***************************************************************************)
LEMMA InitRegInv == Init => RegInv
<1> SUFFICES ASSUME Init PROVE RegInv
  OBVIOUS
<1> USE DEF Init, TokenInit
<1>1. TokenTypeOK
  <2>1. Idle \in Progress
    BY DEF Progress, Idle
  <2>2. faults \in 0..MaxFaults
    BY FaultsBounded
  <2> QED BY <2>1, <2>2 DEF TokenTypeOK
<1>2. TypeOK
  BY <1>1 DEF TypeOK, Files, Digests, NoEntries, Entries, Uploads, Installs, Idle
<1>3. UploadsOwnLoop /\ CreatorsOwnLoop /\ UploadsOnDisk
  BY DEF UploadsOwnLoop, CreatorsOwnLoop, UploadsOnDisk, Working, Idle
<1>4. SidecarsTrue /\ IndexTrue
  BY ElementFacts DEF SidecarsTrue, IndexTrue, NoEntries
<1>5. AnswersTrue /\ BodiesTrue /\ InstalledIsStored
  BY DEF AnswersTrue, BodiesTrue, InstalledIsStored, Idle
<1> QED BY <1>2, <1>3, <1>4, <1>5 DEF RegInv

LEMMA RegStep == ASSUME RegInv, [Next]_vars PROVE RegInv'
BY StepTypes, OwnersStep, OnDiskStep, SidecarStep, IndexStep, AnswersStep, BodiesStep,
  InstalledStep DEF RegInv

LEMMA RegInvHolds == Spec => []RegInv
<1>1. RegInv /\ [Next]_vars => RegInv'
  BY RegStep
<1> QED BY InitRegInv, <1>1, PTL DEF Spec

\* Every file, request and answer keeps one of the forms the code can give it.
THEOREM RegistryTypes == Spec => []TypeOK
<1>1. RegInv => TypeOK
  BY DEF RegInv
<1> QED BY RegInvHolds, <1>1, PTL

\* A digest sent with a bundle (app.py, download_bundle) is the digest of the
\* bytes that follow, however uploads and downloads interleave.
THEOREM HeadersAreTrue == Spec => []HeaderMatchesBody
<1>1. RegInv => HeaderMatchesBody
  BY DEF RegInv, BodiesTrue, HeaderMatchesBody
<1> QED BY RegInvHolds, <1>1, PTL

\* Whatever sempkg installed from the registry is, whole, what the registry
\* still stores for that version: all installs of a version are alike.
THEOREM InstallsAgree == Spec => []InstalledIsStored
<1>1. RegInv => InstalledIsStored
  BY DEF RegInv
<1> QED BY RegInvHolds, <1>1, PTL

Pub == [v \in Versions |->
          IF bundle[v] # None /\ bundle[v].whole THEN bundle[v].of ELSE None]
Cat == [v \in Versions |->
          IF index.whole /\ index.entries[v] # None /\ index.entries[v].sha256 \in Bundles
          THEN index.entries[v].sha256 ELSE None]

LEMMA CatalogueTrue ==
  ASSUME IndexTrue PROVE \A v \in Versions : Cat[v] \in {None, Pub[v]}
BY ElementFacts DEF IndexTrue, Holds, Cat, Pub

\* Completing a bundle publishes it.
LEMMA WriteBundlePublishes ==
  ASSUME RegInv, NEW p \in Publishers, WriteBundle(p)
  PROVE  \E b \in Bundles : Contract!Publish(b)
<1>1. PICK b \in Bundles : b = pub[p].of /\ VersionOf[b] = Ver(p) /\ Ver(p) \in Versions
  BY BundlesNameVersions DEF WriteBundle, RegInv, TypeOK, Uploads, Ver
<1>2. bundle[VersionOf[b]] = Begun(b)
  BY <1>1 DEF WriteBundle, RegInv, UploadsOnDisk, Working
<1>3. bundle' = [bundle EXCEPT ![VersionOf[b]] = Whole(b)] /\ index' = index
  BY <1>1 DEF WriteBundle
<1>4. Pub[VersionOf[b]] = None
  BY <1>1, <1>2 DEF Pub, Begun
<1>5. Pub' = [Pub EXCEPT ![VersionOf[b]] = b]
  BY <1>1, <1>3, ElementFacts DEF Pub, RegInv, TypeOK
<1>6. Cat' = Cat
  BY <1>3 DEF Cat
<1>7. Contract!Publish(b)
  BY <1>4, <1>5, <1>6 DEF Contract!Publish, Pub, Cat
<1> QED BY <1>7

\* No other step changes what is published, and the catalogue stays truthful.
LEMMA OtherStepsAnnounce ==
  ASSUME RegInv, [Next]_vars, ~\E p \in Publishers : WriteBundle(p)
  PROVE  Contract!Announce
<1>1. Pub' = Pub
  <2>1. CASE bundle' = bundle
    BY <2>1 DEF Pub
  <2>2. ASSUME NEW p \in Publishers, CreateBundle(p) PROVE Pub' = Pub
    BY <2>2, ElementFacts DEF CreateBundle, Vacant, Pub, Begun, RegInv, TypeOK
  <2> QED BY <2>1, <2>2, BundleWriters
<1>2. \A v \in Versions : Cat'[v] \in {None, Pub'[v]}
  <2>1. IndexTrue'
    BY IndexStep
  <2>2. \A v \in Versions, b \in Bundles :
          index'.entries[v] # None /\ index'.entries[v].sha256 = b => bundle'[v] = Whole(b)
    BY <2>1 DEF IndexTrue, Holds
  <2> QED BY <2>2, ElementFacts DEF Cat, Pub
<1>3. Cat' \in [Versions -> Bundles \cup {None}]
  BY DEF Cat
<1> QED BY <1>1, <1>2, <1>3 DEF Contract!Announce, Pub, Cat

\* The server with its threads, its failing writes and its restarts implements
\* the registry of RegistryContract.
THEOREM RegistryKeepsContract == Spec => KeepsContract
<1>1. Init => Contract!Init
  <2> SUFFICES ASSUME Init PROVE Contract!Init
    OBVIOUS
  <2>1. Pub = [v \in Versions |-> None] /\ Cat = [v \in Versions |-> None]
    BY DEF Init, Pub, Cat, NoEntries
  <2> QED BY <2>1 DEF Contract!Init, Pub, Cat
<1>2. RegInv /\ [Next]_vars => [Contract!Next]_(Contract!vars)
  <2> SUFFICES ASSUME RegInv, [Next]_vars PROVE Contract!Next
    OBVIOUS
  <2>1. ASSUME NEW p \in Publishers, WriteBundle(p) PROVE Contract!Next
    BY <2>1, WriteBundlePublishes DEF Contract!Next
  <2> QED BY <2>1, OtherStepsAnnounce DEF Contract!Next
<1> QED BY <1>1, <1>2, RegInvHolds, PTL DEF Spec, KeepsContract, Contract!Spec
-----------------------------------------------------------------------------
(***************************************************************************)
(* What is on disk and in the index.                                       *)
(***************************************************************************)
LEMMA SidecarWriters ==
  ASSUME [Next]_vars
  PROVE  sidecar' = sidecar \/ \E p \in Publishers : CreateSidecar(p) \/ WriteSidecar(p)
<1>1. CASE Uploading
  BY <1>1 DEF Uploading, Receive, Refuse, Conflict, CreateBundle, WriteBundle,
    WriteSignature, OpenIndex, SaveIndex, UploadFault, storage
<1>2. CASE \/ TokenNext /\ UNCHANGED <<storage, uploads, installs>>
           \/ Installing \/ Stop \/ Serve \/ UNCHANGED vars
  BY <1>2 DEF Installing, Lookup, Request, Download, Install, Stop, Serve, vars, storage
<1> QED BY <1>1, <1>2 DEF Next

LEMMA IndexWriters ==
  ASSUME RegInv, [Next]_vars
  PROVE  index'.entries = index.entries \/ \E p \in Publishers : OpenIndex(p)
<1>1. CASE Uploading
  BY <1>1 DEF Uploading, Receive, Refuse, Conflict, CreateBundle, WriteBundle,
    CreateSidecar, WriteSidecar, WriteSignature, SaveIndex, UploadFault, storage,
    RegInv, TypeOK
<1>2. CASE \/ TokenNext /\ UNCHANGED <<storage, uploads, installs>>
           \/ Installing \/ Stop \/ Serve \/ UNCHANGED vars
  BY <1>2 DEF Installing, Lookup, Request, Download, Install, Stop, Serve, vars, storage
<1> QED BY <1>1, <1>2 DEF Next

LEMMA SignaturesStay == ASSUME [Next]_vars PROVE signature \subseteq signature'
<1>1. CASE Uploading
  BY <1>1 DEF Uploading, Receive, Refuse, Conflict, CreateBundle, WriteBundle,
    CreateSidecar, WriteSidecar, WriteSignature, OpenIndex, SaveIndex, UploadFault,
    storage
<1>2. CASE \/ TokenNext /\ UNCHANGED <<storage, uploads, installs>>
           \/ Installing \/ Stop \/ Serve \/ UNCHANGED vars
  BY <1>2 DEF Installing, Lookup, Request, Download, Install, Stop, Serve, vars, storage
<1> QED BY <1>1, <1>2 DEF Next

\* An upload under way has a bundle that names a version.
LEMMA WorkingTypes ==
  ASSUME RegInv, NEW p \in Publishers, Working(p)
  PROVE  /\ pub[p].of \in Bundles /\ pub[p].signed \in BOOLEAN /\ Ver(p) \in Versions
         /\ Ver(p) = VersionOf[pub[p].of] /\ bundle[Ver(p)] # None
         /\ pub[p].pc # "created" => Holds(Ver(p), pub[p].of)
<1>1. pub[p] \in Uploads
  BY DEF RegInv, TypeOK
<1>2. /\ pub[p].of \in Bundles /\ pub[p].signed \in BOOLEAN /\ Ver(p) \in Versions
      /\ Ver(p) = VersionOf[pub[p].of]
  BY <1>1, BundlesNameVersions DEF Working, Uploads, Ver
<1>3. /\ bundle[Ver(p)] # None
      /\ pub[p].pc # "created" => Holds(Ver(p), pub[p].of)
  BY <1>2, ElementFacts DEF RegInv, UploadsOnDisk, Holds
<1> QED BY <1>2, <1>3

\* While an upload pauses between two of its steps, nobody else writes.
LEMMA LoopGuardsStorage ==
  ASSUME RegInv, [Next]_vars, NEW p \in Publishers, Working(p), pub'[p] = pub[p]
  PROVE  UNCHANGED storage
<1>1. /\ pub \in [Publishers -> Uploads] /\ UploadsOwnLoop /\ loop = p /\ loop # NoOne
  BY ActorsDiffer DEF RegInv, TypeOK, UploadsOwnLoop
<1>2. CASE Uploading
  <2>1. PICK q \in Publishers :
          \/ \E t \in Tokens, b \in Bundles \cup Malformed, tool \in Tools,
                signed \in BOOLEAN : Receive(q, t, b, tool, signed)
          \/ Refuse(q) \/ Conflict(q)
          \/ CreateBundle(q) \/ WriteBundle(q)
          \/ CreateSidecar(q) \/ WriteSidecar(q) \/ WriteSignature(q)
          \/ OpenIndex(q) \/ SaveIndex(q) \/ UploadFault(q)
    BY <1>2 DEF Uploading
  <2>2. ~CreateBundle(q)
    BY <1>1 DEF CreateBundle
  <2>3. ASSUME \/ WriteBundle(q) \/ CreateSidecar(q) \/ WriteSidecar(q)
               \/ WriteSignature(q) \/ OpenIndex(q) \/ SaveIndex(q)
        PROVE  FALSE
    <3>1. Working(q)
      BY <2>3 DEF WriteBundle, CreateSidecar, WriteSidecar, WriteSignature, OpenIndex,
        SaveIndex, Working
    <3>2. q = p
      BY <1>1, <3>1 DEF UploadsOwnLoop
    <3>3. CASE SaveIndex(p)
      BY <1>1, <3>3 DEF SaveIndex, Idle
    <3>4. ASSUME NEW to \in Steps, Goto(p, to), pub[p].pc # to PROVE FALSE
      BY <1>1, <3>4 DEF Goto, Uploads
    <3>5. CASE \/ WriteBundle(p) \/ CreateSidecar(p) \/ WriteSidecar(p)
               \/ WriteSignature(p) \/ OpenIndex(p)
      BY <3>4, <3>5 DEF WriteBundle, CreateSidecar, WriteSidecar, WriteSignature,
        OpenIndex, Steps
    <3> QED BY <2>3, <3>2, <3>3, <3>5
  <2> QED BY <2>1, <2>2, <2>3 DEF Receive, Refuse, Conflict, UploadFault
<1>3. CASE \/ TokenNext /\ UNCHANGED <<storage, uploads, installs>>
           \/ Installing \/ Stop \/ Serve \/ UNCHANGED vars
  BY <1>3 DEF Installing, Lookup, Request, Download, Install, Stop, Serve, vars
<1> QED BY <1>2, <1>3 DEF Next

\* A digest file that is filled stays as it is, and the index keeps an entry
\* with that digest.
LEMMA DigestStays ==
  ASSUME StockInv, [Next]_vars, NEW v \in Versions, NEW b \in Bundles, sidecar[v] = b
  PROVE  sidecar'[v] = b
<1>1. ASSUME NEW p \in Publishers, CreateSidecar(p) \/ WriteSidecar(p)
      PROVE  sidecar'[v] = b
  <2>1. sidecar[Ver(p)] \in {None, ""}
    BY <1>1 DEF StockInv, UploadsWritten, CreateSidecar, WriteSidecar
  <2>2. v # Ver(p)
    BY <2>1, ElementFacts
  <2> QED BY <1>1, <2>2 DEF CreateSidecar, WriteSidecar, StockInv, RegInv, TypeOK
<1> QED BY <1>1, SidecarWriters

LEMMA ScanLists ==
  ASSUME RegInv, NEW v \in Versions, NEW b \in Bundles, sidecar[v] = b
  PROVE  /\ Scan[v] # None /\ Scan[v].sha256 = b
         /\ v \in signature => Scan[v].signed
<1>1. bundle[v] # None
  BY ElementFacts DEF RegInv, SidecarsTrue, Holds
<1>2. Digest(v) = b
  BY ElementFacts DEF Digest
<1> DEFINE listed == v \in signature
<1>3. Scan[v] = [sha256 |-> b, signed |-> listed]
  BY <1>1, <1>2 DEF Scan
<1>4. listed \in BOOLEAN
  OBVIOUS
<1> HIDE DEF listed
<1>5. [sha256 |-> b, signed |-> listed]
        \in [sha256 : Bundles \cup {""}, signed : BOOLEAN]
  BY <1>4
<1>6. Scan[v].sha256 = b
  BY <1>3
<1>8. Scan[v] # None
  <2>1. Scan[v] \in [sha256 : Bundles \cup {""}, signed : BOOLEAN]
    BY <1>3, <1>5
  <2>2. None \notin [sha256 : Bundles \cup {""}, signed : BOOLEAN]
    BY NoneIsNothing
  <2> QED BY <2>1, <2>2, Zenon
<1>7. ASSUME v \in signature PROVE Scan[v].signed
  <2>1. listed = TRUE
    BY <1>7 DEF listed
  <2> QED BY <1>3, <2>1
<1> QED BY <1>6, <1>7, <1>8

LEMMA VacantStep == ASSUME StockInv, [Next]_vars PROVE VacantBare'
<1> SUFFICES ASSUME NEW v \in Versions, bundle'[v] = None PROVE sidecar'[v] = None
  BY DEF VacantBare
<1>1. bundle[v] = None /\ sidecar[v] = None
  BY FilesStay DEF StockInv, VacantBare
<1>2. ASSUME NEW p \in Publishers, CreateSidecar(p) \/ WriteSidecar(p)
      PROVE  sidecar'[v] = None
  <2>1. Working(p)
    BY <1>2 DEF Working, CreateSidecar, WriteSidecar
  <2>2. v # Ver(p)
    BY <1>1, <2>1, WorkingTypes DEF StockInv
  <2> QED BY <1>1, <1>2, <2>2 DEF CreateSidecar, WriteSidecar, StockInv, RegInv, TypeOK
<1> QED BY <1>1, <1>2, SidecarWriters

\* What an upload under way has written.
LEMMA WrittenStep == ASSUME StockInv, [Next]_vars PROVE UploadsWritten'
<1> DEFINE Written(p) ==
      /\ pub[p].pc \in {"created", "written"} => sidecar[Ver(p)] = None
      /\ pub[p].pc = "digesting" => sidecar[Ver(p)] = ""
      /\ pub[p].pc \in {"digested", "indexing", "saving"} => sidecar[Ver(p)] = pub[p].of
      /\ pub[p].pc \in {"indexing", "saving"} /\ pub[p].sig => Ver(p) \in signature
      /\ pub[p].pc = "saving" => index.entries = Scan
<1> SUFFICES ASSUME NEW p \in Publishers PROVE Written(p)'
  BY DEF UploadsWritten
<1>1. /\ pub \in [Publishers -> Uploads] /\ sidecar \in [Versions -> Digests]
      /\ bundle \in [Versions -> Files] /\ RegInv /\ VacantBare /\ Written(p)
  BY DEF StockInv, RegInv, TypeOK, UploadsWritten
<1>2. CASE ~Working(p)'
  BY <1>2 DEF Working
<1>3. CASE Working(p)' /\ pub'[p] = pub[p]
  <2>1. Working(p) /\ Ver(p)' = Ver(p)
    BY <1>3 DEF Working, Ver
  <2>2. UNCHANGED storage
    BY <1>1, <1>3, <2>1, LoopGuardsStorage
  <2>3. Scan' = Scan
    BY <2>2 DEF Scan, Digest, storage
  <2> QED BY <1>1, <1>3, <2>1, <2>2, <2>3 DEF storage
<1>4. CASE Working(p)' /\ pub'[p] # pub[p]
  <2>1. \/ CreateBundle(p) \/ WriteBundle(p) \/ CreateSidecar(p) \/ WriteSidecar(p)
        \/ WriteSignature(p) \/ OpenIndex(p)
    BY <1>1, <1>4, PubWriters
  <2>2. ASSUME NEW to \in Steps, Goto(p, to), pub[p].of \in Bundles
        PROVE  /\ pub'[p].pc = to /\ pub'[p].of = pub[p].of /\ pub'[p].sig = pub[p].sig
               /\ Ver(p)' = Ver(p) /\ Ver(p) \in Versions
    <3>1. pub'[p] = [pub[p] EXCEPT !.pc = to]
      BY <1>1, <2>2 DEF Goto
    <3>2. pub[p] \in [pc : {"reading"}, of : Malformed, signed : BOOLEAN, sig : BOOLEAN]
                      \cup [pc : Steps, of : Bundles, signed : BOOLEAN, sig : BOOLEAN]
      BY <1>1, <1>4, <2>1 DEF Uploads, CreateBundle, WriteBundle, CreateSidecar,
        WriteSidecar, WriteSignature, OpenIndex
    <3> QED BY <3>1, <3>2, <2>2, BundlesNameVersions DEF Ver
  <2>3. CASE CreateBundle(p)
    <3>1. pub'[p].pc = "created" /\ Ver(p)' = Ver(p) /\ Ver(p) \in Versions
      BY <2>2, <2>3 DEF CreateBundle, Steps
    <3>2. sidecar'[Ver(p)] = None
      BY <1>1, <2>3, <3>1 DEF CreateBundle, Vacant, VacantBare
    <3> QED BY <3>1, <3>2
  <2>4. ASSUME Working(p) PROVE pub[p].of \in Bundles
    BY <1>1, <2>4, WorkingTypes
  <2>5. CASE WriteBundle(p)
    <3>1. pub'[p].pc = "written" /\ Ver(p)' = Ver(p)
      BY <2>2, <2>4, <2>5 DEF WriteBundle, Steps, Working
    <3> QED BY <1>1, <2>5, <3>1 DEF WriteBundle
  <2>6. CASE CreateSidecar(p)
    <3>1. pub'[p].pc = "digesting" /\ Ver(p)' = Ver(p) /\ Ver(p) \in Versions
      BY <2>2, <2>4, <2>6 DEF CreateSidecar, Steps, Working
    <3> QED BY <1>1, <2>6, <3>1 DEF CreateSidecar
  <2>7. CASE WriteSidecar(p)
    <3>1. /\ pub'[p].pc = "digested" /\ Ver(p)' = Ver(p) /\ Ver(p) \in Versions
          /\ pub'[p].of = pub[p].of
      BY <2>2, <2>4, <2>7 DEF WriteSidecar, Steps, Working
    <3> QED BY <1>1, <2>7, <3>1 DEF WriteSidecar
  <2>8. CASE WriteSignature(p)
    <3>1. /\ pub'[p].pc = "indexing" /\ Ver(p)' = Ver(p)
          /\ pub'[p].of = pub[p].of /\ pub'[p].sig = pub[p].sig
      BY <2>2, <2>4, <2>8 DEF WriteSignature, Steps, Working
    <3> QED BY <1>1, <2>8, <3>1 DEF WriteSignature
  <2>9. CASE OpenIndex(p)
    <3>1. /\ pub'[p].pc = "saving" /\ Ver(p)' = Ver(p)
          /\ pub'[p].of = pub[p].of /\ pub'[p].sig = pub[p].sig
      BY <2>2, <2>4, <2>9 DEF OpenIndex, Steps, Working
    <3>2. Scan' = Scan /\ index'.entries = Scan
      BY <2>9 DEF OpenIndex, Scan, Digest
    <3> QED BY <1>1, <2>9, <3>1, <3>2 DEF OpenIndex
  <2> QED BY <2>1, <2>3, <2>5, <2>6, <2>7, <2>8, <2>9
<1> QED BY <1>2, <1>3, <1>4

LEMMA StockInvHolds == Spec => []StockInv
<1>1. Init => StockInv
  <2> SUFFICES ASSUME Init PROVE StockInv
    OBVIOUS
  <2>1. \A p \in Publishers : pub[p].pc = "idle"
    BY DEF Init, Idle
  <2>2. UploadsWritten
    BY <2>1 DEF UploadsWritten
  <2>3. VacantBare
    BY DEF Init, VacantBare
  <2> QED BY InitRegInv, <2>2, <2>3 DEF StockInv
<1>2. StockInv /\ [Next]_vars => StockInv'
  BY RegStep, VacantStep, WrittenStep DEF StockInv
<1> QED BY <1>1, <1>2, PTL DEF Spec

-----------------------------------------------------------------------------
(***************************************************************************)
(* Nothing fails.                                                          *)
(***************************************************************************)
LEMMA ListedStays ==
  ASSUME StockInv, [Next]_vars, NEW v \in Versions, Listed(v)
  PROVE  Listed(v)'
<1>1. PICK b \in Bundles : sidecar[v] = b
  BY DEF Listed
<1>2. sidecar'[v] = b
  BY <1>1, DigestStays
<1>3. RegInv
  BY DEF StockInv
<1>4. index'.entries[v] # None /\ index'.entries[v].sha256 \in Bundles
  <2>1. CASE index'.entries = index.entries
    BY <2>1 DEF Listed
  <2>2. ASSUME NEW p \in Publishers, OpenIndex(p)
        PROVE  index'.entries[v] # None /\ index'.entries[v].sha256 \in Bundles
    <3>1. index'.entries = Scan
      BY <2>2 DEF OpenIndex
    <3> QED BY <1>1, <1>3, <3>1, ScanLists
  <2> QED BY <1>3, <2>1, <2>2, IndexWriters
<1> QED BY <1>2, <1>4 DEF Listed

\* Nothing that fails is forgotten.
LEMMA FaultsGrow == ASSUME RegInv, [Next]_vars, faults' = 0 PROVE faults = 0
<1>1. faults \in Nat
  BY FaultsBounded DEF RegInv, TypeOK, TokenTypeOK
<1>2. CASE TokenNext /\ UNCHANGED <<storage, uploads, installs>>
  <2>1. faults' = faults \/ faults' = faults + 1
    BY <1>2 DEF TokenNext, LoadToAdd, LoadToRevoke, OpenToSave, Save, AdminFault
  <2> QED BY <1>1, <2>1
<1>3. CASE Uploading
  <2>1. faults' = faults \/ faults' = faults + 1
    BY <1>3 DEF Uploading, Receive, Refuse, Conflict, CreateBundle, WriteBundle,
      CreateSidecar, WriteSidecar, WriteSignature, OpenIndex, SaveIndex, UploadFault
  <2> QED BY <1>1, <2>1
<1>4. CASE Installing \/ Stop \/ Serve \/ UNCHANGED vars
  <2>1. faults' = faults \/ faults' = faults + 1
    BY <1>4 DEF Installing, Lookup, Request, Download, Install, Stop, Serve, vars
  <2> QED BY <1>1, <2>1
<1> QED BY <1>2, <1>3, <1>4 DEF Next

\* An upload that nothing disturbs goes on until it has saved the index.
LEMMA UploadsGoOn ==
  ASSUME RegInv, [Next]_vars, faults' = faults, NEW p \in Publishers, Working(p)
  PROVE  (Working(p)' /\ Ver(p)' = Ver(p)) \/ SaveIndex(p)
<1>1. pub \in [Publishers -> Uploads] /\ faults \in Nat
  BY FaultsBounded DEF RegInv, TypeOK, TokenTypeOK
<1>2. CASE pub' = pub
  BY <1>2 DEF Working, Ver
<1>3. CASE Uploading
  <2>1. PICK q \in Publishers :
          \/ \E t \in Tokens, b \in Bundles \cup Malformed, tool \in Tools,
                signed \in BOOLEAN : Receive(q, t, b, tool, signed)
          \/ Refuse(q) \/ Conflict(q)
          \/ CreateBundle(q) \/ WriteBundle(q)
          \/ CreateSidecar(q) \/ WriteSidecar(q) \/ WriteSignature(q)
          \/ OpenIndex(q) \/ SaveIndex(q) \/ UploadFault(q)
    BY <1>3 DEF Uploading
  <2>2. CASE pub'[p] = pub[p]
    BY <2>2 DEF Working, Ver
  <2>3. CASE pub'[p] # pub[p]
    <3>1. q = p
      BY <1>1, <2>1, <2>3 DEF Receive, Refuse, Conflict, CreateBundle, WriteBundle,
        CreateSidecar, WriteSidecar, WriteSignature, OpenIndex, SaveIndex, UploadFault,
        Goto
    <3>2. ~UploadFault(p)
      BY <1>1 DEF UploadFault
    <3>3. \/ WriteBundle(p) \/ CreateSidecar(p) \/ WriteSidecar(p)
          \/ WriteSignature(p) \/ OpenIndex(p) \/ SaveIndex(p)
      BY <2>1, <3>1, <3>2 DEF Receive, Refuse, Conflict, CreateBundle, Working
    <3>4. ASSUME NEW to \in Steps \ {"reading"}, Goto(p, to)
          PROVE  Working(p)' /\ Ver(p)' = Ver(p)
      <4>1. pub'[p] = [pub[p] EXCEPT !.pc = to]
        BY <1>1, <3>4 DEF Goto
      <4> QED BY <1>1, <3>4, <4>1 DEF Working, Ver, Uploads, Steps
    <3> QED BY <3>3, <3>4 DEF WriteBundle, CreateSidecar, WriteSidecar, WriteSignature,
      OpenIndex, Steps
  <2> QED BY <2>2, <2>3
<1>4. CASE \/ TokenNext /\ UNCHANGED <<storage, uploads, installs>>
           \/ Installing \/ Serve \/ UNCHANGED vars
  BY <1>2, <1>4 DEF Installing, Lookup, Request, Download, Install, Serve, vars, uploads
<1>5. ~Stop
  BY <1>1 DEF Stop
<1> QED BY <1>3, <1>4, <1>5 DEF Next

\* A saved index lists what the upload has stored.
LEMMA SaveLists ==
  ASSUME StockInv, NEW p \in Publishers, SaveIndex(p)
  PROVE  /\ Listed(Ver(p)) /\ Ver(p) \in Versions
         /\ Holds(Ver(p), pub[p].of) /\ sidecar[Ver(p)] = pub[p].of
         /\ pub[p].of \in Bundles /\ Ver(p) = VersionOf[pub[p].of]
         /\ index.entries[Ver(p)].sha256 = pub[p].of
         /\ pub[p].sig =>
              Ver(p) \in signature /\ index.entries[Ver(p)].signed
         /\ UNCHANGED <<bundle, sidecar, signature>> /\ index'.entries = index.entries
<1>1. RegInv /\ UploadsWritten /\ Working(p) /\ pub[p].pc = "saving"
  BY DEF StockInv, SaveIndex, Working
<1>2. /\ pub[p].of \in Bundles /\ Ver(p) \in Versions /\ Ver(p) = VersionOf[pub[p].of]
      /\ Holds(Ver(p), pub[p].of)
  BY <1>1, WorkingTypes
<1>3. /\ sidecar[Ver(p)] = pub[p].of /\ index.entries = Scan
      /\ pub[p].sig => Ver(p) \in signature
  BY <1>1 DEF UploadsWritten
<1>4. /\ Scan[Ver(p)] # None /\ Scan[Ver(p)].sha256 = pub[p].of
      /\ Ver(p) \in signature => Scan[Ver(p)].signed
  BY <1>1, <1>2, <1>3, ScanLists
<1>5. UNCHANGED <<bundle, sidecar, signature>> /\ index'.entries = index.entries
  BY <1>1 DEF SaveIndex, RegInv, TypeOK
<1> QED BY <1>2, <1>3, <1>4, <1>5 DEF Listed

LEMMA AttendedStep == ASSUME StockInv, Attended, [Next]_vars PROVE Attended'
<1> SUFFICES ASSUME faults' = 0, NEW v \in Versions, bundle'[v] # None
             PROVE  Listed(v)' \/ \E p \in Publishers : Working(p)' /\ Ver(p)' = v
  BY DEF Attended
<1>1. RegInv /\ faults = 0
  BY FaultsGrow DEF StockInv
<1>2. CASE bundle[v] # None
  <2>1. CASE Listed(v)
    BY <2>1, ListedStays
  <2>2. ASSUME NEW p \in Publishers, Working(p), Ver(p) = v
        PROVE  Listed(v)' \/ \E q \in Publishers : Working(q)' /\ Ver(q)' = v
    <3>1. CASE SaveIndex(p)
      BY <2>2, <3>1, SaveLists, ListedStays
    <3>2. CASE Working(p)' /\ Ver(p)' = Ver(p)
      BY <2>2, <3>2
    <3> QED BY <1>1, <2>2, <3>1, <3>2, UploadsGoOn
  <2> QED BY <1>1, <1>2, <2>1, <2>2 DEF Attended
<1>3. CASE bundle[v] = None
  <2>1. PICK p \in Publishers : CreateBundle(p) \/ WriteBundle(p)
    BY <1>3, BundleWriters
  <2>2. v = Ver(p)
    BY <1>1, <1>3, <2>1 DEF CreateBundle, WriteBundle, RegInv, TypeOK
  <2>3. CreateBundle(p)
    <3>1. WriteBundle(p) => Working(p)
      BY DEF WriteBundle, Working
    <3> QED BY <1>1, <1>3, <2>1, <2>2, <3>1, WorkingTypes
  <2>4. pub'[p] = [pub[p] EXCEPT !.pc = "created"]
    BY <1>1, <2>3 DEF CreateBundle, Goto, RegInv, TypeOK
  <2>5. Working(p)' /\ Ver(p)' = Ver(p)
    <3>1. pub[p] \in Uploads /\ pub[p].pc = "reading"
      BY <1>1, <2>3 DEF CreateBundle, RegInv, TypeOK
    <3> QED BY <2>4, <3>1 DEF Working, Ver, Uploads
  <2> QED BY <2>2, <2>5
<1> QED BY <1>2, <1>3

\* As long as nothing has failed and the server has not been stopped, every
\* bundle that can be downloaded between two uploads is listed with its digest.
THEOREM FaultlessIndexIsComplete == Spec => []ListedWithoutFaults
<1>1. Init => Attended
  BY DEF Init, Attended
<1>2. StockInv /\ Attended /\ [Next]_vars => Attended'
  BY AttendedStep
<1>3. StockInv /\ Attended => ListedWithoutFaults
  <2> SUFFICES ASSUME StockInv, Attended, faults = 0, loop = NoOne,
                      NEW v \in Versions, bundle[v] # None
               PROVE  index.entries[v] # None /\ index.entries[v].sha256 \in Bundles
    BY DEF ListedWithoutFaults, BundlesAreListed
  <2>1. \A p \in Publishers : ~Working(p)
    BY ActorsDiffer DEF StockInv, RegInv, UploadsOwnLoop
  <2> QED BY <2>1 DEF Attended, Listed
<1> QED BY <1>1, <1>2, <1>3, StockInvHolds, PTL DEF Spec

-----------------------------------------------------------------------------
(***************************************************************************)
(* What was answered with success.                                         *)
(***************************************************************************)
LEMMA SentStep ==
  ASSUME "sembundle" \notin Tools, RegInv, SignaturesSent, [Next]_vars
  PROVE  SignaturesSent'
<1> SUFFICES ASSUME NEW p \in Publishers, pub'[p].pc # "idle"
             PROVE  pub'[p].sig = pub'[p].signed
  BY DEF SignaturesSent
<1>1. pub \in [Publishers -> Uploads] /\ SignaturesSent
  BY DEF RegInv, TypeOK
<1>2. CASE pub'[p] = pub[p]
  BY <1>1, <1>2 DEF SignaturesSent
<1>3. ASSUME NEW q \in Publishers, NEW to \in Steps, Goto(q, to), pub[q].pc # "idle"
      PROVE  pub'[p].sig = pub'[p].signed
  <2>1. pub'[p].sig = pub[p].sig /\ pub'[p].signed = pub[p].signed /\ pub[p].pc # "idle"
    BY <1>1, <1>2, <1>3 DEF Goto, Uploads, SignaturesSent
  <2> QED BY <1>1, <2>1 DEF SignaturesSent
<1>4. CASE Uploading
  <2>1. PICK q \in Publishers :
          \/ \E t \in Tokens, b \in Bundles \cup Malformed, tool \in Tools,
                signed \in BOOLEAN : Receive(q, t, b, tool, signed)
          \/ Refuse(q) \/ Conflict(q)
          \/ CreateBundle(q) \/ WriteBundle(q)
          \/ CreateSidecar(q) \/ WriteSidecar(q) \/ WriteSignature(q)
          \/ OpenIndex(q) \/ SaveIndex(q) \/ UploadFault(q)
    BY <1>4 DEF Uploading
  <2>2. ASSUME NEW t \in Tokens, NEW b \in Bundles \cup Malformed, NEW tool \in Tools,
               NEW signed \in BOOLEAN, Receive(q, t, b, tool, signed)
        PROVE  pub'[p].sig = pub'[p].signed
    <3>1. tool = "http"
      BY ToolsExist
    <3>2. Attached(tool, signed) = signed
      BY <3>1 DEF Attached
    <3> QED BY <1>1, <1>2, <2>2, <3>2 DEF Receive
  <2>3. CASE Refuse(q) \/ Conflict(q) \/ SaveIndex(q) \/ UploadFault(q)
    BY <1>1, <1>2, <2>3 DEF Refuse, Conflict, SaveIndex, UploadFault, Idle
  <2>4. CASE \/ CreateBundle(q) \/ WriteBundle(q) \/ CreateSidecar(q)
             \/ WriteSidecar(q) \/ WriteSignature(q) \/ OpenIndex(q)
    BY <1>3, <2>4 DEF CreateBundle, WriteBundle, CreateSidecar, WriteSidecar,
      WriteSignature, OpenIndex, Steps
  <2> QED BY <2>1, <2>2, <2>3, <2>4
<1>5. CASE \/ TokenNext /\ UNCHANGED <<storage, uploads, installs>>
           \/ Installing \/ Serve \/ UNCHANGED vars
  BY <1>2, <1>5 DEF Installing, Lookup, Request, Download, Install, Serve, vars, uploads
<1>6. CASE Stop
  BY <1>6 DEF Stop, Idle
<1> QED BY <1>4, <1>5, <1>6 DEF Next

\* Uploads are reported by the step that saves the index.
LEMMA StoredWriters ==
  ASSUME [Next]_vars
  PROVE  stored' = stored \/ \E p \in Publishers : SaveIndex(p)
<1>1. CASE Uploading
  BY <1>1 DEF Uploading, Receive, Refuse, Conflict, CreateBundle, WriteBundle,
    CreateSidecar, WriteSidecar, WriteSignature, OpenIndex, UploadFault
<1>2. CASE \/ TokenNext /\ UNCHANGED <<storage, uploads, installs>>
           \/ Installing \/ Stop \/ Serve \/ UNCHANGED vars
  BY <1>2 DEF Installing, Lookup, Request, Download, Install, Stop, Serve, vars, uploads
<1> QED BY <1>1, <1>2 DEF Next

LEMMA KeptStep ==
  ASSUME StockInv, SignaturesSent, StoredKept, [Next]_vars
  PROVE  StoredKept'
<1> DEFINE Kept(s, v) ==
      /\ Holds(v, s.of) /\ sidecar[v] = s.of
      /\ index.entries[v] # None /\ index.entries[v].sha256 = s.of
      /\ s.signed => v \in signature /\ index.entries[v].signed
<1> SUFFICES ASSUME NEW s \in stored' PROVE Kept(s, VersionOf[s.of])'
  BY DEF StoredKept
<1> DEFINE v == VersionOf[s.of]
<1>1. s.of \in Bundles /\ v \in Versions /\ RegInv
  BY StepTypes, BundlesNameVersions DEF StockInv, TypeOK
<1>2. CASE s \in stored
  <2>1. Kept(s, v)
    BY <1>2 DEF StoredKept
  <2>2. Holds(v, s.of)' /\ sidecar'[v] = s.of /\ signature \subseteq signature'
    BY <1>1, <2>1, WholeStays, DigestStays, SignaturesStay
  <2>3. CASE index'.entries = index.entries
    BY <2>1, <2>2, <2>3
  <2>4. ASSUME NEW p \in Publishers, OpenIndex(p) PROVE Kept(s, v)'
    <3>1. index'.entries = Scan
      BY <2>4 DEF OpenIndex
    <3>2. Scan[v] # None /\ Scan[v].sha256 = s.of /\ (v \in signature => Scan[v].signed)
      BY <1>1, <2>1, ScanLists
    <3> QED BY <2>1, <2>2, <3>1, <3>2
  <2> QED BY <1>1, <2>3, <2>4, IndexWriters
<1>3. CASE s \notin stored
  <2>1. PICK p \in Publishers : SaveIndex(p)
    BY <1>3, StoredWriters
  <2>2. s = [of |-> pub[p].of, signed |-> pub[p].signed]
    BY <1>3, <2>1 DEF SaveIndex
  <2>3. pub[p].sig = pub[p].signed
    BY <2>1 DEF SignaturesSent, SaveIndex
  <2>4. v = Ver(p) /\ s.of = pub[p].of /\ s.signed = pub[p].signed
    BY <2>2 DEF Ver
  <2>5. /\ Holds(v, s.of) /\ sidecar[v] = s.of
        /\ index.entries[v] # None /\ index.entries[v].sha256 = s.of
        /\ s.signed => v \in signature /\ index.entries[v].signed
        /\ UNCHANGED <<bundle, sidecar, signature>> /\ index'.entries = index.entries
    BY <2>1, <2>3, <2>4, SaveLists DEF Listed
  <2> QED BY <2>5 DEF Holds
<1> QED BY <1>2, <1>3

\* What publish_bundle answered with success stays as it was uploaded and is
\* listed with its digest, and as signed when it came with a signature, whatever
\* fails later.  publish.rs has no part for a signature: the theorem is about
\* uploads that send the signature they have.
THEOREM StoredStays == ASSUME "sembundle" \notin Tools PROVE Spec => []StoredStaysListed
<1>1. Init => SignaturesSent /\ StoredKept
  BY DEF Init, SignaturesSent, StoredKept, Idle
<1>2. StockInv /\ SignaturesSent /\ StoredKept /\ [Next]_vars
        => (SignaturesSent /\ StoredKept)'
  BY SentStep, KeptStep DEF StockInv
<1>3. StoredKept => StoredStaysListed
  BY DEF StoredKept, StoredStaysListed, Holds
<1> QED BY <1>1, <1>2, <1>3, StockInvHolds, PTL DEF Spec

-----------------------------------------------------------------------------
(***************************************************************************)
(* Tokens.                                                                 *)
(***************************************************************************)
\* Steps that leave the tokens and what was answered alone: some administrators
\* may be gone, the others are where they were.
LEMMA NothingTold ==
  ASSUME TokenInv, UNCHANGED <<tokens, minted, granted, revoked, crossed>>,
         \A a \in Admins : adm'[a].pc = "idle" \/ adm'[a] = adm[a]
  PROVE  TokenInv'
<1>1. TokensMinted' /\ ReadsPast'
  BY DEF TokenInv, TokensMinted, ReadsPast
<1>2. ASSUME ~crossed PROVE (FreshReads /\ WritesAlone)'
  <2>1. FreshReads'
    BY <1>2 DEF TokenInv, FreshReads, Agrees, Told
  <2>2. WritesAlone'
    BY <1>2 DEF TokenInv, WritesAlone, Told
  <2> QED BY <2>1, <2>2
<1>3. ~crossed => (Readable => SaysAsTold(tokens.set))'
  BY DEF TokenInv, Readable, SaysAsTold
<1> QED BY <1>1, <1>2, <1>3 DEF TokenInv

\* A file that is being written is not read, nor one that was abandoned.
LEMMA TruncatedIsUnreadable == ASSUME tokens = Truncated PROVE ~Readable
<1>1. tokens.length = 0 /\ tokens.set = {} /\ Cardinality({}) = 0
  BY FS_EmptySet DEF Truncated
<1> QED BY <1>1 DEF Readable

\* An administrator reads the file: to add a new token, or to revoke one.
LEMMA LoadStep ==
  ASSUME TypeOK, TokenInv, NEW a \in Admins, NEW route \in Routes, NEW t \in Tokens,
         LoadToAdd(a, route, t) \/ LoadToRevoke(a, route, t)
  PROVE  TokenInv'
<1>1. adm \in [Admins -> Progress]
  BY DEF TypeOK, TokenTypeOK
<1>2. /\ Readable /\ minted \subseteq minted'
      /\ UNCHANGED <<tokens, granted, revoked, crossed>> /\ UNCHANGED Told
  BY DEF LoadToAdd, LoadToRevoke, Loads, IsValid, Told
<1>3. /\ \A b \in Admins \ {a} : adm'[b] = adm[b]
      /\ adm'[a].pc = "loaded" /\ adm'[a].token = t /\ adm'[a].read = Told
  BY <1>1 DEF LoadToAdd, LoadToRevoke
<1>4. \/ /\ adm'[a].op = "add" /\ adm'[a].data = tokens.set \cup {t}
         /\ t \notin minted /\ t \in minted'
      \/ /\ adm'[a].op = "revoke" /\ adm'[a].data = tokens.set \ {t}
         /\ t \in tokens.set
  BY <1>1 DEF LoadToAdd, LoadToRevoke, With, IsValid
<1>5. TokensMinted'
  BY <1>2, <1>3, <1>4 DEF TokenInv, TokensMinted
<1>6. ReadsPast'
  <2>1. adm'[a].read.granted = granted /\ adm'[a].read.revoked = revoked
    BY <1>3 DEF Told
  <2>2. ASSUME NEW b \in Admins, adm'[b].pc # "idle", b # a, adm'[b].op = "add",
               adm'[a].op = "add"
        PROVE  adm'[b].token # adm'[a].token
    BY <1>3, <1>4, <2>2 DEF TokenInv, TokensMinted
  <2>3. adm'[a].op = "add" => adm'[a].token \notin granted
    BY <1>3, <1>4 DEF TokenInv, TokensMinted
  <2> QED BY <1>2, <1>3, <2>1, <2>2, <2>3 DEF TokenInv, ReadsPast
<1>7. ASSUME ~crossed PROVE (FreshReads /\ WritesAlone)'
  <2>1. SaysAsTold(tokens.set) /\ FreshReads /\ WritesAlone
    BY <1>2, <1>7 DEF TokenInv
  <2>2. Agrees(a)'
    <3>1. CASE adm'[a].op = "add"
      <4>1. t \notin revoked
        BY <1>4, <3>1 DEF TokenInv, TokensMinted
      <4> QED BY <1>2, <1>3, <1>4, <2>1, <3>1, <4>1 DEF Agrees, SaysAsTold
    <3>2. CASE adm'[a].op = "revoke"
      BY <1>2, <1>3, <1>4, <2>1, <3>2 DEF Agrees, SaysAsTold
    <3> QED BY <1>4, <3>1, <3>2
  <2>3. FreshReads'
    <3> SUFFICES ASSUME NEW b \in Admins, adm'[b].pc # "idle", adm'[b].read = Told'
                 PROVE  Agrees(b)'
      BY DEF FreshReads
    <3>1. CASE b # a
      BY <1>2, <1>3, <2>1, <3>1 DEF FreshReads, Agrees
    <3> QED BY <2>2, <3>1
  <2>4. \A b \in Admins : adm'[b].pc # "opened"
    BY <1>2, <1>3, <2>1, TruncatedIsUnreadable DEF WritesAlone
  <2> QED BY <2>3, <2>4 DEF WritesAlone
<1>8. ~crossed => (Readable => SaysAsTold(tokens.set))'
  BY <1>2 DEF TokenInv, Readable, SaysAsTold
<1> QED BY <1>2, <1>5, <1>6, <1>7, <1>8 DEF TokenInv

\* It opens the file to write it.
LEMMA OpenStep ==
  ASSUME TypeOK, TokenInv, NEW a \in Admins, OpenToSave(a)
  PROVE  TokenInv'
<1>1. adm \in [Admins -> Progress]
  BY DEF TypeOK, TokenTypeOK
<1>2. /\ adm'[a] = [adm[a] EXCEPT !.pc = "opened"] /\ adm[a].pc = "loaded"
      /\ \A b \in Admins \ {a} : adm'[b] = adm[b]
      /\ tokens' = Truncated /\ UNCHANGED <<minted, granted, revoked>> /\ UNCHANGED Told
  BY <1>1 DEF OpenToSave, Told
<1>3. /\ adm'[a].pc = "opened" /\ adm'[a].op = adm[a].op /\ adm'[a].read = adm[a].read
      /\ adm'[a].token = adm[a].token /\ adm'[a].data = adm[a].data
  BY <1>1, <1>2 DEF Progress
<1>4. TokensMinted' /\ ReadsPast'
  <2>1. \A b \in Admins : adm'[b].pc # "idle" =>
          /\ adm[b].pc # "idle" /\ adm'[b].op = adm[b].op /\ adm'[b].read = adm[b].read
          /\ adm'[b].token = adm[b].token /\ adm'[b].data = adm[b].data
    BY <1>2, <1>3
  <2>2. TokensMinted'
    BY <1>2, <2>1 DEF TokenInv, TokensMinted, Truncated
  <2>3. ReadsPast'
    BY <1>2, <2>1 DEF TokenInv, ReadsPast
  <2> QED BY <2>2, <2>3
<1>5. ASSUME ~crossed' PROVE (FreshReads /\ WritesAlone)'
  <2>1. ~crossed /\ ~Overtakes(a)
    BY <1>5 DEF OpenToSave
  <2>2. FreshReads /\ WritesAlone
    BY <2>1 DEF TokenInv
  <2>3. adm[a].read = Told /\ \A b \in Admins \ {a} : adm[b].pc # "opened"
    BY <2>1 DEF Overtakes
  <2>4. FreshReads'
    <3> SUFFICES ASSUME NEW b \in Admins, adm'[b].pc # "idle", adm'[b].read = Told'
                 PROVE  Agrees(b)'
      BY DEF FreshReads
    <3>1. adm[b].pc # "idle" /\ adm[b].read = Told
      <4>1. adm[b].read = adm'[b].read /\ (b = a \/ adm'[b] = adm[b])
        BY <1>2, <1>3
      <4> QED BY <1>2, <4>1
    <3>2. Agrees(b)
      BY <2>2, <3>1 DEF FreshReads
    <3> QED BY <1>2, <1>3, <3>2 DEF Agrees
  <2>5. WritesAlone'
    <3>1. \A b \in Admins : adm'[b].pc = "opened" => b = a
      BY <1>2, <2>3
    <3>2. adm'[a].read = Told' /\ tokens' = Truncated
      BY <1>2, <1>3, <2>3
    <3> QED BY <3>1, <3>2 DEF WritesAlone
  <2> QED BY <2>4, <2>5
<1>6. ~Readable'
  <2>1. tokens'.length = 0 /\ tokens'.set = {} /\ Cardinality({}) = 0
    BY <1>2, FS_EmptySet DEF Truncated
  <2> QED BY <2>1 DEF Readable
<1> QED BY <1>4, <1>5, <1>6 DEF TokenInv

\* It writes the file and answers: whoever has read the file before has been told
\* something new.
LEMMA SaveStep ==
  ASSUME TypeOK, TokenInv, NEW a \in Admins, Save(a)
  PROVE  TokenInv'
<1>1. adm \in [Admins -> Progress] /\ adm[a] \in Progress /\ adm[a].pc = "opened"
  BY DEF TypeOK, TokenTypeOK, Save
<1>2. /\ adm'[a].pc = "idle" /\ \A b \in Admins \ {a} : adm'[b] = adm[b]
      /\ tokens'.set = adm[a].data /\ UNCHANGED <<minted, crossed>>
  BY <1>1 DEF Save, Over, Idle
<1>3. \/ adm[a].op = "add" /\ granted' = granted \cup {adm[a].token} /\ revoked' = revoked
      \/ adm[a].op = "revoke" /\ revoked' = revoked \cup {adm[a].token} /\ granted' = granted
  BY <1>1 DEF Save, Progress
<1>4. TokensMinted'
  BY <1>1, <1>2, <1>3 DEF TokenInv, TokensMinted
<1>5. ReadsPast'
  <2> SUFFICES ASSUME NEW b \in Admins, adm'[b].pc # "idle"
               PROVE  /\ adm'[b].read.granted \subseteq granted'
                      /\ adm'[b].read.revoked \subseteq revoked'
                      /\ adm'[b].op = "add" =>
                           /\ adm'[b].token \notin granted'
                           /\ \A c \in Admins \ {b} :
                                adm'[c].pc # "idle" /\ adm'[c].op = "add"
                                  => adm'[c].token # adm'[b].token
    BY DEF ReadsPast
  <2>1. b # a /\ adm'[b] = adm[b]
    BY <1>2
  <2>2. /\ adm[b].read.granted \subseteq granted /\ adm[b].read.revoked \subseteq revoked
        /\ adm[b].op = "add" =>
             /\ adm[b].token \notin granted
             /\ \A c \in Admins \ {b} :
                  adm[c].pc # "idle" /\ adm[c].op = "add" => adm[c].token # adm[b].token
    BY <2>1 DEF TokenInv, ReadsPast
  <2>3. adm[b].op = "add" /\ adm[a].op = "add" => adm[a].token # adm[b].token
    BY <1>1, <2>1, <2>2
  <2>4. adm'[b].op = "add" => adm'[b].token \notin granted'
    BY <1>3, <2>1, <2>2, <2>3
  <2> QED BY <1>2, <1>3, <2>1, <2>2, <2>4
<1>6. ASSUME ~crossed PROVE (FreshReads /\ WritesAlone /\ SaysAsTold(tokens.set))'
  <2>1. Agrees(a) /\ WritesAlone
    BY <1>1, <1>6 DEF TokenInv, FreshReads, WritesAlone
  <2>2. SaysAsTold(tokens.set)'
    BY <1>2, <1>3, <2>1 DEF Agrees, SaysAsTold
  <2>3. WritesAlone'
    BY <1>1, <1>2, <2>1 DEF WritesAlone
  <2>4. ASSUME NEW b \in Admins, adm'[b].pc # "idle" PROVE adm'[b].read # Told'
    <3>1. b # a /\ adm'[b] = adm[b]
      BY <1>2, <2>4
    <3>2. adm[b].read.granted \subseteq granted /\ adm[b].read.revoked \subseteq revoked
      BY <2>4, <3>1 DEF TokenInv, ReadsPast
    <3>3. Told'.granted = granted' /\ Told'.revoked = revoked'
      BY DEF Told
    <3>4. CASE adm[a].op = "add"
      <4>1. adm[a].token \notin granted /\ adm[a].token \in granted'
        BY <1>1, <1>3, <3>4 DEF TokenInv, ReadsPast
      <4> QED BY <3>1, <3>2, <3>3, <4>1
    <3>5. CASE adm[a].op = "revoke"
      <4>1. adm[a].token \notin revoked /\ adm[a].token \in revoked'
        BY <1>3, <2>1, <3>5 DEF Agrees
      <4> QED BY <3>1, <3>2, <3>3, <4>1
    <3> QED BY <1>3, <3>4, <3>5
  <2> QED BY <2>2, <2>3, <2>4 DEF FreshReads
<1> QED BY <1>2, <1>4, <1>5, <1>6 DEF TokenInv

LEMMA ToldStep == ASSUME TypeOK, TokenInv, [Next]_vars PROVE TokenInv'
<1>1. CASE TokenNext
  <2>1. PICK a \in Admins :
          \/ \E route \in Routes, t \in Tokens :
               LoadToAdd(a, route, t) \/ LoadToRevoke(a, route, t)
          \/ OpenToSave(a) \/ Save(a) \/ AdminFault(a)
    BY <1>1 DEF TokenNext
  <2>2. CASE AdminFault(a)
    <3>1. /\ adm' = [adm EXCEPT ![a] = Idle] /\ adm \in [Admins -> Progress]
          /\ UNCHANGED <<tokens, minted, granted, revoked, crossed>>
      BY <2>2 DEF AdminFault, TypeOK, TokenTypeOK
    <3>2. \A b \in Admins : adm'[b].pc = "idle" \/ adm'[b] = adm[b]
      BY <3>1 DEF Idle
    <3> QED BY <3>1, <3>2, NothingTold
  <2> QED BY <2>1, <2>2, LoadStep, OpenStep, SaveStep
<1>2. CASE Uploading \/ Installing \/ Serve \/ UNCHANGED vars
  <2>1. UNCHANGED tokenVars
    BY <1>2 DEF Uploading, Receive, Refuse, Conflict, CreateBundle, WriteBundle,
      CreateSidecar, WriteSidecar, WriteSignature, OpenIndex, SaveIndex, UploadFault,
      Installing, Lookup, Request, Download, Install, Serve, vars
  <2> QED BY <2>1, NothingTold DEF tokenVars
<1>3. CASE Stop
  <2>1. UNCHANGED <<tokens, minted, granted, revoked, crossed>>
    BY <1>3 DEF Stop
  <2>2. \A a \in Admins : adm'[a].pc = "idle" \/ adm'[a] = adm[a]
    BY <1>3 DEF Stop, Idle
  <2> QED BY <2>1, <2>2, NothingTold
<1> QED BY <1>1, <1>2, <1>3 DEF Next

\* tokens.json says what the administrators were told (auth.py, add_token and
\* revoke_token) as long as no writer has overtaken another, with any number of
\* requests on the event loop, threads and commands under way at once: a file that
\* can be read holds the tokens whose creation was reported and whose revocation
\* was not, whatever was truncated or abandoned on the way.
THEOREM TokensKept == Spec => []TokensAsTold
<1>1. Init => TokenInv
  <2> SUFFICES ASSUME Init PROVE TokenInv
    OBVIOUS
  <2>1. /\ tokens.set = {} /\ granted = {} /\ revoked = {}
        /\ \A a \in Admins : adm[a].pc = "idle"
    BY DEF Init, TokenInit, Idle
  <2> QED BY <2>1 DEF TokenInv, TokensMinted, ReadsPast, FreshReads, WritesAlone, SaysAsTold
<1>2. RegInv /\ TokenInv /\ [Next]_vars => TokenInv'
  BY ToldStep DEF RegInv
<1>3. TokenInv => TokensAsTold
  BY DEF TokenInv, TokensAsTold
<1> QED BY <1>1, <1>2, <1>3, RegInvHolds, PTL DEF Spec
=============================================================================
