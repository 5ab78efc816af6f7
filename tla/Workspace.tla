------------------------------ MODULE Workspace ------------------------------
(***************************************************************************)
(* A sempkg workspace: the bundle stores (store.rs), sempkg.toml and       *)
(* sempkg.lock (manifest.rs), and the commands that change them (main.rs:  *)
(* add, refresh, remove, sync, install, uninstall, repair).                *)
(*                                                                         *)
(* Every command is a process of its own and takes no lock.  It reads a    *)
(* file as a whole, rewrites it by truncating and writing it, installs a   *)
(* bundle by filling a temporary directory and renaming it, and removes    *)
(* directories one file after another.  It may fail or be killed anywhere. *)
(***************************************************************************)
EXTENDS Integers, FiniteSets, Sequences

CONSTANTS
  Procs,        \* commands that run at the same time
  Names,        \* package names
  Rank,         \* [Names -> Nat], the order of the names in a BTreeMap
  Versions,     \* version directories, and what git refs are resolved to
  Temps,        \* names of temporary directories (bound on those left behind)
  SlotRank,     \* [Versions \cup Temps -> Nat], the order of read_dir
  Bundles,      \* contents of bundles
  NameOf,       \* [Bundles -> Names] and
  VersionOf,    \* [Bundles -> Versions], from the bundle's own manifest.json
  Assets,       \* bundles found at URLs and on release pages
  Deps,         \* dependencies a user may ask for, a subset of Dependency
  Groups,       \* dependency groups
  Selections,   \* sequences of groups that sync is asked for
  Manifests,    \* sempkg.toml as the user wrote it, before any command
  Stores,       \* the stores in use, a subset of {"workspace", "global"}
  Main,         \* the section [dependencies]
  None,         \* no dependency, entry, directory or bundle
  MaxCommands,  \* bound: commands started
  MaxFaults     \* bound: failed steps and killed commands

Slots == Versions \cup Temps
Sections == Groups \cup {Main}
\* A dependency on a folder is "here" when the folder is the workspace itself.
Kinds == {"registry", "url", "git", "local", "here"}
Dependency == [kind : Kinds, version : Versions, ref : Versions]
\* files: "bare" has no manifest.json, "part" has it but lacks others; view is
\* the .codegraph link; hurt: a removal has begun.
Directory == [of : Bundles, files : {"bare", "part", "whole"}, view : BOOLEAN,
              hurt : BOOLEAN]
Entry == [version : Versions, sha256 : Bundles \cup {None}]

ASSUME BundlesAreNamed ==
  /\ NameOf \in [Bundles -> Names] /\ VersionOf \in [Bundles -> Versions]
ASSUME AssetsAreBundles == Assets \subseteq Bundles
ASSUME StoresExist ==
  "workspace" \in Stores /\ Stores \subseteq {"workspace", "global"}
ASSUME RanksAreNumbers ==
  /\ \A n \in Names : Rank[n] \in Nat
  /\ \A t \in Slots : SlotRank[t] \in Nat
ASSUME DepsAreDependencies == Deps \subseteq Dependency
ASSUME SelectionsAreGroups == Selections \subseteq Seq(Groups)
ASSUME ManifestsAreManifests ==
  Manifests \subseteq [Sections -> [Names -> Dependency \cup {None}]]
ASSUME TempsAreNoVersions == Temps \cap Versions = {}
ASSUME NoneIsNothing ==
  /\ None \notin Dependency /\ None \notin Bundles /\ None \notin Temps
  /\ None \notin Versions /\ None \notin Names
  /\ None \notin Directory /\ None \notin Entry

VARIABLES
  dirs,       \* [Stores \X Names \X Slots -> Directory \cup {None}]
  manifest,   \* sempkg.toml: [Sections -> [Names -> Dependency \cup {None}]]
  lock,       \* sempkg.lock: [Names -> Entry \cup {None}]
  job,        \* the command each process runs
  disturbed,  \* has another command changed a file since this one began?
  stranded,   \* (history) directories whose command ended before it linked them
  commands, faults

vars == <<dirs, manifest, lock, job, disturbed, stranded, commands, faults>>

NoDeps == [n \in Names |-> None]
EmptyManifest == [s \in Sections |-> NoDeps]
EmptyLock == NoDeps
Idle == [cmd |-> "none", pc |-> "idle", store |-> "workspace", section |-> Main,
         reinstall |-> FALSE, groups |-> << >>, deps |-> NoDeps, todo |-> {},
         known |-> {}, doc |-> EmptyManifest, entries |-> EmptyLock,
         name |-> None, dep |-> None, version |-> None, bytes |-> None, tmp |-> None]

Init ==
  /\ dirs = [k \in Stores \X Names \X Slots |-> None]
  /\ manifest \in Manifests
  /\ lock = EmptyLock
  /\ job = [p \in Procs |-> Idle]
  /\ disturbed = [p \in Procs |-> FALSE]
  /\ stranded = {} /\ commands = 0 /\ faults = 0
-----------------------------------------------------------------------------
(***************************************************************************)
(* Reading the stores.                                                     *)
(***************************************************************************)
Exists(k) == dirs[k] # None
IsInstalled(n, v) == Exists(<<"workspace", n, v>>)

\* list: every directory under a name with a manifest.json that can be read.
Listed(s) == {k \in DOMAIN dirs : k[1] = s /\ Exists(k) /\ dirs[k].files # "bare"}
ListedNames == {k[2] : k \in Listed("workspace")}

\* The keys of Listed(s) in the order read_dir delivers them.
Before(k, l) == Rank[k[2]] < Rank[l[2]] \/ (k[2] = l[2] /\ SlotRank[k[3]] < SlotRank[l[3]])
LastOf(K) == IF K = {} THEN None ELSE CHOOSE k \in K : \A l \in K : l = k \/ Before(l, k)

\* get and get_version of one store
Get(s, n) == LastOf({k \in Listed(s) : k[2] = n})
GetVersion(s, n, v) == IF <<s, n, v>> \in Listed(s) THEN <<s, n, v>> ELSE None

\* resolve_bundle and resolve_bundle_spec: a spec without version has None.
OrElse(a, b) == IF a # None THEN a ELSE b
ResolveBundle(n) == OrElse(Get("workspace", n), Get("global", n))
ResolveSpec(n, v) ==
  OrElse(OrElse(GetVersion("workspace", n, v), GetVersion("global", n, v)),
         ResolveBundle(n))

\* list_all_bundles
ListAll == Listed("workspace") \cup Listed("global")

\* Mutant of NameOnly: the last of the list, where the global store comes last.
NameOnlyAnyScope(K, n) ==
  OrElse(LastOf({k \in K : k[2] = n /\ k[1] = "global"}),
         LastOf({k \in K : k[2] = n /\ k[1] = "workspace"}))

\* name_only and exact of resolve_bundle_spec_in, over the enumerated list
NameOnly(K, n) ==
  OrElse(LastOf({k \in K : k[2] = n /\ k[1] = "workspace"}),
         LastOf({k \in K : k[2] = n /\ k[1] = "global"}))
Exact(K, n, v, s) == LastOf({k \in K : k = <<s, n, v>>})
ResolveSpecIn(K, n, v) ==
  OrElse(OrElse(Exact(K, n, v, "workspace"), Exact(K, n, v, "global")),
         NameOnly(K, n))
-----------------------------------------------------------------------------
(***************************************************************************)
(* The manifest.                                                           *)
(***************************************************************************)
\* resolve_deps: [dependencies] first, then the groups in the order given.
Select(m, gs) ==
  [n \in Names |->
    LET having == {i \in DOMAIN gs : m[gs[i]][n] # None}
    IN  IF m[Main][n] # None THEN m[Main][n]
        ELSE IF having = {} THEN None
        ELSE m[gs[CHOOSE i \in having : \A j \in having : i <= j]][n]]
Selected(deps) == {n \in Names : deps[n] # None}
Known(m) == {n \in Names : \E s \in Sections : m[s][n] # None}

WithDep(m, s, n, d) == [m EXCEPT ![s] = [@ EXCEPT ![n] = d]]

\* add_from_github resolves the ref again, add_from_local keeps the version.
FromSource(d) == d.kind \in {"git", "local", "here"}

\* The sections and names under which the workspace depends on itself.
Own(m) == {e \in Sections \X Names : m[e[1]][e[2]] # None /\ m[e[1]][e[2]].kind = "here"}
-----------------------------------------------------------------------------
(***************************************************************************)
(* The commands, up to their first effect.                                 *)
(***************************************************************************)
\* p changes a file that other commands may have read.
Disturbs(p) ==
  disturbed' = [q \in Procs |-> disturbed[q] \/ (q # p /\ job[q].pc # "idle")]

Start(p, j) ==
  /\ job[p].pc = "idle"
  /\ commands < MaxCommands /\ commands' = commands + 1
  /\ job' = [job EXCEPT ![p] = j]
  /\ disturbed' = [disturbed EXCEPT ![p] = FALSE]
  /\ UNCHANGED <<dirs, manifest, lock, stranded, faults>>

\* add of a registry or URL dependency only writes the manifest.
Add(p, s, n, d) ==
  /\ ~FromSource(d)
  /\ Start(p, [Idle EXCEPT !.cmd = "add", !.pc = "openManifest", !.section = s,
                 !.name = n, !.dep = d, !.doc = WithDep(manifest, s, n, d)])

\* add of a repository or a folder: what is installed is only recorded.
AddSource(p, s, n, d, reinstall) ==
  /\ FromSource(d)
  /\ Start(p, [Idle EXCEPT !.cmd = "add", !.section = s, !.name = n, !.dep = d,
                 !.version = d.version, !.reinstall = reinstall,
                 !.pc = IF ~reinstall /\ IsInstalled(n, d.version)
                        THEN "record" ELSE "fetch"])
AddFromGithub(p, s, n, d, reinstall) ==
  d.kind = "git" /\ AddSource(p, s, n, d, reinstall)
AddFromLocal(p, s, n, d, reinstall) ==
  d.kind \in {"local", "here"} /\ AddSource(p, s, n, d, reinstall)

\* refresh builds the workspace's own bundle again, if one entry asks for it.
Refresh(p, s, n) ==
  /\ Own(manifest) = {<<s, n>>}
  /\ AddFromLocal(p, s, n, manifest[s][n], TRUE)

Remove(p, s, n) ==
  /\ manifest[s][n] # None
  /\ Start(p, [Idle EXCEPT !.cmd = "remove", !.pc = "openManifest", !.name = n,
                 !.doc = WithDep(manifest, s, n, None)])

RemoveGlobal(p, n) ==
  /\ "global" \in Stores
  /\ Start(p, [Idle EXCEPT !.cmd = "remove", !.pc = "purge", !.name = n,
                 !.store = "global"])

Uninstall(p, s, n, v) ==
  /\ Exists(<<s, n, v>>)
  /\ Start(p, [Idle EXCEPT !.cmd = "uninstall", !.pc = "purge", !.name = n,
                 !.version = v, !.store = s])

Install(p, s, n, d) ==
  /\ ~FromSource(d)
  /\ Start(p, [Idle EXCEPT !.cmd = "install", !.pc = "fetch", !.name = n, !.dep = d,
                 !.version = d.version, !.store = s])

\* sync reads both files; without dependencies it ends here.
Sync(p, gs, reinstall) ==
  LET deps == Select(manifest, gs)
  IN  /\ Selected(deps) # {}
      /\ Start(p, [Idle EXCEPT !.cmd = "sync", !.pc = "next", !.groups = gs,
                     !.deps = deps, !.todo = Selected(deps), !.known = Known(manifest),
                     !.entries = lock, !.reinstall = reinstall])
-----------------------------------------------------------------------------
(***************************************************************************)
(* Their steps.                                                            *)
(***************************************************************************)
Goto(p, to) == job' = [job EXCEPT ![p].pc = to]
Ends(p) == job' = [job EXCEPT ![p] = Idle]
Keeps == UNCHANGED <<stranded, commands, faults>>

\* add_from_github derives the version from the ref again.
Resolved(d) == IF d.kind = "git" THEN [d EXCEPT !.version = d.ref] ELSE d

\* The next dependency of a sync, in the order of a BTreeMap.
Next1(p) == CHOOSE n \in job[p].todo : \A m \in job[p].todo : Rank[n] <= Rank[m]

NextDep(p) ==
  /\ job[p].pc = "next" /\ job[p].todo # {}
  /\ LET n == Next1(p)
         d == Resolved(job[p].deps[n])
         there == ~job[p].reinstall /\ IsInstalled(n, d.version)
     IN  job' = [job EXCEPT ![p] = [@ EXCEPT !.name = n, !.dep = d,
                  !.version = d.version,
                  !.pc = IF ~there THEN "fetch"
                         ELSE IF FromSource(d) THEN "record" ELSE "lock"]]
  /\ UNCHANGED <<dirs, manifest, lock, disturbed>> /\ Keeps

\* What is downloaded or built: a registry and a build deliver the version asked
\* for, while a release asset or a URL may hold any bundle.
Built(j) == {b \in Bundles : NameOf[b] = j.name /\ VersionOf[b] = j.version}
Released(j) == IF j.dep.kind = "git" THEN Assets ELSE {}
Offer(j) == IF j.dep.kind = "url" THEN Assets ELSE Built(j) \cup Released(j)

Fetch(p) ==
  /\ job[p].pc = "fetch"
  /\ IF Offer(job[p]) = {} THEN Ends(p)
     ELSE \E b \in Offer(job[p]) :
            job' = [job EXCEPT ![p] = [@ EXCEPT !.bytes = b,
                     !.pc = IF FromSource(job[p].dep) THEN "purge" ELSE "check"]]
  /\ UNCHANGED <<dirs, manifest, lock, disturbed>> /\ Keeps

\* remove_package removes every directory of a package, remove and
\* install_github_bundle the one of a version.
Victims(p) ==
  {k \in {job[p].store} \X {job[p].name}
          \X (IF job[p].version = None THEN Slots ELSE {job[p].version}) : Exists(k)}

\* remove_dir_all takes the files of a directory before the directory.
RemoveFiles(p) ==
  /\ job[p].pc = "purge"
  /\ \E k \in Victims(p), left \in {"part", "bare"} :
       /\ dirs[k].files \notin {"bare", left}
       /\ dirs' = [dirs EXCEPT ![k] = [@ EXCEPT !.files = left, !.hurt = TRUE]]
  /\ Disturbs(p) /\ UNCHANGED <<manifest, lock, job>> /\ Keeps

RemoveDir(p) ==
  /\ job[p].pc = "purge"
  /\ \E k \in Victims(p) :
       /\ dirs[k].files = "bare"
       /\ dirs' = [dirs EXCEPT ![k] = None]
  /\ Disturbs(p) /\ UNCHANGED <<manifest, lock, job>> /\ Keeps

Purged(p) ==
  /\ job[p].pc = "purge" /\ Victims(p) = {}
  /\ IF job[p].cmd \in {"remove", "uninstall"} THEN Ends(p) ELSE Goto(p, "check")
  /\ UNCHANGED <<dirs, manifest, lock, disturbed>> /\ Keeps

\* install_bytes takes name and version from the archive.
Dest(j) == <<j.store, NameOf[j.bytes], VersionOf[j.bytes]>>
Temp(j) == <<j.store, NameOf[j.bytes], j.tmp>>
NewDir(b) == [of |-> b, files |-> "bare", view |-> FALSE, hurt |-> FALSE]

\* tempfile draws a name that is not taken, and never one that a command still
\* fills, also when its directory was removed: the first one stands for any.
Filling(p) == job[p].pc \in {"extract", "rename"}
Free(j, t) ==
  LET k == Temp([j EXCEPT !.tmp = t])
  IN  ~Exists(k) /\ \A p \in Procs : Filling(p) => Temp(job[p]) # k
Fresh(j) == {t \in Temps : Free(j, t) /\ \A o \in Temps :
                                 Free(j, o) => SlotRank[t] <= SlotRank[o]}

\* AlreadyInstalled, or a fresh temporary directory beside the destination
Check(p) ==
  /\ job[p].pc = "check"
  /\ IF Exists(Dest(job[p]))
       THEN Ends(p) /\ UNCHANGED <<dirs, disturbed>>
       ELSE \E t \in Fresh(job[p]) :
              /\ dirs' = [dirs EXCEPT ![Temp([job[p] EXCEPT !.tmp = t])] =
                            NewDir(job[p].bytes)]
              /\ job' = [job EXCEPT ![p] = [@ EXCEPT !.tmp = t, !.pc = "extract"]]
              /\ Disturbs(p)
  /\ UNCHANGED <<manifest, lock>> /\ Keeps

\* manifest.json is the first entry of an archive (pack.rs:156).
ExtractManifest(p) ==
  LET k == Temp(job[p])
  IN  /\ job[p].pc = "extract" /\ Exists(k)
      /\ dirs[k].files = "bare" /\ ~dirs[k].hurt
      /\ dirs' = [dirs EXCEPT ![k] = [@ EXCEPT !.files = "part"]]
      /\ Disturbs(p) /\ UNCHANGED <<manifest, lock, job>> /\ Keeps

\* What a removal took from the directory meanwhile does not come back.
ExtractRest(p) ==
  LET k == Temp(job[p])
  IN  /\ job[p].pc = "extract" /\ Exists(k)
      /\ dirs[k].files = "part" \/ dirs[k].hurt
      /\ dirs' = IF dirs[k].hurt THEN dirs
                 ELSE [dirs EXCEPT ![k] = [@ EXCEPT !.files = "whole"]]
      /\ Goto(p, "rename")
      /\ Disturbs(p) /\ UNCHANGED <<manifest, lock>> /\ Keeps

\* create_dir_all makes a directory that was removed anew for the entries that
\* are left, without those extracted before.
ExtractAgain(p) ==
  LET k == Temp(job[p])
  IN  /\ job[p].pc = "extract" /\ ~Exists(k)
      /\ dirs' = [dirs EXCEPT ![k] = [NewDir(job[p].bytes) EXCEPT !.hurt = TRUE]]
      /\ Goto(p, "rename")
      /\ Disturbs(p) /\ UNCHANGED <<manifest, lock>> /\ Keeps

\* Mutant of Rename: the command goes on without the view.
RenameUnlinked(p) ==
  LET from == Temp(job[p])
      to == Dest(job[p])
  IN  /\ job[p].pc = "rename"
      /\ Exists(from) /\ (Exists(to) => dirs[to].files = "bare")
      /\ dirs' = [dirs EXCEPT ![to] = dirs[from], ![from] = None]
      /\ stranded' = stranded \ {to}
      /\ Ends(p) /\ Disturbs(p)
      /\ UNCHANGED <<manifest, lock, commands, faults>>

\* rename replaces nothing but an empty directory; a temporary directory that
\* cannot be renamed stays (keep, store.rs:219).
Rename(p) ==
  LET from == Temp(job[p])
      to == Dest(job[p])
  IN  /\ job[p].pc = "rename"
      /\ \/ /\ ~Exists(from) \/ Exists(to)
            /\ Ends(p) /\ UNCHANGED <<dirs, disturbed, stranded>>
         \/ /\ Exists(from) /\ (Exists(to) => dirs[to].files = "bare")
            /\ dirs' = [dirs EXCEPT ![to] = dirs[from], ![from] = None]
            /\ stranded' = stranded \ {to}
            /\ Goto(p, "link") /\ Disturbs(p)
      /\ UNCHANGED <<manifest, lock, commands, faults>>

\* create_codegraph_view: the graph may be among what a removal has taken.
Linked(k) ==
  IF ~Exists(k) THEN {dirs}
  ELSE LET with == [dirs EXCEPT ![k] = [@ EXCEPT !.view = TRUE]]
       IN  IF dirs[k].files = "whole" THEN {with} ELSE {with, dirs}

\* Where a command goes on once its bundle is there.
AfterInstall(j) ==
  IF j.cmd = "install" THEN Idle
  ELSE [j EXCEPT !.pc = IF FromSource(j.dep) THEN "record" ELSE "lock"]

Link(p) ==
  /\ job[p].pc = "link"
  /\ dirs' \in Linked(Dest(job[p]))
  /\ job' = [job EXCEPT ![p] = AfterInstall(@)]
  /\ Disturbs(p) /\ UNCHANGED <<manifest, lock>> /\ Keeps

\* repair gives every bundle it lists a view; what one repair has done when
\* something fails or stops it is some of these steps.
Repair ==
  /\ \E k \in ListAll :
       ~dirs[k].view /\ dirs' \in Linked(k) \ {dirs}
  /\ disturbed' = [q \in Procs |-> disturbed[q] \/ job[q].pc # "idle"]
  /\ UNCHANGED <<manifest, lock, job>> /\ Keeps

\* record_github_dep and record_local_dep load the manifest once more, and write
\* the version that was built.
EntryOf(j) == [kind |-> j.dep.kind, version |-> j.version, ref |-> j.dep.ref]
Record(p) ==
  /\ job[p].pc = "record"
  /\ LET j == job[p]
     IN  job' = [job EXCEPT ![p] = [j EXCEPT !.pc = "openManifest",
                  !.doc = WithDep(manifest, j.section, j.name, EntryOf(j))]]
  /\ UNCHANGED <<dirs, manifest, lock, disturbed>> /\ Keeps

\* fs::write truncates the file ...
OpenManifest(p) ==
  /\ job[p].pc = "openManifest"
  /\ manifest' = EmptyManifest
  /\ Goto(p, "writeManifest")
  /\ Disturbs(p) /\ UNCHANGED <<dirs, lock>> /\ Keeps

\* ... and fills it.
WriteManifest(p) ==
  /\ job[p].pc = "writeManifest"
  /\ manifest' = job[p].doc
  /\ IF job[p].cmd = "remove" THEN Goto(p, "purge")
     ELSE IF FromSource(job[p].dep) THEN Goto(p, "lock") ELSE Ends(p)
  /\ Disturbs(p) /\ UNCHANGED <<dirs, lock>> /\ Keeps

\* The archive_sha256 that get_version reads, "" (None) when the file is missing.
Sha256(k) == IF dirs[k].files = "whole" THEN {dirs[k].of} ELSE {dirs[k].of, None}

\* Mutant of LockedDir: the bundle is looked up by its name alone.
LockedDirByName(n, v) == Get("workspace", n)

LockedDir(n, v) == GetVersion("workspace", n, v)

\* Mutant of Rest: a dependency is not ticked off.
RestAll(j) == j.todo

Rest(j) == j.todo \ {j.name}

\* record_installed_bundle_lock: into sync's lock, or into the one on disk
Lock(p) ==
  LET j == job[p]
      k == LockedDir(j.name, j.version)
  IN  /\ j.pc = "lock"
      /\ IF k = None THEN Ends(p)
         ELSE \E sum \in Sha256(k) :
           LET entry == [version |-> j.version, sha256 |-> sum]
           IN  job' = [job EXCEPT ![p] =
                 IF j.cmd = "sync"
                 THEN [@ EXCEPT !.pc = "next", !.todo = Rest(j),
                                !.entries = [j.entries EXCEPT ![j.name] = entry]]
                 ELSE [@ EXCEPT !.pc = "openLock",
                                !.entries = [lock EXCEPT ![j.name] = entry]]]
      /\ UNCHANGED <<dirs, manifest, lock, disturbed>> /\ Keeps

\* The end of a sync drops the entries of packages nobody asks for or has.
Finish(p) ==
  /\ job[p].pc = "next" /\ job[p].todo = {}
  /\ job' = [job EXCEPT ![p] = [@ EXCEPT !.pc = "openLock",
       !.entries = [n \in Names |-> IF n \in job[p].known \cup ListedNames
                                    THEN job[p].entries[n] ELSE None]]]
  /\ UNCHANGED <<dirs, manifest, lock, disturbed>> /\ Keeps

OpenLock(p) ==
  /\ job[p].pc = "openLock"
  /\ lock' = EmptyLock
  /\ Goto(p, "writeLock")
  /\ Disturbs(p) /\ UNCHANGED <<dirs, manifest>> /\ Keeps

WriteLock(p) ==
  /\ job[p].pc = "writeLock"
  /\ lock' = job[p].entries
  /\ Ends(p)
  /\ Disturbs(p) /\ UNCHANGED <<dirs, manifest>> /\ Keeps

\* A step fails, or the command is killed: only an extraction that fails takes
\* its temporary directory with it.
Fault(p) ==
  /\ job[p].pc # "idle"
  /\ faults < MaxFaults /\ faults' = faults + 1
  /\ Ends(p)
  /\ stranded' = stranded \cup (IF job[p].pc = "link" THEN {Dest(job[p])} ELSE {})
  /\ \/ UNCHANGED <<dirs, disturbed>>
     \/ /\ job[p].pc = "extract"
        /\ dirs' = [dirs EXCEPT ![Temp(job[p])] = None]
        /\ Disturbs(p)
  /\ UNCHANGED <<manifest, lock, commands>>

Command(p) ==
  \/ \E s \in Sections, n \in Names, d \in Deps :
       \/ Add(p, s, n, d)
       \/ \E r \in BOOLEAN : AddFromGithub(p, s, n, d, r) \/ AddFromLocal(p, s, n, d, r)
  \/ \E s \in Sections, n \in Names : Refresh(p, s, n) \/ Remove(p, s, n)
  \/ \E n \in Names : RemoveGlobal(p, n)
  \/ \E s \in Stores, n \in Names, v \in Versions : Uninstall(p, s, n, v)
  \/ \E s \in Stores, n \in Names, d \in Deps : Install(p, s, n, d)
  \/ \E gs \in Selections, r \in BOOLEAN : Sync(p, gs, r)

Step(p) ==
  \/ NextDep(p) \/ Fetch(p)
  \/ RemoveFiles(p) \/ RemoveDir(p) \/ Purged(p)
  \/ Check(p) \/ ExtractManifest(p) \/ ExtractRest(p) \/ ExtractAgain(p)
  \/ Rename(p) \/ Link(p)
  \/ Record(p) \/ OpenManifest(p) \/ WriteManifest(p)
  \/ Lock(p) \/ Finish(p) \/ OpenLock(p) \/ WriteLock(p)

Next == Repair \/ \E p \in Procs : Command(p) \/ Step(p) \/ Fault(p)

Spec == Init /\ [][Next]_vars

\* A command that has been started runs on, whatever the others do.
FairSpec == Spec /\ \A p \in Procs : WF_vars(Step(p))
-----------------------------------------------------------------------------
(***************************************************************************)
(* Properties.                                                             *)
(***************************************************************************)
Jobs == [cmd : {"none", "add", "remove", "sync", "install", "uninstall"},
         pc : {"idle", "next", "fetch", "purge", "check", "extract", "rename", "link",
               "record", "openManifest", "writeManifest", "lock", "openLock",
               "writeLock"},
         store : Stores, section : Sections, reinstall : BOOLEAN,
         groups : Seq(Groups), deps : [Names -> Dependency \cup {None}],
         todo : SUBSET Names, known : SUBSET Names,
         doc : [Sections -> [Names -> Dependency \cup {None}]],
         entries : [Names -> Entry \cup {None}],
         name : Names \cup {None}, dep : Dependency \cup {None},
         version : Versions \cup {None}, bytes : Bundles \cup {None},
         tmp : Temps \cup {None}]

\* Stores, files and commands have the forms the code can give them.
TypeOK ==
  /\ dirs \in [Stores \X Names \X Slots -> Directory \cup {None}]
  /\ manifest \in [Sections -> [Names -> Dependency \cup {None}]]
  /\ lock \in [Names -> Entry \cup {None}]
  /\ job \in [Procs -> Jobs]
  /\ disturbed \in [Procs -> BOOLEAN]
  /\ stranded \subseteq Stores \X Names \X Slots
  /\ commands \in Nat /\ faults \in Nat

\* Commands that run at the same time, fail or are killed leave no bundle half
\* installed: a directory under a version's name holds that version, complete
\* unless a removal has begun to empty it (store.rs:210-221), and it can be
\* queried, unless it is just being linked or the command that renamed it ended at
\* that very step (store.rs:226).  Of the temporary directories beside it, which
\* list() takes for versions too, nothing is said: see ListedIsWhole.
InstalledWhole ==
  \A k \in DOMAIN dirs :
    k[3] \in Versions /\ Exists(k) =>
      /\ NameOf[dirs[k].of] = k[2] /\ VersionOf[dirs[k].of] = k[3]
      /\ dirs[k].hurt \/ dirs[k].files = "whole"
      /\ \/ dirs[k].hurt \/ dirs[k].view \/ k \in stranded
         \/ \E p \in Procs : job[p].pc = "link" /\ Dest(job[p]) = k

\* list() returns complete bundles only (store.rs:153, "Extract into a temp dir
\* first, then rename atomically").
ListedIsWhole == \A k \in ListAll : dirs[k].hurt \/ dirs[k].files = "whole"

\* A package that is named with or without its version is resolved to the same
\* bundle from an enumerated list as from the stores (store.rs:491, "mirrors
\* `resolve_bundle_spec` exactly"), whatever is installed in the two.
ResolutionAgrees ==
  \A n \in Names, v \in Slots \cup {None} :
    ResolveSpec(n, v) = ResolveSpecIn(ListAll, n, v)

\* What the command of p has recorded when it ends.
RecordedBy(p) == IF job[p].cmd = "sync" THEN Selected(job[p].deps) ELSE {job[p].name}
AskedFor(p, n) ==
  IF job[p].cmd = "sync" THEN Select(manifest, job[p].groups)[n]
  ELSE manifest[job[p].section][n]

\* When a sync, or an add that installs, has run to its end and no other command
\* changed a file meanwhile, manifest, lock and store agree on every dependency
\* it took care of: the version in the manifest is locked, and it is installed
\* with the digest that is locked (docs/sempkg.md:299-304), also when the
\* version was resolved anew, versions lie side by side or a bundle was damaged.
LockAgrees ==
  [][\A p \in Procs :
        WriteLock(p) /\ ~disturbed[p] =>
          \A n \in RecordedBy(p) :
            LET k == <<"workspace", n, lock'[n].version>>
            IN  /\ AskedFor(p, n) # None /\ lock'[n] # None
                /\ lock'[n].version = AskedFor(p, n).version
                /\ k \in Listed("workspace") /\ lock'[n].sha256 \in Sha256(k)]_vars

\* Every command comes to an end: no command waits for another one, and a sync
\* takes each dependency once.
CommandsEnd == \A p \in Procs : job[p].pc # "idle" ~> job[p].pc = "idle"
=============================================================================
