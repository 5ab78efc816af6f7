-------------------------- MODULE WorkspaceProofs --------------------------
(***************************************************************************)
(* A workspace for any number of commands, names, versions and faults.     *)
(*                                                                         *)
(* WholeInv: a bundle is filled in a directory of its own (Apart) that     *)
(* holds what its command extracts, all of it before it is renamed         *)
(* (Filled); a removal marks what it touches as hurt before it takes       *)
(* anything.  So what a rename puts under a version's name is whole.       *)
(*                                                                         *)
(* Agreeing: a command that no other one disturbs knows the manifest as it *)
(* is or as it is about to write it, and every dependency it has ticked    *)
(* off stays in the stock with the digest of its entry: its own removals   *)
(* and renames concern the dependency at work and directories that were    *)
(* not listed.  What every place of a command demands of its record        *)
(* (Forms) belongs to both.                                                *)
(***************************************************************************)
EXTENDS Workspace, WellFoundedInduction, TLAPS

-----------------------------------------------------------------------------
(***************************************************************************)
(* The forms of a command.                                                 *)
(***************************************************************************)
Installing == {"fetch", "check", "extract", "rename", "link"}
Recording == {"record", "openManifest", "writeManifest", "lock", "openLock", "writeLock"}

\* The places where a command can be.
Places(j) ==
  CASE j.cmd = "none" -> {"idle"}
    [] j.cmd = "add" -> IF FromSource(j.dep) THEN Installing \cup Recording \cup {"purge"}
                        ELSE {"openManifest", "writeManifest"}
    [] j.cmd = "remove" -> {"openManifest", "writeManifest", "purge"}
    [] j.cmd = "uninstall" -> {"purge"}
    [] j.cmd = "install" -> Installing
    [] OTHER -> Installing \cup Recording \cup {"purge", "next"}

\* The commands that record what they have installed, at work on a dependency.
Recorder(j) == j.cmd = "sync" \/ (j.cmd = "add" /\ FromSource(j.dep))
AtWork(j) == j.pc \in Installing \cup {"purge", "record", "openManifest", "writeManifest", "lock"}

Form(j) ==
  /\ j.pc \in Places(j)
  /\ j.pc \in {"check", "extract", "rename", "link"} => j.bytes \in Bundles
  /\ j.pc = "purge" /\ Recorder(j) => j.bytes \in Bundles
  /\ j.pc \in {"extract", "rename"} => j.tmp \in Temps
  /\ j.cmd = "install" => ~FromSource(j.dep)
  /\ j.cmd \in {"add", "remove", "uninstall"} => j.name \in Names
  /\ j.cmd = "add" => j.dep \in Dependency
  /\ j.cmd = "add" /\ FromSource(j.dep) => j.version = j.dep.version
  /\ Recorder(j) => j.store = "workspace"
  /\ j.cmd = "sync" =>
        /\ j.section = Main /\ j.todo \subseteq Selected(j.deps)
        /\ AtWork(j) => /\ j.name \in j.todo /\ j.dep = Resolved(j.deps[j.name])
                        /\ j.version = j.dep.version
        /\ j.pc \in {"purge", "record", "openManifest", "writeManifest"} =>
              FromSource(j.dep)
        /\ j.pc \in {"openLock", "writeLock"} => j.todo = {}
Forms == \A p \in Procs : Form(job[p])

-----------------------------------------------------------------------------
(***************************************************************************)
(* What is in a directory that a command fills, and no two fill the same.  *)
(***************************************************************************)
Filled ==
  \A p \in Procs : Filling(p) /\ Exists(Temp(job[p])) =>
    LET d == dirs[Temp(job[p])]
    IN  /\ d.of = job[p].bytes
        /\ job[p].pc = "rename" => d.hurt \/ d.files = "whole"
Apart == \A p, q \in Procs : Filling(p) /\ Filling(q) /\ p # q => Temp(job[p]) # Temp(job[q])
WholeInv == TypeOK /\ Forms /\ Filled /\ Apart /\ InstalledWhole

-----------------------------------------------------------------------------
(***************************************************************************)
(* What a command that is not disturbed knows of manifest and store.       *)
(***************************************************************************)
\* The workspace's bundles: name, version and the digest that reading it gives.
Stock ==
  {b \in Names \X Versions \X (Bundles \cup {None}) :
     LET k == <<"workspace", b[1], b[2]>>
     IN  k \in Listed("workspace") /\ b[3] \in Sha256(k)}

\* The manifest as it is, or as it is about to be written.
Asking(j, m) == IF j.pc \in {"openManifest", "writeManifest"} THEN j.doc ELSE m

\* The entry of a dependency agrees with what is asked for and with the store.
Settled(j, stock, n, d) ==
  /\ d # None /\ j.entries[n] # None
  /\ j.entries[n].version = d.version
  /\ <<n, d.version, j.entries[n].sha256>> \in stock

AddAgrees(j, m, stock) ==
  /\ j.pc \in {"openManifest", "writeManifest", "lock", "openLock", "writeLock"} =>
        Asking(j, m)[j.section][j.name] = j.dep
  /\ j.pc \in {"openLock", "writeLock"} => Settled(j, stock, j.name, j.dep)
SyncAgrees(j, m, stock) ==
  LET asked == Select(Asking(j, m), j.groups)
  IN  /\ \A n \in Selected(j.deps) \ j.todo : Settled(j, stock, n, asked[n])
      /\ \A n \in j.todo :
           \/ asked[n] = j.deps[n]
           \/ /\ n = j.name /\ asked[n] = j.dep
              /\ j.pc \in {"openManifest", "writeManifest", "lock"}
      /\ j.pc \in {"openManifest", "writeManifest", "lock"} => asked[j.name].version = j.version

Agrees(j, m, stock) ==
  /\ j.cmd = "add" /\ FromSource(j.dep) => AddAgrees(j, m, stock)
  /\ j.cmd = "sync" => SyncAgrees(j, m, stock)
AgreesWith(p) == ~disturbed[p] => Agrees(job[p], manifest, Stock)
Agreeing == \A p \in Procs : AgreesWith(p)

-----------------------------------------------------------------------------
(***************************************************************************)
(* Least numbers.                                                          *)
(***************************************************************************)
LEMMA LessIsWellFounded == IsWellFoundedOn({s \in Nat \X Nat : s[1] < s[2]}, Nat)
BY NatLessThanWellFounded, Zenon DEF OpToRel

LEMMA LeastNumber ==
    ASSUME NEW T, T \subseteq Nat, T # {}
    PROVE  \E t \in T : \A u \in T : t <= u
<1> DEFINE R == {s \in Nat \X Nat : s[1] < s[2]}
<1>1. PICK t \in T : \A u \in T : <<u, t>> \notin R
    BY WFMin, LessIsWellFounded
<1>2. ASSUME NEW u \in T PROVE t <= u
    <2>1. t \in Nat /\ u \in Nat /\ <<u, t>> \notin R
        BY <1>1
    <2>2. ~ (u < t)
        BY <2>1
    <2> QED BY <2>1, <2>2
<1> QED BY <1>2

LEMMA LeastIndex ==
    ASSUME NEW n \in Nat, NEW I, I \subseteq 1 .. n, I # {}
    PROVE  \E i \in I : \A l \in I : i <= l
<1>1. I \subseteq Nat
    OBVIOUS
<1> QED BY <1>1, LeastNumber

-----------------------------------------------------------------------------
(***************************************************************************)
(* Type correctness and the forms of commands.                             *)
(***************************************************************************)
LEMMA NewJob ==
    ASSUME TypeOK, Forms, NEW p \in Procs, NEW j \in Jobs, Form(j),
           job' = [job EXCEPT ![p] = j]
    PROVE  job' \in [Procs -> Jobs] /\ Forms'
<1>1. job' \in [Procs -> Jobs]
    BY DEF TypeOK
<1>2. \A q \in Procs : job'[q] = j \/ job'[q] = job[q]
    BY DEF TypeOK
<1> QED BY <1>1, <1>2 DEF Forms

LEMMA IdleTyped == Idle \in Jobs /\ Form(Idle)
<1>1. << >> \in Seq(Groups)
    OBVIOUS
<1>2. NoDeps \in [Names -> Dependency \cup {None}] /\ NoDeps \in [Names -> Entry \cup {None}]
    BY DEF NoDeps
<1>3. EmptyManifest \in [Sections -> [Names -> Dependency \cup {None}]]
    BY <1>2 DEF EmptyManifest
<1>4. Main \in Sections /\ "workspace" \in Stores
    BY StoresExist DEF Sections
<1>5. Idle \in Jobs
    BY <1>1, <1>2, <1>3, <1>4 DEF Idle, Jobs, EmptyLock
<1>6. Form(Idle)
    BY DEF Idle, Form, Places, Recorder
<1> QED BY <1>5, <1>6

LEMMA TypeInit == Init => TypeOK /\ Forms
<1> SUFFICES ASSUME Init PROVE TypeOK /\ Forms
    OBVIOUS
<1>1. dirs \in [Stores \X Names \X Slots -> Directory \cup {None}]
    <2> DEFINE K == Stores \X Names \X Slots
    <2>1. dirs = [k \in K |-> None]
        BY DEF Init
    <2> HIDE DEF K
    <2>2. dirs \in [K -> Directory \cup {None}]
        BY <2>1
    <2> QED BY <2>2 DEF K
<1>2. manifest \in [Sections -> [Names -> Dependency \cup {None}]]
    BY ManifestsAreManifests DEF Init
<1>3. lock \in [Names -> Entry \cup {None}]
    BY DEF Init, EmptyLock, NoDeps
<1>4. job \in [Procs -> Jobs] /\ Forms
    BY IdleTyped DEF Init, Forms
<1>5. /\ disturbed \in [Procs -> BOOLEAN] /\ commands \in Nat /\ faults \in Nat
      /\ stranded \subseteq Stores \X Names \X Slots
    BY DEF Init
<1> QED BY <1>1, <1>2, <1>3, <1>4, <1>5 DEF TypeOK

LEMMA DocTyped ==
    ASSUME NEW m \in [Sections -> [Names -> Dependency \cup {None}]],
           NEW s, NEW n, NEW d \in Dependency \cup {None}
    PROVE  WithDep(m, s, n, d) \in [Sections -> [Names -> Dependency \cup {None}]]
BY DEF WithDep

LEMMA DirTyped ==
    ASSUME TypeOK, NEW k, NEW d \in Directory \cup {None}
    PROVE  [dirs EXCEPT ![k] = d] \in [Stores \X Names \X Slots -> Directory \cup {None}]
<1> DEFINE K == Stores \X Names \X Slots
<1>1. dirs \in [K -> Directory \cup {None}]
    BY DEF TypeOK
<1> HIDE DEF K
<1>2. [dirs EXCEPT ![k] = d] \in [K -> Directory \cup {None}]
    BY <1>1
<1> QED BY <1>2 DEF K

LEMMA StartTyped ==
    ASSUME TypeOK, Forms, NEW p \in Procs, NEW j \in Jobs, Form(j), Start(p, j)
    PROVE  TypeOK' /\ Forms'
<1>1. job' \in [Procs -> Jobs] /\ Forms'
    BY NewJob DEF Start
<1>2. disturbed' \in [Procs -> BOOLEAN] /\ commands' \in Nat
    BY DEF Start, TypeOK
<1> QED BY <1>1, <1>2 DEF Start, TypeOK

LEMMA AddTyped ==
    ASSUME TypeOK, Forms, NEW p \in Procs, NEW s \in Sections, NEW n \in Names,
           NEW d \in Deps, Add(p, s, n, d)
    PROVE  TypeOK' /\ Forms'
<1> DEFINE doc == WithDep(manifest, s, n, d)
           j == [Idle EXCEPT !.cmd = "add", !.pc = "openManifest", !.section = s,
                 !.name = n, !.dep = d, !.doc = doc]
<1>1. doc \in [Sections -> [Names -> Dependency \cup {None}]] /\ d \in Dependency
    BY DepsAreDependencies, DocTyped DEF TypeOK
<1>2. Start(p, j) /\ ~FromSource(d)
    BY DEF Add
<1> HIDE DEF doc
<1>3. j \in Jobs
    BY IdleTyped, <1>1 DEF Jobs
<1>4. Form(j)
    BY IdleTyped, <1>1, <1>2 DEF Idle, Form, Places, Recorder
<1> HIDE DEF j
<1> QED BY <1>2, <1>3, <1>4, StartTyped

LEMMA AddSourceTyped ==
    ASSUME TypeOK, Forms, NEW p \in Procs, NEW s \in Sections, NEW n \in Names,
           NEW d \in Dependency, NEW r \in BOOLEAN, AddSource(p, s, n, d, r)
    PROVE  TypeOK' /\ Forms'
<1> DEFINE to == IF ~r /\ IsInstalled(n, d.version) THEN "record" ELSE "fetch"
           j == [Idle EXCEPT !.cmd = "add", !.section = s, !.name = n, !.dep = d,
                 !.version = d.version, !.reinstall = r, !.pc = to]
<1>1. Start(p, j) /\ FromSource(d) /\ to \in {"record", "fetch"}
    BY DEF AddSource
<1>2. d \in Dependency /\ d.version \in Versions
    BY DEF Dependency
<1> HIDE DEF to
<1>3. j \in Jobs
    <2> DEFINE i == [Idle EXCEPT !.cmd = "add", !.section = s, !.name = n, !.dep = d]
    <2>1. i \in Jobs
        BY IdleTyped, <1>2 DEF Jobs
    <2>2. j = [i EXCEPT !.version = d.version, !.reinstall = r, !.pc = to]
        BY IdleTyped DEF Jobs
    <2> HIDE DEF i, j
    <2> QED BY <1>1, <1>2, <2>1, <2>2, ZenonT(60) DEF Jobs
<1>4. Form(j)
    BY IdleTyped, <1>1, <1>2 DEF Idle, Form, Places, Recorder, Installing, Recording
<1> HIDE DEF j
<1> QED BY <1>1, <1>3, <1>4, StartTyped

\* The commands that add from a source ask for a dependency.
LEMMA SourceCommands ==
    ASSUME TypeOK, NEW p \in Procs, NEW s \in Sections, NEW n \in Names
    PROVE  /\ \A d \in Deps, r \in BOOLEAN :
                AddFromGithub(p, s, n, d, r) \/ AddFromLocal(p, s, n, d, r) =>
                  d \in Dependency /\ AddSource(p, s, n, d, r)
           /\ Refresh(p, s, n) => \E d \in Dependency : AddSource(p, s, n, d, TRUE)
<1>1. \A d \in Deps, r \in BOOLEAN :
         AddFromGithub(p, s, n, d, r) \/ AddFromLocal(p, s, n, d, r) =>
           d \in Dependency /\ AddSource(p, s, n, d, r)
    BY DepsAreDependencies DEF AddFromGithub, AddFromLocal
<1>2. ASSUME Refresh(p, s, n)
      PROVE  \E d \in Dependency : AddSource(p, s, n, d, TRUE)
    <2>1. <<s, n>> \in Own(manifest)
        BY <1>2 DEF Refresh
    <2>2. manifest[s][n] # None
        BY <2>1 DEF Own
    <2>3. manifest[s][n] \in Dependency
        BY <2>2 DEF TypeOK
    <2>4. AddSource(p, s, n, manifest[s][n], TRUE)
        BY <1>2 DEF Refresh, AddFromLocal
    <2> QED BY <2>3, <2>4
<1> QED BY <1>1, <1>2

LEMMA RemoveTyped ==
    ASSUME TypeOK, Forms, NEW p \in Procs, NEW s \in Sections, NEW n \in Names,
           Remove(p, s, n)
    PROVE  TypeOK' /\ Forms'
<1> DEFINE doc == WithDep(manifest, s, n, None)
           j == [Idle EXCEPT !.cmd = "remove", !.pc = "openManifest", !.name = n,
                 !.doc = doc]
<1>1. doc \in [Sections -> [Names -> Dependency \cup {None}]]
    BY DocTyped DEF TypeOK
<1>2. Start(p, j)
    BY DEF Remove
<1> HIDE DEF doc
<1>3. j \in Jobs
    BY IdleTyped, <1>1 DEF Jobs
<1>4. Form(j)
    BY IdleTyped DEF Idle, Form, Places, Recorder
<1> HIDE DEF j
<1> QED BY <1>2, <1>3, <1>4, StartTyped

LEMMA RemoveGlobalTyped ==
    ASSUME TypeOK, Forms, NEW p \in Procs, NEW n \in Names, RemoveGlobal(p, n)
    PROVE  TypeOK' /\ Forms'
<1> DEFINE j == [Idle EXCEPT !.cmd = "remove", !.pc = "purge", !.name = n,
                 !.store = "global"]
<1>1. Start(p, j) /\ "global" \in Stores
    BY DEF RemoveGlobal
<1>2. j \in Jobs
    BY IdleTyped, <1>1 DEF Jobs
<1>3. Form(j)
    BY IdleTyped DEF Idle, Form, Places, Recorder
<1> HIDE DEF j
<1> QED BY <1>1, <1>2, <1>3, StartTyped

LEMMA UninstallTyped ==
    ASSUME TypeOK, Forms, NEW p \in Procs, NEW s \in Stores, NEW n \in Names,
           NEW v \in Versions, Uninstall(p, s, n, v)
    PROVE  TypeOK' /\ Forms'
<1> DEFINE j == [Idle EXCEPT !.cmd = "uninstall", !.pc = "purge", !.name = n,
                 !.version = v, !.store = s]
<1>1. Start(p, j)
    BY DEF Uninstall
<1>2. j \in Jobs
    BY IdleTyped DEF Jobs
<1>3. Form(j)
    BY IdleTyped DEF Idle, Form, Places, Recorder
<1> HIDE DEF j
<1> QED BY <1>1, <1>2, <1>3, StartTyped

LEMMA InstallTyped ==
    ASSUME TypeOK, Forms, NEW p \in Procs, NEW s \in Stores, NEW n \in Names,
           NEW d \in Deps, Install(p, s, n, d)
    PROVE  TypeOK' /\ Forms'
<1> DEFINE j == [Idle EXCEPT !.cmd = "install", !.pc = "fetch", !.name = n, !.dep = d,
                 !.version = d.version, !.store = s]
<1>1. Start(p, j) /\ ~FromSource(d)
    BY DEF Install
<1>2. d \in Dependency /\ d.version \in Versions
    BY DepsAreDependencies DEF Dependency
<1>3. j \in Jobs
    BY IdleTyped, <1>2 DEF Jobs
<1>4. Form(j)
    BY IdleTyped, <1>1 DEF Idle, Form, Places, Recorder, Installing
<1> HIDE DEF j
<1> QED BY <1>1, <1>3, <1>4, StartTyped

LEMMA SelectTyped ==
    ASSUME NEW m \in [Sections -> [Names -> Dependency \cup {None}]], NEW gs \in Seq(Groups)
    PROVE  Select(m, gs) \in [Names -> Dependency \cup {None}]
<1> SUFFICES ASSUME NEW n \in Names
             PROVE  Select(m, gs)[n] \in Dependency \cup {None}
    BY DEF Select
<1> DEFINE having == {i \in DOMAIN gs : m[gs[i]][n] # None}
           first == CHOOSE i \in having : \A l \in having : i <= l
<1>1. CASE m[Main][n] # None \/ having = {}
    BY <1>1 DEF Select, Sections
<1>2. CASE m[Main][n] = None /\ having # {}
    <2>1. \E i \in having : \A l \in having : i <= l
        <3>1. having \subseteq 1 .. Len(gs) /\ Len(gs) \in Nat
            OBVIOUS
        <3> HIDE DEF having
        <3> QED BY <1>2, <3>1, LeastIndex
    <2>2. first \in having
        BY <2>1
    <2>3. gs[first] \in Sections /\ Select(m, gs)[n] = m[gs[first]][n]
        BY <1>2, <2>2 DEF Select, Sections
    <2> QED BY <2>3
<1> QED BY <1>1, <1>2

LEMMA SyncTyped ==
    ASSUME TypeOK, Forms, NEW p \in Procs, NEW gs \in Selections, NEW r \in BOOLEAN,
           Sync(p, gs, r)
    PROVE  TypeOK' /\ Forms'
<1> DEFINE deps == Select(manifest, gs)
           todo == Selected(deps)
           known == Known(manifest)
           j == [Idle EXCEPT !.cmd = "sync", !.pc = "next", !.groups = gs,
                     !.deps = deps, !.todo = todo, !.known = known,
                     !.entries = lock, !.reinstall = r]
<1>1. Start(p, j)
    BY DEF Sync
<1>2. /\ gs \in Seq(Groups) /\ deps \in [Names -> Dependency \cup {None}]
      /\ todo \subseteq Names /\ known \subseteq Names
      /\ lock \in [Names -> Entry \cup {None}] /\ todo = Selected(deps)
    BY SelectionsAreGroups, SelectTyped DEF TypeOK, Selected, Known
<1> HIDE DEF deps, todo, known
<1>3. j \in Jobs
    <2> DEFINE h == [Idle EXCEPT !.cmd = "sync", !.pc = "next"]
               i == [h EXCEPT !.groups = gs, !.deps = deps, !.todo = todo]
    <2>0. h \in Jobs
        BY IdleTyped DEF Jobs
    <2> HIDE DEF h
    <2>1. i \in Jobs
        BY <1>2, <2>0, ZenonT(60) DEF Jobs
    <2>2. j = [i EXCEPT !.known = known, !.entries = lock, !.reinstall = r]
        BY IdleTyped DEF Jobs, h
    <2> HIDE DEF i, j
    <2> QED BY <1>2, <2>1, <2>2, ZenonT(60) DEF Jobs
<1>4. Form(j)
    BY IdleTyped, <1>2 DEF Idle, Form, Places, Recorder, AtWork, Installing, Recording
<1> HIDE DEF j
<1> QED BY <1>1, <1>3, <1>4, StartTyped

LEMMA DestTyped ==
    ASSUME NEW j \in Jobs, j.bytes \in Bundles
    PROVE  Dest(j) \in Stores \X Names \X Slots
BY BundlesAreNamed DEF Dest, Jobs, Slots

LEMMA TempTyped ==
    ASSUME TypeOK, Forms, NEW p \in Procs, Filling(p)
    PROVE  Temp(job[p]) \in Stores \X Names \X Slots
<1>1. job[p] \in Jobs /\ job[p].bytes \in Bundles /\ job[p].tmp \in Temps
    BY DEF TypeOK, Forms, Form, Filling
<1> QED BY <1>1, BundlesAreNamed DEF Temp, Jobs, Slots

LEMMA ThereTyped ==
    ASSUME TypeOK, NEW k \in Stores \X Names \X Slots, Exists(k)
    PROVE  dirs[k] \in Directory
<1> DEFINE K == Stores \X Names \X Slots
<1>1. dirs \in [K -> Directory \cup {None}] /\ k \in K
    BY DEF TypeOK
<1> HIDE DEF K
<1> QED BY <1>1 DEF Exists

LEMMA VictimTyped ==
    ASSUME TypeOK, Forms, NEW p \in Procs, NEW k \in Victims(p), job[p].pc = "purge"
    PROVE  /\ k \in Stores \X Names \X Slots /\ Exists(k)
           /\ dirs[k] \in Directory
<1>1. job[p] \in Jobs /\ Form(job[p])
    BY DEF TypeOK, Forms
<1>2. job[p].name \in Names
    BY <1>1 DEF Form, Places, Installing, Recording, AtWork, Jobs
<1>3. job[p].version = None \/ job[p].version \in Slots
    BY <1>1 DEF Jobs, Slots
<1>4. k \in Stores \X Names \X Slots /\ Exists(k)
    BY <1>1, <1>2, <1>3 DEF Victims, Jobs
<1> QED BY <1>4, ThereTyped

LEMMA StepTyped ==
    ASSUME TypeOK, Forms, NEW p \in Procs, NEW i \in Jobs, Form(i),
           job' = [job EXCEPT ![p] = i],
           dirs' \in [Stores \X Names \X Slots -> Directory \cup {None}],
           manifest' \in [Sections -> [Names -> Dependency \cup {None}]],
           lock' \in [Names -> Entry \cup {None}],
           Disturbs(p) \/ UNCHANGED disturbed, Keeps
    PROVE  TypeOK' /\ Forms'
<1>1. job' \in [Procs -> Jobs] /\ Forms'
    BY NewJob
<1>2. disturbed' \in [Procs -> BOOLEAN]
    BY DEF TypeOK, Disturbs
<1> QED BY <1>1, <1>2 DEF TypeOK, Keeps

\* The steps that change only where a command is, or nothing of it.
LEMMA GotoTyped ==
    ASSUME TypeOK, Forms, NEW p \in Procs, NEW to,
           to \in Installing \cup Recording \cup {"purge", "next", "idle"},
           Form([job[p] EXCEPT !.pc = to]), Goto(p, to)
    PROVE  job' \in [Procs -> Jobs] /\ Forms'
<1> DEFINE i == [job[p] EXCEPT !.pc = to]
<1>1. job[p] \in Jobs
    BY DEF TypeOK
<1>2. i \in Jobs
    <2>1. to \in {"idle", "next", "fetch", "purge", "check", "extract", "rename", "link",
                  "record", "openManifest", "writeManifest", "lock", "openLock", "writeLock"}
        BY DEF Installing, Recording
    <2> QED BY <1>1, <2>1, ZenonT(60) DEF Jobs
<1>3. job' = [job EXCEPT ![p] = i]
    BY DEF Goto
<1> HIDE DEF i
<1> QED BY <1>2, <1>3, NewJob DEF i

LEMMA EndsTyped ==
    ASSUME TypeOK, Forms, NEW p \in Procs, Ends(p)
    PROVE  job' \in [Procs -> Jobs] /\ Forms'
BY IdleTyped, NewJob DEF Ends

LEMMA RestTyped ==
    ASSUME TypeOK, NEW p \in Procs, job' \in [Procs -> Jobs], Forms',
           dirs' \in [Stores \X Names \X Slots -> Directory \cup {None}],
           manifest' \in [Sections -> [Names -> Dependency \cup {None}]],
           lock' \in [Names -> Entry \cup {None}],
           Disturbs(p) \/ UNCHANGED disturbed, Keeps
    PROVE  TypeOK' /\ Forms'
<1>1. disturbed' \in [Procs -> BOOLEAN]
    BY DEF TypeOK, Disturbs
<1> QED BY <1>1 DEF TypeOK, Keeps

LEMMA FilesTyped ==
    ASSUME TypeOK
    PROVE  /\ dirs \in [Stores \X Names \X Slots -> Directory \cup {None}]
           /\ manifest \in [Sections -> [Names -> Dependency \cup {None}]]
           /\ lock \in [Names -> Entry \cup {None}]
BY DEF TypeOK

LEMMA NextOne ==
    ASSUME TypeOK, NEW p \in Procs, job[p].todo # {}
    PROVE  Next1(p) \in job[p].todo
<1> DEFINE T == {Rank[n] : n \in job[p].todo}
<1>1. job[p].todo \subseteq Names
    BY DEF TypeOK, Jobs
<1>2. T \subseteq Nat /\ T # {}
    BY <1>1, RanksAreNumbers
<1>3. PICK r \in T : \A u \in T : r <= u
    BY <1>2, LeastNumber
<1>4. \E n \in job[p].todo : \A m \in job[p].todo : Rank[n] <= Rank[m]
    BY <1>3
<1> QED BY <1>4 DEF Next1

LEMMA ResolvedTyped ==
    ASSUME NEW d \in Dependency
    PROVE  /\ Resolved(d) \in Dependency /\ Resolved(d).kind = d.kind
           /\ d.kind # "git" => Resolved(d) = d
BY DEF Resolved, Dependency

LEMMA NextDepTyped ==
    ASSUME TypeOK, Forms, NEW p \in Procs, NextDep(p)
    PROVE  TypeOK' /\ Forms'
<1> DEFINE n == Next1(p)
           d == Resolved(job[p].deps[n])
           there == ~job[p].reinstall /\ IsInstalled(n, d.version)
           to == IF ~there THEN "fetch" ELSE IF FromSource(d) THEN "record" ELSE "lock"
           i == [job[p] EXCEPT !.name = n, !.dep = d, !.version = d.version, !.pc = to]
<1>1. job[p] \in Jobs /\ Form(job[p]) /\ job[p].cmd = "sync"
    <2>1. job[p] \in Jobs /\ Form(job[p]) /\ job[p].pc = "next"
        BY DEF TypeOK, Forms, NextDep
    <2>2. job[p].cmd = "sync"
        BY <2>1 DEF Form, Places, Installing, Recording, Jobs
    <2> QED BY <2>1, <2>2
<1>2. n \in job[p].todo /\ n \in Names
    BY <1>1, NextOne DEF NextDep, Jobs
<1>3. job[p].deps[n] \in Dependency
    BY <1>1, <1>2 DEF Form, Selected, Jobs
<1>4. d \in Dependency /\ d.version \in Versions
    BY <1>3, ResolvedTyped DEF Dependency
<1>5. to \in {"fetch", "record", "lock"} /\ (to = "record" => FromSource(d))
    OBVIOUS
<1>6. job' = [job EXCEPT ![p] = i] /\ UNCHANGED <<dirs, manifest, lock, disturbed>> /\ Keeps
    BY DEF NextDep
<1>7. d = Resolved(job[p].deps[n])
    OBVIOUS
<1> HIDE DEF n, d, to, there
<1>8. i \in Jobs
    BY <1>1, <1>2, <1>4, <1>5 DEF Jobs
<1>9. Form(i)
    BY <1>1, <1>2, <1>4, <1>5, <1>7 DEF Jobs, Form, Places, Recorder, AtWork, Installing, Recording
<1> HIDE DEF i
<1> QED BY <1>6, <1>8, <1>9, StepTyped, FilesTyped

LEMMA FetchTyped ==
    ASSUME TypeOK, Forms, NEW p \in Procs, Fetch(p)
    PROVE  TypeOK' /\ Forms'
<1>1. CASE Ends(p)
    BY <1>1, EndsTyped, RestTyped, FilesTyped DEF Fetch
<1>2. CASE ~Ends(p)
    <2>1. PICK b \in Offer(job[p]) :
            job' = [job EXCEPT ![p] = [@ EXCEPT !.bytes = b,
                     !.pc = IF FromSource(job[p].dep) THEN "purge" ELSE "check"]]
        BY <1>2 DEF Fetch
    <2> DEFINE to == IF FromSource(job[p].dep) THEN "purge" ELSE "check"
               i == [job[p] EXCEPT !.bytes = b, !.pc = to]
    <2>2. b \in Bundles
        BY AssetsAreBundles DEF Offer, Built, Released
    <2>3. job[p] \in Jobs /\ Form(job[p]) /\ job[p].pc = "fetch"
        BY DEF TypeOK, Forms, Fetch
    <2>4. to \in {"purge", "check"} /\ (to = "purge" <=> FromSource(job[p].dep))
        OBVIOUS
    <2>5. job' = [job EXCEPT ![p] = i]
        BY <2>1
    <2> HIDE DEF to
    <2>6. i \in Jobs
        BY <2>2, <2>3, <2>4 DEF Jobs
    <2>7. Form(i)
        BY <2>2, <2>3, <2>4 DEF Jobs, Form, Places, Recorder, AtWork, Installing, Recording
    <2> HIDE DEF i
    <2> QED BY <2>5, <2>6, <2>7, StepTyped, FilesTyped DEF Fetch
<1> QED BY <1>1, <1>2

LEMMA RemoveFilesTyped ==
    ASSUME TypeOK, Forms, NEW p \in Procs, RemoveFiles(p) \/ RemoveDir(p)
    PROVE  TypeOK' /\ Forms'
<1>1. dirs' \in [Stores \X Names \X Slots -> Directory \cup {None}]
    <2>1. CASE RemoveFiles(p)
        <3>1. PICK k \in Victims(p), left \in {"part", "bare"} :
                dirs' = [dirs EXCEPT ![k] = [dirs[k] EXCEPT !.files = left, !.hurt = TRUE]]
            BY <2>1 DEF RemoveFiles
        <3>2. [dirs[k] EXCEPT !.files = left, !.hurt = TRUE] \in Directory
            <4>1. dirs[k] \in Directory
                BY <2>1, VictimTyped DEF RemoveFiles
            <4> QED BY <4>1 DEF Directory
        <3> QED BY <3>1, <3>2, DirTyped
    <2>2. CASE RemoveDir(p)
        <3>1. PICK k \in Victims(p) : dirs' = [dirs EXCEPT ![k] = None]
            BY <2>2 DEF RemoveDir
        <3> QED BY <3>1, DirTyped
    <2> QED BY <2>1, <2>2
<1>2. job' \in [Procs -> Jobs] /\ Forms' /\ UNCHANGED <<manifest, lock>> /\ Keeps /\ Disturbs(p)
    BY DEF RemoveFiles, RemoveDir, TypeOK, Forms
<1> QED BY <1>1, <1>2, RestTyped, FilesTyped

LEMMA PurgedTyped ==
    ASSUME TypeOK, Forms, NEW p \in Procs, Purged(p)
    PROVE  TypeOK' /\ Forms'
<1>1. CASE job[p].cmd \in {"remove", "uninstall"}
    BY <1>1, EndsTyped, RestTyped, FilesTyped DEF Purged
<1>2. CASE job[p].cmd \notin {"remove", "uninstall"}
    <2>1. Goto(p, "check")
        BY <1>2 DEF Purged
    <2>2. job[p] \in Jobs /\ Form(job[p]) /\ job[p].pc = "purge"
        BY DEF TypeOK, Forms, Purged
    <2>3. Form([job[p] EXCEPT !.pc = "check"])
        BY <1>2, <2>2 DEF Jobs, Form, Places, Recorder, AtWork, Installing, Recording
    <2> QED BY <2>1, <2>3, GotoTyped, RestTyped, FilesTyped DEF Purged, Installing
<1> QED BY <1>1, <1>2

LEMMA CheckTyped ==
    ASSUME TypeOK, Forms, NEW p \in Procs, Check(p)
    PROVE  TypeOK' /\ Forms'
<1>1. CASE Exists(Dest(job[p]))
    BY <1>1, EndsTyped, RestTyped, FilesTyped DEF Check
<1>2. CASE ~Exists(Dest(job[p]))
    <2>1. PICK t \in Temps :
            /\ dirs' = [dirs EXCEPT ![Temp([job[p] EXCEPT !.tmp = t])] = NewDir(job[p].bytes)]
            /\ job' = [job EXCEPT ![p] = [@ EXCEPT !.tmp = t, !.pc = "extract"]]
        BY <1>2 DEF Check, Fresh
    <2>2. job[p] \in Jobs /\ Form(job[p]) /\ job[p].pc = "check" /\ job[p].bytes \in Bundles
        BY DEF TypeOK, Forms, Check, Form
    <2> DEFINE i == [job[p] EXCEPT !.tmp = t, !.pc = "extract"]
    <2>3. NewDir(job[p].bytes) \in Directory
        BY <2>2 DEF NewDir, Directory
    <2>4. i \in Jobs
        BY <2>2 DEF Jobs
    <2>5. Form(i)
        BY <2>2 DEF Jobs, Form, Places, Recorder, AtWork, Installing, Recording
    <2>6. job' = [job EXCEPT ![p] = i]
        BY <2>1
    <2>7. dirs' \in [Stores \X Names \X Slots -> Directory \cup {None}]
        BY <2>1, <2>3, DirTyped
    <2> HIDE DEF i
    <2> QED BY <2>4, <2>5, <2>6, <2>7, StepTyped, FilesTyped, <1>2 DEF Check
<1> QED BY <1>1, <1>2

LEMMA ExtractTyped ==
    ASSUME TypeOK, Forms, NEW p \in Procs,
           ExtractManifest(p) \/ ExtractRest(p) \/ ExtractAgain(p)
    PROVE  TypeOK' /\ Forms'
<1> DEFINE k == Temp(job[p])
<1>1. /\ job[p] \in Jobs /\ Form(job[p]) /\ job[p].pc = "extract"
      /\ job[p].bytes \in Bundles /\ k \in Stores \X Names \X Slots
    BY TempTyped DEF TypeOK, Forms, Form, ExtractManifest, ExtractRest, ExtractAgain, Filling
<1>2. dirs' \in [Stores \X Names \X Slots -> Directory \cup {None}]
    <2>1. CASE ExtractManifest(p)
        <3>1. Exists(k) /\ dirs' = [dirs EXCEPT ![k] = [dirs[k] EXCEPT !.files = "part"]]
            BY <2>1 DEF ExtractManifest
        <3>2. [dirs[k] EXCEPT !.files = "part"] \in Directory
            BY <3>1, <1>1, ThereTyped DEF Directory
        <3> QED BY <3>1, <3>2, DirTyped
    <2>2. CASE ExtractRest(p)
        <3>1. /\ Exists(k)
              /\ \/ dirs' = dirs
                 \/ dirs' = [dirs EXCEPT ![k] = [dirs[k] EXCEPT !.files = "whole"]]
            BY <2>2 DEF ExtractRest
        <3>2. [dirs[k] EXCEPT !.files = "whole"] \in Directory
            BY <3>1, <1>1, ThereTyped DEF Directory
        <3> QED BY <3>1, <3>2, DirTyped, FilesTyped
    <2>3. CASE ExtractAgain(p)
        <3>1. dirs' = [dirs EXCEPT ![k] = [NewDir(job[p].bytes) EXCEPT !.hurt = TRUE]]
            BY <2>3 DEF ExtractAgain
        <3>2. [NewDir(job[p].bytes) EXCEPT !.hurt = TRUE] \in Directory
            BY <1>1 DEF NewDir, Directory
        <3> QED BY <3>1, <3>2, DirTyped
    <2> QED BY <2>1, <2>2, <2>3
<1>3. job' \in [Procs -> Jobs] /\ Forms'
    <2>1. CASE job' = job
        BY <2>1 DEF TypeOK, Forms
    <2>2. CASE Goto(p, "rename")
        <3>1. Form([job[p] EXCEPT !.pc = "rename"])
            BY <1>1 DEF Jobs, Form, Places, Recorder, AtWork, Installing, Recording
        <3> QED BY <2>2, <3>1, GotoTyped DEF Installing
    <2> QED BY <2>1, <2>2 DEF ExtractManifest, ExtractRest, ExtractAgain
<1> QED BY <1>2, <1>3, RestTyped, FilesTyped DEF ExtractManifest, ExtractRest, ExtractAgain

LEMMA RenameTyped ==
    ASSUME TypeOK, Forms, NEW p \in Procs, Rename(p)
    PROVE  TypeOK' /\ Forms'
<1>1. CASE Ends(p) /\ UNCHANGED <<dirs, disturbed, stranded>>
    BY <1>1, EndsTyped, RestTyped, FilesTyped DEF Rename, Keeps
<1>2. CASE ~(Ends(p) /\ UNCHANGED <<dirs, disturbed, stranded>>)
    <2> DEFINE from == Temp(job[p])
               to == Dest(job[p])
    <2>1. /\ Exists(from) /\ dirs' = [dirs EXCEPT ![to] = dirs[from], ![from] = None]
          /\ Goto(p, "link") /\ Disturbs(p)
        BY <1>2 DEF Rename
    <2>2. job[p] \in Jobs /\ Form(job[p]) /\ job[p].pc = "rename"
        BY DEF TypeOK, Forms, Rename
    <2>3. Form([job[p] EXCEPT !.pc = "link"])
        BY <2>2 DEF Jobs, Form, Places, Recorder, AtWork, Installing, Recording
    <2>4. from \in Stores \X Names \X Slots
        BY <2>2, TempTyped DEF Filling
    <2>5. dirs[from] \in Directory
        BY <2>1, <2>4, ThereTyped
    <2>6. dirs' \in [Stores \X Names \X Slots -> Directory \cup {None}]
        <3> DEFINE K == Stores \X Names \X Slots
        <3>1. dirs \in [K -> Directory \cup {None}]
            BY DEF TypeOK
        <3> HIDE DEF K, from, to
        <3>2. dirs' \in [K -> Directory \cup {None}]
            BY <2>1, <2>5, <3>1
        <3> QED BY <3>2 DEF K
    <2>7. job' \in [Procs -> Jobs] /\ Forms'
        BY <2>1, <2>3, GotoTyped DEF Installing
    <2>8. disturbed' \in [Procs -> BOOLEAN]
        BY <2>1 DEF TypeOK, Disturbs
    <2>9. stranded' \subseteq Stores \X Names \X Slots
        BY <1>2 DEF Rename, TypeOK
    <2> QED BY <2>6, <2>7, <2>8, <2>9 DEF Rename, TypeOK
<1> QED BY <1>1, <1>2

LEMMA LinkedTyped ==
    ASSUME TypeOK, NEW k \in Stores \X Names \X Slots, dirs' \in Linked(k)
    PROVE  dirs' \in [Stores \X Names \X Slots -> Directory \cup {None}]
<1>1. CASE dirs' = dirs
    BY <1>1, FilesTyped
<1>2. CASE dirs' # dirs
    <2>1. Exists(k) /\ dirs' = [dirs EXCEPT ![k] = [dirs[k] EXCEPT !.view = TRUE]]
        BY <1>2 DEF Linked
    <2>2. [dirs[k] EXCEPT !.view = TRUE] \in Directory
        BY <2>1, ThereTyped DEF Directory
    <2> QED BY <2>1, <2>2, DirTyped
<1> QED BY <1>1, <1>2

LEMMA LinkTyped ==
    ASSUME TypeOK, Forms, NEW p \in Procs, Link(p)
    PROVE  TypeOK' /\ Forms'
<1> DEFINE i == AfterInstall(job[p])
<1>1. job[p] \in Jobs /\ Form(job[p]) /\ job[p].pc = "link" /\ job[p].bytes \in Bundles
    BY DEF TypeOK, Forms, Form, Link
<1>2. i \in Jobs /\ Form(i)
    <2>1. CASE job[p].cmd = "install"
        BY <2>1, IdleTyped DEF AfterInstall
    <2>2. CASE job[p].cmd # "install"
        <3> DEFINE to == IF FromSource(job[p].dep) THEN "record" ELSE "lock"
        <3>1. i = [job[p] EXCEPT !.pc = to]
            BY <2>2 DEF AfterInstall
        <3>2. to \in {"record", "lock"} /\ (to = "record" <=> FromSource(job[p].dep))
            OBVIOUS
        <3> HIDE DEF to, i
        <3>3. i \in Jobs
            BY <1>1, <3>1, <3>2 DEF Jobs
        <3>4. Form(i)
            BY <1>1, <2>2, <3>1, <3>2
               DEF Jobs, Form, Places, Recorder, AtWork, Installing, Recording
        <3> QED BY <3>3, <3>4
    <2> QED BY <2>1, <2>2
<1>3. Dest(job[p]) \in Stores \X Names \X Slots
    BY <1>1, DestTyped
<1>4. dirs' \in [Stores \X Names \X Slots -> Directory \cup {None}]
    BY <1>3, LinkedTyped DEF Link
<1>5. job' = [job EXCEPT ![p] = i]
    BY DEF Link
<1> HIDE DEF i
<1> QED BY <1>2, <1>4, <1>5, StepTyped, FilesTyped DEF Link

LEMMA RepairTyped ==
    ASSUME TypeOK, Forms, Repair
    PROVE  TypeOK' /\ Forms'
<1>1. PICK k \in ListAll : dirs' \in Linked(k)
    BY DEF Repair
<1>2. k \in Stores \X Names \X Slots
    BY DEF ListAll, Listed, TypeOK
<1>3. dirs' \in [Stores \X Names \X Slots -> Directory \cup {None}]
    BY <1>1, <1>2, LinkedTyped
<1> QED BY <1>3 DEF Repair, TypeOK, Forms, Keeps

\* The version that was built is the one of the dependency.
LEMMA RecordsAsAsked ==
    ASSUME NEW j \in Jobs, Form(j), j.pc = "record"
    PROVE  j.dep \in Dependency /\ EntryOf(j) = j.dep
<1>1. j.cmd = "sync" \/ (j.cmd = "add" /\ FromSource(j.dep))
    BY DEF Form, Places, Installing, Recording, Jobs
<1>2. j.dep \in Dependency /\ j.version = j.dep.version
    <2>1. CASE j.cmd = "sync"
        <3>1. /\ j.name \in j.todo /\ j.todo \subseteq Selected(j.deps)
              /\ j.dep = Resolved(j.deps[j.name]) /\ j.version = j.dep.version
            BY <2>1 DEF Form, AtWork
        <3>2. j.deps[j.name] \in Dependency
            BY <3>1 DEF Selected, Jobs
        <3> QED BY <3>1, <3>2, ResolvedTyped
    <2>2. CASE j.cmd = "add" /\ FromSource(j.dep)
        BY <2>2 DEF Form
    <2> QED BY <1>1, <2>1, <2>2
<1> QED BY <1>2 DEF EntryOf, Dependency

LEMMA RecordTyped ==
    ASSUME TypeOK, Forms, NEW p \in Procs, Record(p)
    PROVE  TypeOK' /\ Forms'
<1> DEFINE j == job[p]
           doc == WithDep(manifest, j.section, j.name, EntryOf(j))
           i == [j EXCEPT !.pc = "openManifest", !.doc = doc]
<1>1. j \in Jobs /\ Form(j) /\ j.pc = "record"
    BY DEF TypeOK, Forms, Record
<1>2. doc \in [Sections -> [Names -> Dependency \cup {None}]]
    <2>1. EntryOf(j) \in Dependency \cup {None}
        BY <1>1, RecordsAsAsked
    <2> QED BY <2>1, FilesTyped, DocTyped
<1>3. job' = [job EXCEPT ![p] = i]
    BY DEF Record
<1> HIDE DEF doc, j
<1>4. i \in Jobs
    BY <1>1, <1>2 DEF Jobs
<1>5. Form(i)
    BY <1>1, <1>2 DEF Jobs, Form, Places, Recorder, AtWork, Installing, Recording
<1> HIDE DEF i
<1> QED BY <1>3, <1>4, <1>5, StepTyped, FilesTyped DEF Record

LEMMA ManifestTyped ==
    ASSUME TypeOK, Forms, NEW p \in Procs, OpenManifest(p) \/ WriteManifest(p)
    PROVE  TypeOK' /\ Forms'
<1>1. job[p] \in Jobs /\ Form(job[p])
    BY DEF TypeOK, Forms
<1>2. CASE OpenManifest(p)
    <2>1. job[p].pc = "openManifest" /\ Goto(p, "writeManifest")
        BY <1>2 DEF OpenManifest
    <2>2. Form([job[p] EXCEPT !.pc = "writeManifest"])
        BY <1>1, <2>1 DEF Jobs, Form, Places, Recorder, AtWork, Installing, Recording
    <2>3. manifest' \in [Sections -> [Names -> Dependency \cup {None}]]
        BY <1>2 DEF OpenManifest, EmptyManifest, NoDeps
    <2> QED BY <1>2, <2>1, <2>2, <2>3, GotoTyped, RestTyped, FilesTyped
            DEF OpenManifest, Recording
<1>3. CASE WriteManifest(p)
    <2>1. manifest' \in [Sections -> [Names -> Dependency \cup {None}]]
        BY <1>1, <1>3 DEF WriteManifest, Jobs
    <2>2. job' \in [Procs -> Jobs] /\ Forms'
        <3>0. job[p].pc = "writeManifest"
            BY <1>3 DEF WriteManifest
        <3>1. CASE Ends(p)
            BY <3>1, EndsTyped
        <3>2. CASE job[p].cmd = "remove" /\ Goto(p, "purge")
            <4>1. Form([job[p] EXCEPT !.pc = "purge"])
                BY <1>1, <3>0, <3>2 DEF Jobs, Form, Places, Recorder, AtWork, Installing, Recording
            <4> QED BY <3>2, <4>1, GotoTyped
        <3>3. CASE job[p].cmd # "remove" /\ FromSource(job[p].dep) /\ Goto(p, "lock")
            <4>1. Form([job[p] EXCEPT !.pc = "lock"])
                BY <1>1, <3>0, <3>3 DEF Jobs, Form, Places, Recorder, AtWork, Installing, Recording
            <4> QED BY <3>3, <4>1, GotoTyped DEF Recording
        <3> QED BY <1>3, <3>1, <3>2, <3>3 DEF WriteManifest
    <2> QED BY <1>3, <2>1, <2>2, RestTyped, FilesTyped DEF WriteManifest
<1> QED BY <1>2, <1>3

LEMMA LockTyped ==
    ASSUME TypeOK, Forms, NEW p \in Procs, Lock(p)
    PROVE  TypeOK' /\ Forms'
<1> DEFINE j == job[p]
           k == LockedDir(j.name, j.version)
<1>1. j \in Jobs /\ Form(j) /\ j.pc = "lock"
    BY DEF TypeOK, Forms, Lock
<1>2. CASE k = None
    BY <1>2, EndsTyped, RestTyped, FilesTyped DEF Lock
<1>3. CASE k # None
    <2>1. PICK sum \in Sha256(k) :
            LET entry == [version |-> j.version, sha256 |-> sum]
            IN  job' = [job EXCEPT ![p] =
                   IF j.cmd = "sync"
                   THEN [@ EXCEPT !.pc = "next", !.todo = Rest(j),
                                  !.entries = [j.entries EXCEPT ![j.name] = entry]]
                   ELSE [@ EXCEPT !.pc = "openLock",
                                  !.entries = [lock EXCEPT ![j.name] = entry]]]
        BY <1>3 DEF Lock
    <2>2. k = <<"workspace", j.name, j.version>> /\ k \in Listed("workspace")
        BY <1>3 DEF LockedDir, GetVersion
    <2>3. dirs[k] \in Directory /\ j.name \in Names /\ j.version \in Slots
        BY <2>2, ThereTyped DEF Listed, TypeOK
    <2>4. j.version \in Versions
        BY <1>1, <2>3, NoneIsNothing, TempsAreNoVersions DEF Jobs, Slots
    <2>5. sum \in Bundles \cup {None}
        BY <2>3 DEF Sha256, Directory
    <2> DEFINE entry == [version |-> j.version, sha256 |-> sum]
               before == IF j.cmd = "sync" THEN j.entries ELSE lock
               entries == [before EXCEPT ![j.name] = entry]
               i == IF j.cmd = "sync"
                    THEN [j EXCEPT !.pc = "next", !.todo = j.todo \ {j.name}, !.entries = entries]
                    ELSE [j EXCEPT !.pc = "openLock", !.entries = entries]
    <2>6. entries \in [Names -> Entry \cup {None}]
        <3>1. entry \in Entry /\ before \in [Names -> Entry \cup {None}]
            BY <1>1, <2>4, <2>5, FilesTyped DEF Entry, Jobs
        <3> HIDE DEF entry, before
        <3> QED BY <3>1
    <2>7. job' = [job EXCEPT ![p] = i]
        <3>1. CASE j.cmd = "sync"
            BY <2>1, <3>1 DEF Rest
        <3>2. CASE j.cmd # "sync"
            BY <2>1, <3>2
        <3> QED BY <3>1, <3>2
    <2> HIDE DEF entries, j
    <2>8. CASE j.cmd = "sync"
        <3> DEFINE rest == j.todo \ {j.name}
                   h == [j EXCEPT !.pc = "next", !.todo = rest, !.entries = entries]
        <3>1. i = h
            BY <2>8
        <3>2. rest \in SUBSET Names
            BY <1>1 DEF Jobs
        <3> HIDE DEF rest, i
        <3>3. h \in Jobs
            BY <1>1, <2>6, <3>2 DEF Jobs
        <3>4. Form(h)
            BY <1>1, <2>6, <2>8 DEF Jobs, Form, Places, Recorder, AtWork, Installing,
               Recording, rest
        <3> HIDE DEF h
        <3> QED BY <2>7, <3>1, <3>3, <3>4, StepTyped, FilesTyped DEF Lock
    <2>9. CASE j.cmd # "sync"
        <3> DEFINE h == [j EXCEPT !.pc = "openLock", !.entries = entries]
        <3>1. i = h
            BY <2>9
        <3> HIDE DEF i
        <3>2. h \in Jobs
            BY <1>1, <2>6 DEF Jobs
        <3>3. Form(h)
            BY <1>1, <2>6, <2>9 DEF Jobs, Form, Places, Recorder, AtWork, Installing, Recording
        <3> HIDE DEF h
        <3> QED BY <2>7, <3>1, <3>2, <3>3, StepTyped, FilesTyped DEF Lock
    <2> QED BY <2>8, <2>9
<1> QED BY <1>2, <1>3

LEMMA FinishTyped ==
    ASSUME TypeOK, Forms, NEW p \in Procs, Finish(p)
    PROVE  TypeOK' /\ Forms'
<1> DEFINE j == job[p]
           entries == [n \in Names |-> IF n \in j.known \cup ListedNames
                                       THEN j.entries[n] ELSE None]
           i == [j EXCEPT !.pc = "openLock", !.entries = entries]
<1>1. j \in Jobs /\ Form(j) /\ j.pc = "next" /\ j.todo = {}
    BY DEF TypeOK, Forms, Finish
<1>2. entries \in [Names -> Entry \cup {None}]
    BY <1>1 DEF Jobs
<1>3. job' = [job EXCEPT ![p] = i]
    BY DEF Finish
<1> HIDE DEF entries, j
<1>4. i \in Jobs
    BY <1>1, <1>2 DEF Jobs
<1>5. Form(i)
    BY <1>1, <1>2 DEF Jobs, Form, Places, Recorder, AtWork, Installing, Recording
<1> HIDE DEF i
<1> QED BY <1>3, <1>4, <1>5, StepTyped, FilesTyped DEF Finish

LEMMA LockFileTyped ==
    ASSUME TypeOK, Forms, NEW p \in Procs, OpenLock(p) \/ WriteLock(p)
    PROVE  TypeOK' /\ Forms'
<1>1. job[p] \in Jobs /\ Form(job[p])
    BY DEF TypeOK, Forms
<1>2. CASE OpenLock(p)
    <2>1. job[p].pc = "openLock" /\ Goto(p, "writeLock")
        BY <1>2 DEF OpenLock
    <2>2. Form([job[p] EXCEPT !.pc = "writeLock"])
        BY <1>1, <2>1 DEF Jobs, Form, Places, Recorder, AtWork, Installing, Recording
    <2>3. lock' \in [Names -> Entry \cup {None}]
        BY <1>2 DEF OpenLock, EmptyLock, NoDeps
    <2> QED BY <1>2, <2>1, <2>2, <2>3, GotoTyped, RestTyped, FilesTyped
            DEF OpenLock, Recording
<1>3. CASE WriteLock(p)
    <2>1. lock' \in [Names -> Entry \cup {None}]
        BY <1>1, <1>3 DEF WriteLock, Jobs
    <2> QED BY <1>3, <2>1, EndsTyped, RestTyped, FilesTyped DEF WriteLock
<1> QED BY <1>2, <1>3

LEMMA FaultTyped ==
    ASSUME TypeOK, Forms, NEW p \in Procs, Fault(p)
    PROVE  TypeOK' /\ Forms'
<1>1. job' \in [Procs -> Jobs] /\ Forms'
    BY EndsTyped DEF Fault
<1>2. dirs' \in [Stores \X Names \X Slots -> Directory \cup {None}]
    BY DirTyped, FilesTyped DEF Fault
<1>3. disturbed' \in [Procs -> BOOLEAN] /\ commands' \in Nat /\ faults' \in Nat
    <2>1. Disturbs(p) \/ UNCHANGED disturbed
        BY DEF Fault
    <2>2. disturbed' \in [Procs -> BOOLEAN]
        BY <2>1 DEF TypeOK, Disturbs
    <2> QED BY <2>2 DEF TypeOK, Fault
<1>4. stranded' \subseteq Stores \X Names \X Slots
    <2>1. CASE job[p].pc = "link"
        <3>1. job[p] \in Jobs /\ job[p].bytes \in Bundles
            BY <2>1 DEF TypeOK, Forms, Form
        <3> QED BY <2>1, <3>1, DestTyped DEF TypeOK, Fault
    <2>2. CASE job[p].pc # "link"
        BY <2>2 DEF TypeOK, Fault
    <2> QED BY <2>1, <2>2
<1> QED BY <1>1, <1>2, <1>3, <1>4 DEF TypeOK, Fault

LEMMA TypeNext ==
    ASSUME TypeOK, Forms, [Next]_vars
    PROVE  TypeOK' /\ Forms'
<1>1. CASE UNCHANGED vars
    BY <1>1 DEF vars, TypeOK, Forms
<1>2. CASE Repair
    BY <1>2, RepairTyped
<1>3. ASSUME NEW p \in Procs, Command(p) PROVE TypeOK' /\ Forms'
    <2>1. ASSUME NEW s \in Sections, NEW n \in Names, NEW d \in Dependency,
                 NEW r \in BOOLEAN, AddSource(p, s, n, d, r)
          PROVE  TypeOK' /\ Forms'
        BY <2>1, AddSourceTyped
    <2>2. ASSUME NEW s \in Sections, NEW n \in Names,
                 \/ Refresh(p, s, n)
                 \/ \E d \in Deps, r \in BOOLEAN :
                      AddFromGithub(p, s, n, d, r) \/ AddFromLocal(p, s, n, d, r)
          PROVE  TypeOK' /\ Forms'
        BY <2>1, <2>2, SourceCommands
    <2>3. ASSUME NEW s \in Sections, NEW n \in Names,
                 Remove(p, s, n) \/ \E d \in Deps : Add(p, s, n, d)
          PROVE  TypeOK' /\ Forms'
        BY <2>3, AddTyped, RemoveTyped
    <2>4. ASSUME \/ \E n \in Names : RemoveGlobal(p, n)
                 \/ \E s \in Stores, n \in Names, v \in Versions : Uninstall(p, s, n, v)
                 \/ \E s \in Stores, n \in Names, d \in Deps : Install(p, s, n, d)
                 \/ \E gs \in Selections, r \in BOOLEAN : Sync(p, gs, r)
          PROVE  TypeOK' /\ Forms'
        BY <2>4, RemoveGlobalTyped, UninstallTyped, InstallTyped, SyncTyped
    <2> QED BY <1>3, <2>2, <2>3, <2>4 DEF Command
<1>4. ASSUME NEW p \in Procs, Step(p) PROVE TypeOK' /\ Forms'
    BY <1>4, NextDepTyped, FetchTyped, RemoveFilesTyped, PurgedTyped, CheckTyped,
       ExtractTyped, RenameTyped, LinkTyped, RecordTyped, ManifestTyped, LockTyped,
       FinishTyped, LockFileTyped DEF Step
<1>5. ASSUME NEW p \in Procs, Fault(p) PROVE TypeOK' /\ Forms'
    BY <1>5, FaultTyped
<1> QED BY <1>1, <1>2, <1>3, <1>4, <1>5 DEF Next

-----------------------------------------------------------------------------
(***************************************************************************)
(* Installed directories are whole.                                        *)
(***************************************************************************)
Keys == Stores \X Names \X Slots
WholeAt(k) ==
  k[3] \in Versions /\ Exists(k) =>
    /\ NameOf[dirs[k].of] = k[2] /\ VersionOf[dirs[k].of] = k[3]
    /\ dirs[k].hurt \/ dirs[k].files = "whole"
    /\ \/ dirs[k].hurt \/ dirs[k].view \/ k \in stranded
       \/ \E p \in Procs : job[p].pc = "link" /\ Dest(job[p]) = k
FilledBy(p) ==
  Filling(p) /\ Exists(Temp(job[p])) =>
    /\ dirs[Temp(job[p])].of = job[p].bytes
    /\ job[p].pc = "rename" =>
         dirs[Temp(job[p])].hurt \/ dirs[Temp(job[p])].files = "whole"

LEMMA WholeEverywhere ==
    ASSUME TypeOK
    PROVE  InstalledWhole <=> \A k \in Keys : WholeAt(k)
BY DEF TypeOK, InstalledWhole, WholeAt, Keys

LEMMA WholeEverywhereNext ==
    ASSUME TypeOK', \A k \in Keys : WholeAt(k)'
    PROVE  InstalledWhole'
BY DEF TypeOK, InstalledWhole, WholeAt, Keys

LEMMA DirsTyped ==
    ASSUME TypeOK
    PROVE  /\ dirs \in [Keys -> Directory \cup {None}]
           /\ \A k \in Keys : Exists(k) => dirs[k] \in Directory
           /\ job \in [Procs -> Jobs] /\ faults \in Nat
BY DEF TypeOK, Keys, Exists

LEMMA VictimAt ==
    ASSUME TypeOK, Forms, NEW p \in Procs, NEW k \in Victims(p), job[p].pc = "purge"
    PROVE  k \in Keys /\ Exists(k)
BY VictimTyped DEF Keys

LEMMA TempAt ==
    ASSUME TypeOK, Forms, NEW p \in Procs, Filling(p)
    PROVE  /\ Temp(job[p]) \in Keys
           /\ Temp(job[p])[3] \notin Versions
<1>1. Temp(job[p]) \in Keys
    BY TempTyped DEF Keys
<1>2. job[p].tmp \in Temps
    BY DEF Forms, Form, Filling
<1> QED BY <1>1, <1>2, TempsAreNoVersions DEF Temp

\* A step of p that touches no directory and neither fills nor links one.
LEMMA ElsewhereKeepsWhole ==
    ASSUME TypeOK, Forms, Filled, Apart, InstalledWhole, TypeOK',
           NEW p \in Procs, NEW i, job' = [job EXCEPT ![p] = i],
           i.pc \notin {"extract", "rename"}, job[p].pc # "link",
           UNCHANGED <<dirs, stranded>>
    PROVE  Filled' /\ Apart' /\ InstalledWhole'
<1>1. \A q \in Procs : q # p => job'[q] = job[q]
    BY DEF TypeOK
<1>2. job'[p] = i
    BY DEF TypeOK
<1>3. Filled' /\ Apart'
    BY <1>1, <1>2 DEF Filled, Apart, Filling, Exists, Temp
<1>4. ASSUME NEW k \in Keys PROVE WholeAt(k)'
    <2>1. WholeAt(k)
        BY WholeEverywhere
    <2>2. \A q \in Procs : job[q].pc = "link" => q # p /\ job'[q] = job[q]
        BY <1>1
    <2> QED BY <2>1, <2>2 DEF WholeAt, Exists, Dest
<1> QED BY <1>3, <1>4, WholeEverywhereNext

LEMMA StartKeepsWhole ==
    ASSUME WholeInv, TypeOK', NEW p \in Procs, NEW j, Start(p, j),
           j.pc \notin {"extract", "rename"}
    PROVE  Filled' /\ Apart' /\ InstalledWhole'
BY ElsewhereKeepsWhole DEF WholeInv, Start

LEMMA CommandKeepsWhole ==
    ASSUME WholeInv, TypeOK', NEW p \in Procs, Command(p)
    PROVE  Filled' /\ Apart' /\ InstalledWhole'
<1>0. Idle \in Jobs
    BY IdleTyped
<1>1. ASSUME NEW s \in Sections, NEW n \in Names, NEW d \in Deps, Add(p, s, n, d)
      PROVE  Filled' /\ Apart' /\ InstalledWhole'
    <2> DEFINE j == [Idle EXCEPT !.cmd = "add", !.pc = "openManifest", !.section = s,
                 !.name = n, !.dep = d, !.doc = WithDep(manifest, s, n, d)]
    <2>1. Start(p, j) /\ j.pc = "openManifest"
        BY <1>0, <1>1 DEF Add, Idle
    <2> HIDE DEF j
    <2> QED BY <2>1, StartKeepsWhole
<1>2. ASSUME NEW s \in Sections, NEW n \in Names, NEW d, NEW r \in BOOLEAN,
             AddSource(p, s, n, d, r)
      PROVE  Filled' /\ Apart' /\ InstalledWhole'
    <2> DEFINE j == [Idle EXCEPT !.cmd = "add", !.section = s, !.name = n, !.dep = d,
                 !.version = d.version, !.reinstall = r,
                 !.pc = IF ~r /\ IsInstalled(n, d.version) THEN "record" ELSE "fetch"]
    <2>1. Start(p, j) /\ j.pc \in {"record", "fetch"}
        BY <1>0, <1>2 DEF AddSource, Idle
    <2> HIDE DEF j
    <2> QED BY <2>1, StartKeepsWhole
<1>3. ASSUME NEW s \in Sections, NEW n \in Names, Remove(p, s, n)
      PROVE  Filled' /\ Apart' /\ InstalledWhole'
    <2> DEFINE j == [Idle EXCEPT !.cmd = "remove", !.pc = "openManifest", !.name = n,
                 !.doc = WithDep(manifest, s, n, None)]
    <2>1. Start(p, j) /\ j.pc = "openManifest"
        BY <1>0, <1>3 DEF Remove, Idle
    <2> HIDE DEF j
    <2> QED BY <2>1, StartKeepsWhole
<1>4. ASSUME NEW n \in Names, RemoveGlobal(p, n)
      PROVE  Filled' /\ Apart' /\ InstalledWhole'
    <2> DEFINE j == [Idle EXCEPT !.cmd = "remove", !.pc = "purge", !.name = n,
                 !.store = "global"]
    <2>1. Start(p, j) /\ j.pc = "purge"
        BY <1>0, <1>4 DEF RemoveGlobal, Idle
    <2> HIDE DEF j
    <2> QED BY <2>1, StartKeepsWhole
<1>5. ASSUME NEW s \in Stores, NEW n \in Names, NEW v \in Versions, Uninstall(p, s, n, v)
      PROVE  Filled' /\ Apart' /\ InstalledWhole'
    <2> DEFINE j == [Idle EXCEPT !.cmd = "uninstall", !.pc = "purge", !.name = n,
                 !.version = v, !.store = s]
    <2>1. Start(p, j) /\ j.pc = "purge"
        BY <1>0, <1>5 DEF Uninstall, Idle
    <2> HIDE DEF j
    <2> QED BY <2>1, StartKeepsWhole
<1>6. ASSUME NEW s \in Stores, NEW n \in Names, NEW d \in Deps, Install(p, s, n, d)
      PROVE  Filled' /\ Apart' /\ InstalledWhole'
    <2> DEFINE j == [Idle EXCEPT !.cmd = "install", !.pc = "fetch", !.name = n, !.dep = d,
                 !.version = d.version, !.store = s]
    <2>1. Start(p, j) /\ j.pc = "fetch"
        BY <1>0, <1>6 DEF Install, Idle
    <2> HIDE DEF j
    <2> QED BY <2>1, StartKeepsWhole
<1>7. ASSUME NEW gs \in Selections, NEW r \in BOOLEAN, Sync(p, gs, r)
      PROVE  Filled' /\ Apart' /\ InstalledWhole'
    <2> DEFINE j == [Idle EXCEPT !.cmd = "sync", !.pc = "next", !.groups = gs,
                     !.deps = Select(manifest, gs), !.todo = Selected(Select(manifest, gs)),
                     !.known = Known(manifest), !.entries = lock, !.reinstall = r]
    <2>1. Start(p, j) /\ j.pc = "next"
        BY <1>0, <1>7 DEF Sync, Idle
    <2> HIDE DEF j
    <2> QED BY <2>1, StartKeepsWhole
<1>8. \A s \in Sections, n \in Names :
         /\ \A d \in Deps, r \in BOOLEAN :
              AddFromGithub(p, s, n, d, r) \/ AddFromLocal(p, s, n, d, r) =>
                AddSource(p, s, n, d, r)
         /\ Refresh(p, s, n) => \E d : AddSource(p, s, n, d, TRUE)
    BY SourceCommands DEF WholeInv
<1> QED BY <1>1, <1>2, <1>3, <1>4, <1>5, <1>6, <1>7, <1>8 DEF Command

\* A step of p that moves it, without directories, to a place where nothing is
\* filled: most of its steps.
LEMMA QuietKeepsWhole ==
    ASSUME WholeInv, TypeOK', NEW p \in Procs, UNCHANGED <<dirs, stranded>>,
           job[p].pc # "link", job' = [job EXCEPT ![p] = job'[p]],
           job'[p].pc \notin {"extract", "rename"}
    PROVE  Filled' /\ Apart' /\ InstalledWhole'
BY ElsewhereKeepsWhole DEF WholeInv

LEMMA QuietSteps ==
    ASSUME WholeInv, NEW p \in Procs,
           \/ NextDep(p) \/ Fetch(p) \/ Purged(p) \/ Record(p)
           \/ OpenManifest(p) \/ WriteManifest(p)
           \/ Lock(p) \/ Finish(p) \/ OpenLock(p) \/ WriteLock(p)
    PROVE  /\ UNCHANGED <<dirs, stranded>> /\ job[p].pc # "link"
           /\ job' = [job EXCEPT ![p] = job'[p]]
           /\ job'[p].pc \notin {"extract", "rename"}
<1>1. job \in [Procs -> Jobs] /\ job[p] \in Jobs /\ Idle.pc = "idle"
    BY DEF WholeInv, TypeOK, Idle
<1>2. CASE NextDep(p)
    BY <1>1, <1>2 DEF NextDep, Keeps, Jobs
<1>3. CASE Fetch(p)
    <2>1. UNCHANGED <<dirs, stranded>> /\ job[p].pc = "fetch"
        BY <1>3 DEF Fetch, Keeps
    <2>2. CASE Ends(p)
        BY <1>1, <2>1, <2>2 DEF Ends
    <2>3. CASE ~Ends(p)
        <3>1. PICK b \in Offer(job[p]) :
                job' = [job EXCEPT ![p] = [@ EXCEPT !.bytes = b,
                         !.pc = IF FromSource(job[p].dep) THEN "purge" ELSE "check"]]
            BY <1>3, <2>3 DEF Fetch
        <3> DEFINE to == IF FromSource(job[p].dep) THEN "purge" ELSE "check"
                   i == [job[p] EXCEPT !.bytes = b, !.pc = to]
        <3>2. job' = [job EXCEPT ![p] = i] /\ i.pc = to /\ to \in {"purge", "check"}
            BY <1>1, <3>1 DEF Jobs
        <3> HIDE DEF i, to
        <3> QED BY <1>1, <2>1, <3>2
    <2> QED BY <2>2, <2>3
<1>4. CASE Purged(p)
    BY <1>1, <1>4 DEF Purged, Keeps, Jobs, Ends, Goto
<1>5. CASE Record(p)
    BY <1>1, <1>5 DEF Record, Keeps, Jobs
<1>6. CASE OpenManifest(p) \/ WriteManifest(p)
    BY <1>1, <1>6 DEF OpenManifest, WriteManifest, Keeps, Jobs, Ends, Goto
<1>7. CASE Lock(p)
    <2>1. UNCHANGED <<dirs, stranded>> /\ job[p].pc = "lock"
        BY <1>7 DEF Lock, Keeps
    <2>2. Ends(p) \/ \E i : job' = [job EXCEPT ![p] = i] /\ i.pc \in {"next", "openLock"}
        <3> SUFFICES ASSUME ~Ends(p)
                     PROVE  \E i : job' = [job EXCEPT ![p] = i] /\ i.pc \in {"next", "openLock"}
            OBVIOUS
        <3> DEFINE j == job[p]
                   entry(sum) == [version |-> j.version, sha256 |-> sum]
                   synced(sum) == [j EXCEPT !.pc = "next", !.todo = Rest(j),
                                     !.entries = [j.entries EXCEPT ![j.name] = entry(sum)]]
                   added(sum) == [j EXCEPT !.pc = "openLock",
                                     !.entries = [lock EXCEPT ![j.name] = entry(sum)]]
        <3>1. PICK sum \in Sha256(LockedDir(j.name, j.version)) :
                    job' = [job EXCEPT ![p] = IF j.cmd = "sync" THEN synced(sum) ELSE added(sum)]
            BY <1>7 DEF Lock
        <3>2. synced(sum).pc = "next" /\ added(sum).pc = "openLock"
            BY <1>1 DEF Jobs
        <3> HIDE DEF synced, added
        <3> QED BY <3>1, <3>2
    <2> QED BY <1>1, <2>1, <2>2 DEF Ends
<1>8. CASE Finish(p)
    BY <1>1, <1>8 DEF Finish, Keeps, Jobs
<1>9. CASE OpenLock(p) \/ WriteLock(p)
    BY <1>1, <1>9 DEF OpenLock, WriteLock, Keeps, Jobs, Ends, Goto
<1> QED BY <1>2, <1>3, <1>4, <1>5, <1>6, <1>7, <1>8, <1>9

\* What is removed is hurt first.
LEMMA RemovalKeepsWhole ==
    ASSUME WholeInv, TypeOK', NEW p \in Procs, RemoveFiles(p) \/ RemoveDir(p)
    PROVE  Filled' /\ Apart' /\ InstalledWhole'
<1>1. job' = job /\ stranded' = stranded
    BY DEF RemoveFiles, RemoveDir, Keeps
<1>2. PICK k \in Keys :
        /\ Exists(k)
        /\ \A l \in Keys : l # k => dirs'[l] = dirs[l]
        /\ \/ dirs'[k] = None
           \/ Exists(k)' /\ dirs'[k].of = dirs[k].of /\ dirs'[k].hurt = TRUE
    <2>1. CASE RemoveFiles(p)
        <3>1. PICK k \in Victims(p), left \in {"part", "bare"} :
                dirs' = [dirs EXCEPT ![k] = [dirs[k] EXCEPT !.files = left, !.hurt = TRUE]]
            BY <2>1 DEF RemoveFiles
        <3>2. k \in Keys /\ Exists(k) /\ dirs[k] \in Directory
            BY <2>1, VictimAt, VictimTyped DEF WholeInv, RemoveFiles
        <3>3. /\ dirs'[k] = [dirs[k] EXCEPT !.files = left, !.hurt = TRUE]
              /\ \A l \in Keys : l # k => dirs'[l] = dirs[l]
            BY <3>1, <3>2, DirsTyped DEF WholeInv
        <3>4. dirs'[k] \in Directory /\ dirs'[k].of = dirs[k].of /\ dirs'[k].hurt = TRUE
            BY <3>2, <3>3 DEF Directory
        <3>5. Exists(k)'
            BY <3>4, NoneIsNothing DEF Exists
        <3> QED BY <3>2, <3>3, <3>4, <3>5
    <2>2. CASE RemoveDir(p)
        <3>1. PICK k \in Victims(p) : dirs' = [dirs EXCEPT ![k] = None]
            BY <2>2 DEF RemoveDir
        <3>2. k \in Keys /\ Exists(k)
            BY <2>2, VictimAt DEF WholeInv, RemoveDir
        <3> QED BY <3>1, <3>2, DirsTyped DEF WholeInv
    <2> QED BY <2>1, <2>2
<1>3. Filled'
    <2> SUFFICES ASSUME NEW q \in Procs, Filling(q), Exists(Temp(job[q]))'
                 PROVE  FilledBy(q)'
        BY <1>1 DEF Filled, FilledBy, Filling
    <2>1. FilledBy(q) /\ Temp(job[q]) \in Keys
        BY TempAt DEF WholeInv, Filled, FilledBy
    <2> QED BY <1>1, <1>2, <2>1 DEF FilledBy, Exists, Filling
<1>4. Apart'
    BY <1>1 DEF WholeInv, Apart, Filling
<1>5. ASSUME NEW l \in Keys PROVE WholeAt(l)'
    <2>1. WholeAt(l)
        BY WholeEverywhere DEF WholeInv
    <2> QED BY <1>1, <1>2, <2>1 DEF WholeAt, Exists
<1> QED BY <1>3, <1>4, <1>5, WholeEverywhereNext

\* A temporary directory is new, and goes to a command that fills it alone.
LEMMA CheckKeepsWhole ==
    ASSUME WholeInv, TypeOK', NEW p \in Procs, Check(p)
    PROVE  Filled' /\ Apart' /\ InstalledWhole'
<1>1. /\ job \in [Procs -> Jobs] /\ job[p] \in Jobs /\ Form(job[p]) /\ job[p].pc = "check"
      /\ job[p].bytes \in Bundles /\ stranded' = stranded
    BY DEF WholeInv, TypeOK, Forms, Form, Check, Keeps
<1>2. CASE Exists(Dest(job[p]))
    <2>1. UNCHANGED dirs /\ job' = [job EXCEPT ![p] = Idle]
        BY <1>2 DEF Check, Ends
    <2>2. Idle.pc = "idle"
        BY DEF Idle
    <2> QED BY <1>1, <2>1, <2>2, ElsewhereKeepsWhole DEF WholeInv
<1>3. CASE ~Exists(Dest(job[p]))
    <2>1. PICK t \in Temps :
            /\ Free(job[p], t)
            /\ dirs' = [dirs EXCEPT ![Temp([job[p] EXCEPT !.tmp = t])] = NewDir(job[p].bytes)]
            /\ job' = [job EXCEPT ![p] = [@ EXCEPT !.tmp = t, !.pc = "extract"]]
        BY <1>3 DEF Check, Fresh
    <2> DEFINE i == [job[p] EXCEPT !.tmp = t, !.pc = "extract"]
               k == Temp(i)
    <2>2. /\ i.tmp = t /\ i.pc = "extract" /\ i.bytes = job[p].bytes /\ i.store = job[p].store
          /\ k = Temp([job[p] EXCEPT !.tmp = t])
        BY <1>1 DEF Jobs, Temp
    <2>3. /\ job' = [job EXCEPT ![p] = i] /\ dirs' = [dirs EXCEPT ![k] = NewDir(job[p].bytes)]
          /\ \A q \in Procs : Filling(q) => Temp(job[q]) # k
        BY <2>1, <2>2 DEF Free
    <2>4. k \in Keys /\ k[3] = t
        BY <1>1, <2>2, BundlesAreNamed DEF Temp, Jobs, Keys, Slots
    <2> HIDE DEF i, k
    <2>5. /\ \A q \in Procs : q # p => job'[q] = job[q]
          /\ job'[p] = i /\ Temp(job'[p]) = k
          /\ \A l \in Keys : l # k => dirs'[l] = dirs[l]
          /\ dirs'[k] = NewDir(job[p].bytes)
        BY <2>3, <2>4, <1>1, DirsTyped DEF WholeInv, k
    <2>6. Filled'
        <3> SUFFICES ASSUME NEW q \in Procs, Filling(q)', Exists(Temp(job[q]))'
                     PROVE  FilledBy(q)'
            BY DEF Filled, FilledBy
        <3>1. CASE q = p
            BY <3>1, <2>2, <2>5 DEF FilledBy, NewDir
        <3>2. CASE q # p
            <4>1. FilledBy(q) /\ Filling(q) /\ Temp(job[q]) \in Keys /\ Temp(job[q]) # k
                BY <3>2, <2>3, <2>5, TempAt DEF WholeInv, Filled, FilledBy, Filling
            <4> QED BY <3>2, <4>1, <2>5 DEF FilledBy, Exists, Filling
        <3> QED BY <3>1, <3>2
    <2>7. Apart'
        BY <2>3, <2>5 DEF WholeInv, Apart, Filling
    <2>8. ASSUME NEW l \in Keys PROVE WholeAt(l)'
        <3>1. CASE l = k
            BY <3>1, <2>4, TempsAreNoVersions DEF WholeAt
        <3>2. CASE l # k
            <4>1. WholeAt(l) /\ dirs'[l] = dirs[l]
                BY <3>2, <2>5, WholeEverywhere DEF WholeInv
            <4>2. \A q \in Procs : job[q].pc = "link" => job'[q] = job[q]
                BY <1>1, <2>5
            <4> QED BY <1>1, <4>1, <4>2 DEF WholeAt, Exists
        <3> QED BY <3>1, <3>2
    <2> QED BY <2>6, <2>7, <2>8, WholeEverywhereNext
<1> QED BY <1>2, <1>3

\* Whoever extracts, extracts into a directory of its own.
LEMMA ExtractKeepsWhole ==
    ASSUME WholeInv, TypeOK', NEW p \in Procs,
           ExtractManifest(p) \/ ExtractRest(p) \/ ExtractAgain(p)
    PROVE  Filled' /\ Apart' /\ InstalledWhole'
<1> DEFINE k == Temp(job[p])
<1>1. /\ job \in [Procs -> Jobs] /\ job[p] \in Jobs /\ job[p].pc = "extract"
      /\ stranded' = stranded /\ Filling(p)
    BY DEF WholeInv, TypeOK, ExtractManifest, ExtractRest, ExtractAgain, Keeps, Filling
<1>2. k \in Keys /\ k[3] \notin Versions
    BY <1>1, TempAt DEF WholeInv
<1>3. /\ \A q \in Procs : q # p => job'[q] = job[q]
      /\ job'[p].bytes = job[p].bytes /\ Temp(job'[p]) = k
      /\ job'[p].pc = "rename" \/ job'[p] = job[p]
    BY <1>1 DEF ExtractManifest, ExtractRest, ExtractAgain, Goto, Jobs, Temp
<1>4. /\ \A l \in Keys : l # k => dirs'[l] = dirs[l]
      /\ dirs'[k].of = job[p].bytes
      /\ job'[p].pc = "rename" => dirs'[k].hurt \/ dirs'[k].files = "whole"
    <2>1. FilledBy(p) /\ dirs \in [Keys -> Directory \cup {None}]
        BY DirsTyped DEF WholeInv, Filled, FilledBy
    <2>2. CASE ExtractManifest(p)
        <3>1. /\ Exists(k) /\ dirs' = [dirs EXCEPT ![k] = [dirs[k] EXCEPT !.files = "part"]]
              /\ job' = job
            BY <2>2 DEF ExtractManifest
        <3>2. dirs[k] \in Directory /\ dirs[k].of = job[p].bytes
            BY <1>1, <1>2, <2>1, <3>1, DirsTyped DEF WholeInv, FilledBy
        <3>3. dirs'[k].of = dirs[k].of
            BY <3>1, <3>2, <2>1, <1>2 DEF Directory
        <3> HIDE DEF k
        <3> QED BY <1>1, <2>1, <3>1, <3>2, <3>3
    <2>3. CASE ExtractRest(p)
        <3>1. /\ Exists(k)
              /\ dirs' = IF dirs[k].hurt THEN dirs
                         ELSE [dirs EXCEPT ![k] = [dirs[k] EXCEPT !.files = "whole"]]
            BY <2>3 DEF ExtractRest
        <3>2. dirs[k] \in Directory /\ dirs[k].of = job[p].bytes
            BY <1>1, <1>2, <2>1, <3>1, DirsTyped DEF WholeInv, FilledBy
        <3> HIDE DEF k
        <3>3. CASE dirs[k].hurt
            BY <3>1, <3>2, <3>3
        <3>4. CASE ~dirs[k].hurt
            <4>1. dirs' = [dirs EXCEPT ![k] = [dirs[k] EXCEPT !.files = "whole"]]
                BY <3>1, <3>4
            <4>2. dirs'[k] = [dirs[k] EXCEPT !.files = "whole"]
                BY <4>1, <2>1, <1>2
            <4>3. dirs'[k].of = dirs[k].of /\ dirs'[k].files = "whole"
                BY <4>2, <3>2 DEF Directory
            <4> QED BY <4>1, <4>3, <2>1, <3>2
        <3> QED BY <3>3, <3>4
    <2>4. CASE ExtractAgain(p)
        <3>1. dirs' = [dirs EXCEPT ![k] = [NewDir(job[p].bytes) EXCEPT !.hurt = TRUE]]
            BY <2>4 DEF ExtractAgain
        <3> DEFINE new == [NewDir(job[p].bytes) EXCEPT !.hurt = TRUE]
        <3>2. new.of = job[p].bytes /\ new.hurt
            BY DEF NewDir
        <3> HIDE DEF new, k
        <3> QED BY <1>2, <2>1, <3>1, <3>2 DEF new
    <2> QED BY <2>2, <2>3, <2>4
<1> HIDE DEF k
<1>5. Filled'
    <2> SUFFICES ASSUME NEW q \in Procs, Filling(q)', Exists(Temp(job[q]))'
                 PROVE  FilledBy(q)'
        BY DEF Filled, FilledBy
    <2>1. CASE q = p
        BY <2>1, <1>1, <1>3, <1>4 DEF FilledBy
    <2>2. CASE q # p
        <3>1. FilledBy(q) /\ Filling(q) /\ Temp(job[q]) \in Keys /\ Temp(job[q]) # k
            BY <2>2, <1>1, <1>3, TempAt DEF WholeInv, Filled, FilledBy, Filling, Apart, k
        <3> QED BY <2>2, <3>1, <1>3, <1>4 DEF FilledBy, Exists, Filling
    <2> QED BY <2>1, <2>2
<1>6. Apart'
    BY <1>1, <1>3 DEF WholeInv, Apart, Filling, k
<1>7. ASSUME NEW l \in Keys PROVE WholeAt(l)'
    <2>1. CASE l = k
        BY <2>1, <1>2 DEF WholeAt
    <2>2. CASE l # k
        <3>1. WholeAt(l) /\ dirs'[l] = dirs[l]
            BY <2>2, <1>4, WholeEverywhere DEF WholeInv
        <3>2. \A q \in Procs : job[q].pc = "link" => job'[q] = job[q]
            BY <1>1, <1>3
        <3> QED BY <1>1, <3>1, <3>2 DEF WholeAt, Exists
    <2> QED BY <2>1, <2>2
<1> QED BY <1>5, <1>6, <1>7, WholeEverywhereNext

\* What is renamed is what its command has filled, and whole.
LEMMA RenameKeepsWhole ==
    ASSUME WholeInv, TypeOK', NEW p \in Procs, Rename(p)
    PROVE  Filled' /\ Apart' /\ InstalledWhole'
<1> DEFINE from == Temp(job[p])
           to == Dest(job[p])
<1>1. /\ job \in [Procs -> Jobs] /\ job[p] \in Jobs /\ Form(job[p]) /\ job[p].pc = "rename"
      /\ job[p].bytes \in Bundles /\ Filling(p)
    BY DEF WholeInv, TypeOK, Forms, Form, Rename, Filling
<1>2. CASE Ends(p) /\ UNCHANGED <<dirs, stranded>>
    <2>1. Idle.pc = "idle"
        BY DEF Idle
    <2> QED BY <1>1, <1>2, <2>1, ElsewhereKeepsWhole DEF WholeInv, Ends
<1>3. CASE ~(Ends(p) /\ UNCHANGED <<dirs, stranded>>)
    <2>1. /\ Exists(from) /\ dirs' = [dirs EXCEPT ![to] = dirs[from], ![from] = None]
          /\ job' = [job EXCEPT ![p].pc = "link"] /\ stranded' = stranded \ {to}
        BY <1>3 DEF Rename, Goto
    <2>2. /\ from \in Keys /\ from[3] \notin Versions
          /\ to \in Keys /\ to[3] \in Versions /\ to # from
        BY <1>1, TempAt, DestTyped, BundlesAreNamed DEF WholeInv, Keys, Dest
    <2>3. /\ dirs[from].of = job[p].bytes
          /\ dirs[from].hurt \/ dirs[from].files = "whole"
        BY <1>1, <2>1 DEF WholeInv, Filled
    <2>4. /\ \A q \in Procs : q # p => job'[q] = job[q]
          /\ job'[p].pc = "link" /\ Dest(job'[p]) = to
        BY <1>1, <2>1 DEF Jobs, Dest
    <2> HIDE DEF from, to
    <2>5. /\ \A l \in Keys : l # from /\ l # to => dirs'[l] = dirs[l]
          /\ dirs'[to] = dirs[from] /\ dirs'[from] = None
        <3>1. dirs \in [Keys -> Directory \cup {None}]
            BY DirsTyped DEF WholeInv
        <3> QED BY <2>1, <2>2, <3>1
    <2>6. Filled'
        <3> SUFFICES ASSUME NEW q \in Procs, Filling(q)', Exists(Temp(job[q]))'
                     PROVE  FilledBy(q)'
            BY DEF Filled, FilledBy
        <3>1. q # p
            BY <2>4 DEF Filling
        <3>2. FilledBy(q) /\ Filling(q) /\ Temp(job[q]) \in Keys /\ Temp(job[q]) # from
            BY <3>1, <1>1, <2>4, TempAt DEF WholeInv, Filled, FilledBy, Filling, Apart, from
        <3>3. Temp(job[q]) # to
            BY <2>2, <3>2, TempAt DEF WholeInv
        <3> QED BY <2>4, <2>5, <3>1, <3>2, <3>3 DEF FilledBy, Exists, Filling
    <2>7. Apart'
        BY <2>4 DEF WholeInv, Apart, Filling
    <2>8. ASSUME NEW l \in Keys PROVE WholeAt(l)'
        <3>1. CASE l = from
            BY <3>1, <2>2 DEF WholeAt
        <3>2. CASE l = to
            <4>1. to[2] = NameOf[job[p].bytes] /\ to[3] = VersionOf[job[p].bytes]
                BY DEF to, Dest
            <4>2. dirs'[l] = dirs[from]
                BY <2>5, <3>2
            <4>3. (\E q \in Procs : job[q].pc = "link" /\ Dest(job[q]) = l)'
                BY <2>4, <3>2 DEF Dest
            <4>4. /\ NameOf[dirs'[l].of] = l[2] /\ VersionOf[dirs'[l].of] = l[3]
                  /\ dirs'[l].hurt \/ dirs'[l].files = "whole"
                BY <3>2, <4>1, <4>2, <2>3
            <4> QED BY <4>3, <4>4 DEF WholeAt
        <3>3. CASE l # from /\ l # to
            <4>1. WholeAt(l) /\ dirs'[l] = dirs[l]
                BY <3>3, <2>5, WholeEverywhere DEF WholeInv
            <4>2. \A q \in Procs : job[q].pc = "link" => job'[q] = job[q]
                BY <1>1, <2>4
            <4> QED BY <1>1, <2>1, <3>3, <4>1, <4>2 DEF WholeAt, Exists
        <3> QED BY <3>1, <3>2, <3>3
    <2> QED BY <2>6, <2>7, <2>8, WholeEverywhereNext
<1> QED BY <1>2, <1>3

\* Giving a directory its view changes nothing else of it.
LEMMA LinkedAt ==
    ASSUME TypeOK, NEW k \in Keys, dirs' \in Linked(k)
    PROVE  /\ \A l \in Keys : l # k => dirs'[l] = dirs[l]
           /\ Exists(k)' <=> Exists(k)
           /\ Exists(k) =>
                /\ dirs'[k].of = dirs[k].of /\ dirs'[k].files = dirs[k].files
                /\ dirs'[k].hurt = dirs[k].hurt
                /\ dirs[k].view => dirs'[k].view
                /\ dirs[k].files = "whole" => dirs'[k].view
<1>1. CASE dirs' = dirs /\ (Exists(k) => dirs[k].files # "whole")
    BY <1>1 DEF Exists
<1>2. CASE ~(dirs' = dirs /\ (Exists(k) => dirs[k].files # "whole"))
    <2>1. Exists(k) /\ dirs' = [dirs EXCEPT ![k] = [dirs[k] EXCEPT !.view = TRUE]]
        BY <1>2 DEF Linked
    <2>2. dirs[k] \in Directory /\ dirs \in [Keys -> Directory \cup {None}]
        BY <2>1, DirsTyped
    <2>3. /\ \A l \in Keys : l # k => dirs'[l] = dirs[l]
          /\ dirs'[k] = [dirs[k] EXCEPT !.view = TRUE]
        BY <2>1, <2>2
    <2>4. /\ dirs'[k].of = dirs[k].of /\ dirs'[k].files = dirs[k].files
          /\ dirs'[k].hurt = dirs[k].hurt /\ dirs'[k].view /\ dirs'[k] \in Directory
        BY <2>2, <2>3 DEF Directory
    <2>5. Exists(k)'
        BY <2>4, NoneIsNothing DEF Exists
    <2> QED BY <2>1, <2>3, <2>4, <2>5
<1> QED BY <1>1, <1>2

LEMMA LinkedKeepsFilled ==
    ASSUME WholeInv, NEW k \in Keys, dirs' \in Linked(k),
           \A q \in Procs : Filling(q)' => job'[q] = job[q]
    PROVE  Filled' /\ Apart'
<1>1. Filled'
    <2> SUFFICES ASSUME NEW q \in Procs, Filling(q)', Exists(Temp(job[q]))'
                 PROVE  FilledBy(q)'
        BY DEF Filled, FilledBy
    <2>1. FilledBy(q) /\ Filling(q) /\ job'[q] = job[q] /\ Temp(job[q]) \in Keys
        BY TempAt DEF WholeInv, Filled, FilledBy, Filling
    <2> QED BY <2>1, LinkedAt DEF WholeInv, FilledBy, Exists, Filling
<1>2. Apart'
    BY DEF WholeInv, Apart, Filling
<1> QED BY <1>1, <1>2

LEMMA LinkKeepsWhole ==
    ASSUME WholeInv, TypeOK', NEW p \in Procs, Link(p)
    PROVE  Filled' /\ Apart' /\ InstalledWhole'
<1> DEFINE k == Dest(job[p])
<1>1. /\ job \in [Procs -> Jobs] /\ job[p] \in Jobs /\ job[p].pc = "link"
      /\ job[p].bytes \in Bundles /\ stranded' = stranded /\ dirs' \in Linked(k)
    BY DEF WholeInv, TypeOK, Forms, Form, Link, Keeps
<1>2. k \in Keys
    BY <1>1, DestTyped DEF Keys
<1>3. AfterInstall(job[p]).pc \in {"idle", "record", "lock"}
    BY <1>1 DEF AfterInstall, Idle, Jobs
<1>4. /\ \A q \in Procs : q # p => job'[q] = job[q]
      /\ job'[p].pc \in {"idle", "record", "lock"}
    BY <1>1, <1>3 DEF Link
<1> HIDE DEF k
<1>5. Filled' /\ Apart'
    <2>1. \A q \in Procs : Filling(q)' => job'[q] = job[q]
        BY <1>4 DEF Filling
    <2> QED BY <1>1, <1>2, <2>1, LinkedKeepsFilled
<1>6. ASSUME NEW l \in Keys PROVE WholeAt(l)'
    <2>1. WholeAt(l)
        BY WholeEverywhere DEF WholeInv
    <2>2. CASE l = k
        BY <2>1, <2>2, <1>1, <1>2, LinkedAt DEF WholeInv, WholeAt
    <2>3. CASE l # k
        <3>1. dirs'[l] = dirs[l]
            BY <2>3, <1>1, <1>2, LinkedAt DEF WholeInv
        <3>2. \A q \in Procs : job[q].pc = "link" /\ Dest(job[q]) = l => job'[q] = job[q]
            BY <2>3, <1>4 DEF k
        <3> QED BY <1>1, <2>1, <3>1, <3>2 DEF WholeAt, Exists
    <2> QED BY <2>2, <2>3
<1> QED BY <1>5, <1>6, WholeEverywhereNext

LEMMA RepairKeepsWhole ==
    ASSUME WholeInv, TypeOK', Repair
    PROVE  Filled' /\ Apart' /\ InstalledWhole'
<1>1. PICK k \in ListAll : dirs' \in Linked(k)
    BY DEF Repair
<1>2. k \in Keys /\ job' = job /\ stranded' = stranded
    BY DEF ListAll, Listed, WholeInv, TypeOK, Keys, Repair, Keeps
<1>3. Filled' /\ Apart'
    BY <1>1, <1>2, LinkedKeepsFilled
<1>4. ASSUME NEW l \in Keys PROVE WholeAt(l)'
    <2>1. WholeAt(l)
        BY WholeEverywhere DEF WholeInv
    <2>2. CASE l = k
        BY <2>1, <2>2, <1>1, <1>2, LinkedAt DEF WholeInv, WholeAt
    <2>3. CASE l # k
        <3>1. dirs'[l] = dirs[l]
            BY <2>3, <1>1, <1>2, LinkedAt DEF WholeInv
        <3> QED BY <1>2, <2>1, <3>1 DEF WholeAt, Exists
    <2> QED BY <2>2, <2>3
<1> QED BY <1>3, <1>4, WholeEverywhereNext

LEMMA FaultKeepsWhole ==
    ASSUME WholeInv, TypeOK', NEW p \in Procs, Fault(p)
    PROVE  Filled' /\ Apart' /\ InstalledWhole'
<1>1. /\ job \in [Procs -> Jobs] /\ stranded \subseteq stranded'
      /\ job[p].pc = "link" => Dest(job[p]) \in stranded'
      /\ job' = [job EXCEPT ![p] = Idle] /\ Idle.pc = "idle"
    BY DEF WholeInv, TypeOK, Fault, Ends, Idle
<1>2. \A q \in Procs : q # p => job'[q] = job[q]
    BY <1>1
<1>3. \E k : \A l \in Keys : dirs'[l] = dirs[l] \/ (l = k /\ dirs'[l] = None /\
                \A q \in Procs : q # p /\ Filling(q) => Temp(job[q]) # k)
    <2>1. CASE UNCHANGED dirs
        BY <2>1
    <2>2. CASE job[p].pc = "extract" /\ dirs' = [dirs EXCEPT ![Temp(job[p])] = None]
        <3> DEFINE k == Temp(job[p])
        <3>1. k \in Keys /\ \A q \in Procs : q # p /\ Filling(q) => Temp(job[q]) # k
            BY <2>2, TempAt DEF WholeInv, Apart, Filling
        <3>2. dirs \in [Keys -> Directory \cup {None}] /\ dirs' = [dirs EXCEPT ![k] = None]
            BY <2>2, DirsTyped DEF WholeInv
        <3> HIDE DEF k
        <3> QED BY <3>1, <3>2
    <2> QED BY <2>1, <2>2 DEF Fault
<1>4. Filled'
    <2> SUFFICES ASSUME NEW q \in Procs, Filling(q)', Exists(Temp(job[q]))'
                 PROVE  FilledBy(q)'
        BY DEF Filled, FilledBy
    <2>1. q # p
        BY <1>1 DEF Filling
    <2>2. FilledBy(q) /\ Filling(q) /\ Temp(job[q]) \in Keys /\ job'[q] = job[q]
        BY <2>1, <1>2, TempAt DEF WholeInv, Filled, FilledBy, Filling
    <2>3. dirs'[Temp(job[q])] = dirs[Temp(job[q])]
        BY <1>3, <2>1, <2>2 DEF Exists
    <2> QED BY <2>2, <2>3 DEF FilledBy, Exists, Filling
<1>5. Apart'
    BY <1>1, <1>2 DEF WholeInv, Apart, Filling
<1>6. ASSUME NEW l \in Keys PROVE WholeAt(l)'
    <2>1. WholeAt(l)
        BY WholeEverywhere DEF WholeInv
    <2> QED BY <1>1, <1>2, <1>3, <2>1 DEF WholeAt, Exists
<1> QED BY <1>4, <1>5, <1>6, WholeEverywhereNext

LEMMA WholeInit == Init => WholeInv
<1> SUFFICES ASSUME Init PROVE WholeInv
    OBVIOUS
<1>1. TypeOK /\ Forms
    BY TypeInit
<1>2. \A p \in Procs : ~Filling(p)
    BY DEF Init, Filling, Idle
<1>3. \A k \in DOMAIN dirs : ~Exists(k)
    BY DEF Init, Exists
<1> QED BY <1>1, <1>2, <1>3 DEF WholeInv, Filled, Apart, InstalledWhole

LEMMA WholeNext == WholeInv /\ [Next]_vars => WholeInv'
<1> SUFFICES ASSUME WholeInv, [Next]_vars PROVE WholeInv'
    OBVIOUS
<1>1. TypeOK' /\ Forms'
    BY TypeNext DEF WholeInv
<1>2. CASE UNCHANGED vars
    BY <1>1, <1>2 DEF vars, WholeInv, Filled, Apart, InstalledWhole, Filling, Exists
<1>3. CASE Repair
    BY <1>1, <1>3, RepairKeepsWhole DEF WholeInv
<1>4. ASSUME NEW p \in Procs, Command(p) PROVE WholeInv'
    BY <1>1, <1>4, CommandKeepsWhole DEF WholeInv
<1>5. ASSUME NEW p \in Procs, Step(p) PROVE WholeInv'
    <2>1. CASE RemoveFiles(p) \/ RemoveDir(p)
        BY <1>1, <2>1, RemovalKeepsWhole DEF WholeInv
    <2>2. CASE Check(p)
        BY <1>1, <2>2, CheckKeepsWhole DEF WholeInv
    <2>3. CASE ExtractManifest(p) \/ ExtractRest(p) \/ ExtractAgain(p)
        BY <1>1, <2>3, ExtractKeepsWhole DEF WholeInv
    <2>4. CASE Rename(p)
        BY <1>1, <2>4, RenameKeepsWhole DEF WholeInv
    <2>5. CASE Link(p)
        BY <1>1, <2>5, LinkKeepsWhole DEF WholeInv
    <2>6. CASE \/ NextDep(p) \/ Fetch(p) \/ Purged(p) \/ Record(p)
               \/ OpenManifest(p) \/ WriteManifest(p)
               \/ Lock(p) \/ Finish(p) \/ OpenLock(p) \/ WriteLock(p)
        BY <1>1, <2>6, QuietSteps, QuietKeepsWhole DEF WholeInv
    <2> QED BY <1>5, <2>1, <2>2, <2>3, <2>4, <2>5, <2>6 DEF Step
<1>6. ASSUME NEW p \in Procs, Fault(p) PROVE WholeInv'
    BY <1>1, <1>6, FaultKeepsWhole DEF WholeInv
<1> QED BY <1>2, <1>3, <1>4, <1>5, <1>6 DEF Next

\* Every reachable state of stores, files and commands has the form the code
\* can give it, and every command is where its kind of command can be.
THEOREM TypeCorrect == Spec => []TypeOK
<1>1. WholeInv => TypeOK
    BY DEF WholeInv
<1> QED BY <1>1, WholeInit, WholeNext, PTL DEF Spec

\* Whatever commands run at the same time and wherever they fail or are killed,
\* what lies under a version's name is that version and whole (store.rs:193-231).
THEOREM InstallsWhole == Spec => []InstalledWhole
<1>1. WholeInv => InstalledWhole
    BY DEF WholeInv
<1> QED BY <1>1, WholeInit, WholeNext, PTL DEF Spec

-----------------------------------------------------------------------------
(***************************************************************************)
(* A list that is made once resolves a name as the stores do.              *)
(***************************************************************************)
LEMMA LastOfOne ==
    ASSUME NEW k
    PROVE  LastOf({k}) = k
BY DEF LastOf

\* What is listed of one store is what the whole list has of it.
LEMMA ListOfStore ==
    ASSUME NEW s \in {"workspace", "global"}
    PROVE  Listed(s) = {k \in ListAll : k[1] = s}
BY DEF ListAll, Listed

LEMMA ExactIsGetVersion ==
    ASSUME NEW s \in {"workspace", "global"}, NEW n, NEW v
    PROVE  Exact(ListAll, n, v, s) = GetVersion(s, n, v)
<1> DEFINE x == <<s, n, v>>
           K == {k \in ListAll : k = x}
<1>1. x[1] = s
    OBVIOUS
<1>2. CASE x \in Listed(s)
    <2>1. K = {x}
        BY <1>2, ListOfStore
    <2> QED BY <1>2, <2>1, LastOfOne DEF Exact, GetVersion
<1>3. CASE x \notin Listed(s)
    <2>1. K = {}
        BY <1>1, <1>3, ListOfStore
    <2> QED BY <1>3, <2>1 DEF Exact, GetVersion, LastOf
<1> QED BY <1>2, <1>3

LEMMA NameOnlyIsResolveBundle ==
    ASSUME NEW n
    PROVE  NameOnly(ListAll, n) = ResolveBundle(n)
<1>1. ASSUME NEW s \in {"workspace", "global"}
      PROVE  LastOf({k \in ListAll : k[2] = n /\ k[1] = s}) = Get(s, n)
    <2>1. {k \in ListAll : k[2] = n /\ k[1] = s} = {k \in Listed(s) : k[2] = n}
        BY ListOfStore
    <2> QED BY <2>1 DEF Get
<1> QED BY <1>1 DEF NameOnly, ResolveBundle

\* A package named with or without its version is resolved to the same bundle
\* from an enumerated list as from the stores (store.rs:491-540), whatever lies in
\* the two and in whatever order read_dir delivers it.
THEOREM ResolvesAlike == Spec => []ResolutionAgrees
<1>1. ResolutionAgrees
    BY ExactIsGetVersion, NameOnlyIsResolveBundle
       DEF ResolutionAgrees, ResolveSpec, ResolveSpecIn
<1> QED BY <1>1, PTL

-----------------------------------------------------------------------------
(***************************************************************************)
(* Manifest, lock and store agree when a command that recorded ends.       *)
(***************************************************************************)
\* A dependency written into [dependencies] is what a selection has of it, and
\* changes nothing of the others.
LEMMA SelectWritten ==
    ASSUME NEW m \in [Sections -> [Names -> Dependency \cup {None}]], NEW gs \in Seq(Groups),
           NEW n \in Names, NEW d \in Dependency
    PROVE  /\ Select(WithDep(m, Main, n, d), gs)[n] = d
           /\ \A l \in Names : l # n => Select(WithDep(m, Main, n, d), gs)[l] = Select(m, gs)[l]
<1> DEFINE w == WithDep(m, Main, n, d)
<1>1. w[Main][n] = d /\ d # None
    BY NoneIsNothing DEF WithDep, Sections
<1>2. \A s \in Sections, l \in Names : l # n => w[s][l] = m[s][l]
    BY DEF WithDep
<1>3. \A i \in DOMAIN gs : gs[i] \in Sections
    BY DEF Sections
<1> HIDE DEF w
<1>4. Select(w, gs)[n] = d
    BY <1>1 DEF Select
<1>5. ASSUME NEW l \in Names, l # n
      PROVE  Select(w, gs)[l] = Select(m, gs)[l]
    <2> DEFINE having == {i \in DOMAIN gs : m[gs[i]][l] # None}
               first == CHOOSE i \in having : \A j \in having : i <= j
    <2>1. w[Main][l] = m[Main][l]
        BY <1>2, <1>5 DEF Sections
    <2>2. \A i \in DOMAIN gs : w[gs[i]][l] = m[gs[i]][l]
        BY <1>2, <1>3, <1>5
    <2>3. {i \in DOMAIN gs : w[gs[i]][l] # None} = having
        BY <2>2
    <2>4. CASE having = {} \/ m[Main][l] # None
        BY <2>1, <2>3, <2>4 DEF Select
    <2>5. CASE having # {} /\ m[Main][l] = None
        <3>1. first \in having
            <4>1. PICK k \in Nat : DOMAIN gs = 1 .. k
                OBVIOUS
            <4>2. having \subseteq 1 .. k
                BY <4>1
            <4> HIDE DEF having
            <4>3. \E i \in having : \A j \in having : i <= j
                BY <4>2, <2>5, LeastIndex
            <4> QED BY <4>3
        <3>2. w[gs[first]][l] = m[gs[first]][l]
            BY <2>2, <3>1
        <3> QED BY <2>1, <2>3, <2>5, <3>2 DEF Select
    <2> QED BY <2>4, <2>5
<1> QED BY <1>4, <1>5 DEF w

LEMMA IdleIsNone ==
    ASSUME Forms, NEW p \in Procs
    PROVE  job[p].pc = "idle" => job[p].cmd = "none"
BY DEF Forms, Form, Places, Installing, Recording

\* What a command does, another one is disturbed by or does not see.
LEMMA StartApart ==
    ASSUME TypeOK, NEW p \in Procs, NEW q \in Procs, p # q, NEW j, Start(q, j)
    PROVE  /\ job'[p] = job[p] /\ disturbed'[p] = disturbed[p]
           /\ UNCHANGED <<dirs, manifest>>
BY DEF Start, TypeOK

LEMMA CommandApart ==
    ASSUME TypeOK, NEW p \in Procs, NEW q \in Procs, p # q, Command(q)
    PROVE  /\ job'[p] = job[p] /\ disturbed'[p] = disturbed[p]
           /\ UNCHANGED <<dirs, manifest>>
<1>1. \E j : Start(q, j)
    <2>1. ASSUME NEW s, NEW n, NEW d, NEW r, AddSource(q, s, n, d, r)
          PROVE  \E j : Start(q, j)
        BY <2>1 DEF AddSource
    <2>2. ASSUME NEW s, NEW n, NEW d, Add(q, s, n, d) PROVE \E j : Start(q, j)
        BY <2>2 DEF Add
    <2> QED BY <2>1, <2>2 DEF Command, AddFromGithub, AddFromLocal, Refresh, Remove,
            RemoveGlobal, Uninstall, Install, Sync
<1> QED BY <1>1, StartApart

LEMMA StepApart ==
    ASSUME TypeOK, NEW p \in Procs, NEW q \in Procs, p # q, Step(q) \/ Fault(q)
    PROVE  /\ job'[p] = job[p]
           /\ \/ disturbed'[p] = (disturbed[p] \/ job[p].pc # "idle")
              \/ disturbed'[p] = disturbed[p] /\ UNCHANGED <<dirs, manifest>>
<1>1. job \in [Procs -> Jobs] /\ disturbed \in [Procs -> BOOLEAN]
    BY DEF TypeOK
<1>2. \/ job' = job
      \/ \E i : job' = [job EXCEPT ![q] = i]
    <2>1. CASE Lock(q)
        <3>1. CASE Ends(q)
            BY <3>1 DEF Ends
        <3>2. CASE ~Ends(q)
            BY <2>1, <3>2 DEF Lock
        <3> QED BY <3>1, <3>2
    <2>2. CASE Fetch(q)
        <3>1. CASE Ends(q)
            BY <3>1 DEF Ends
        <3>2. CASE ~Ends(q)
            BY <2>2, <3>2 DEF Fetch
        <3> QED BY <3>1, <3>2
    <2>3. CASE NextDep(q) \/ Finish(q)
        BY <2>3 DEF NextDep, Finish
    <2>4. CASE RemoveFiles(q) \/ RemoveDir(q) \/ Purged(q) \/ Link(q) \/ Record(q)
        BY <2>4 DEF RemoveFiles, RemoveDir, Purged, Link, Record, Goto, Ends
    <2>5. CASE Check(q) \/ ExtractManifest(q) \/ ExtractRest(q) \/ ExtractAgain(q) \/ Rename(q)
        BY <2>5 DEF Check, ExtractManifest, ExtractRest, ExtractAgain, Rename, Goto, Ends
    <2>6. CASE OpenManifest(q) \/ WriteManifest(q) \/ OpenLock(q) \/ WriteLock(q) \/ Fault(q)
        BY <2>6 DEF OpenManifest, WriteManifest, OpenLock, WriteLock, Fault, Goto, Ends
    <2> QED BY <2>1, <2>2, <2>3, <2>4, <2>5, <2>6 DEF Step
<1>3. job'[p] = job[p]
    BY <1>1, <1>2
<1>4. Disturbs(q) \/ UNCHANGED <<dirs, manifest, disturbed>>
    BY DEF Step, NextDep, Fetch, RemoveFiles, RemoveDir, Purged, Check, ExtractManifest,
           ExtractRest, ExtractAgain, Rename, Link, Record, OpenManifest, WriteManifest,
           Lock, Finish, OpenLock, WriteLock, Fault
<1> QED BY <1>1, <1>3, <1>4 DEF Disturbs

LEMMA StockUnchanged ==
    ASSUME UNCHANGED dirs
    PROVE  UNCHANGED Stock
BY DEF Stock, Listed, Exists, Sha256

LEMMA AgreesUnchanged ==
    ASSUME NEW p \in Procs, AgreesWith(p), job'[p] = job[p],
           disturbed'[p] = disturbed[p], UNCHANGED <<dirs, manifest>>
    PROVE  AgreesWith(p)'
BY StockUnchanged DEF AgreesWith

LEMMA OthersAgree ==
    ASSUME TypeOK, Forms, NEW p \in Procs, NEW q \in Procs, p # q, AgreesWith(p),
           Command(q) \/ Step(q) \/ Fault(q)
    PROVE  AgreesWith(p)'
<1>1. CASE job[p].pc = "idle"
    <2>1. job'[p] = job[p] /\ job[p].cmd = "none"
        BY <1>1, IdleIsNone, CommandApart, StepApart
    <2> QED BY <2>1 DEF AgreesWith, Agrees
<1>2. CASE job[p].pc # "idle"
    <2>1. CASE disturbed'[p]
        BY <2>1 DEF AgreesWith
    <2>2. CASE ~disturbed'[p]
        <3>1. job'[p] = job[p] /\ disturbed'[p] = disturbed[p] /\ UNCHANGED <<dirs, manifest>>
            BY <1>2, <2>2, CommandApart, StepApart
        <3> QED BY <3>1, AgreesUnchanged
    <2> QED BY <2>1, <2>2
<1> QED BY <1>1, <1>2

-----------------------------------------------------------------------------
(***************************************************************************)
(* How a command goes on agreeing, whatever the files are.                 *)
(***************************************************************************)
Writing == {"openManifest", "writeManifest", "lock"}

LEMMA AgreesBefore ==
    ASSUME NEW i, NEW m, NEW stock, i.cmd # "sync",
           i.cmd = "add" /\ FromSource(i.dep) =>
             i.pc \notin Writing \cup {"openLock", "writeLock"}
    PROVE  Agrees(i, m, stock)
BY DEF Agrees, AddAgrees, Writing

\* On the way of a sync to its next dependency, or to the end.
LEMMA SyncGoesOn ==
    ASSUME NEW j, NEW i, NEW m, NEW stock, NEW after, SyncAgrees(j, m, stock),
           j.deps \in [Names -> Dependency \cup {None}],
           i.deps = j.deps, i.todo = j.todo, i.groups = j.groups, i.entries = j.entries,
           j.pc \notin Writing, i.pc \notin Writing,
           \A b \in stock : b[1] \in Selected(j.deps) \ j.todo => b \in after
    PROVE  SyncAgrees(i, m, after)
<1> DEFINE asked == Select(m, j.groups)
<1>1. Asking(j, m) = m /\ Asking(i, m) = m
    BY DEF Asking, Writing
<1>2. /\ \A n \in Selected(j.deps) \ j.todo : Settled(j, stock, n, asked[n])
      /\ \A n \in j.todo : asked[n] = j.deps[n]
    BY <1>1 DEF SyncAgrees, Writing
<1> HIDE DEF asked
<1>3. ASSUME NEW n \in Selected(j.deps) \ j.todo
      PROVE  Settled(i, after, n, asked[n])
    <2> DEFINE b == <<n, asked[n].version, j.entries[n].sha256>>
    <2>1. b \in stock /\ b[1] = n
        BY <1>2 DEF Settled
    <2>2. b \in after
        BY <2>1
    <2> QED BY <1>2, <2>2 DEF Settled
<1> QED BY <1>1, <1>2, <1>3 DEF SyncAgrees, Writing, asked

\* To the lock, without a word in the manifest.
LEMMA SyncToLock ==
    ASSUME NEW j, NEW i, NEW m, NEW stock, SyncAgrees(j, m, stock),
           i.deps = j.deps, i.todo = j.todo, i.groups = j.groups, i.entries = j.entries,
           j.pc \notin Writing, i.pc = "lock",
           i.name \in j.todo, j.deps[i.name] \in Dependency,
           ~FromSource(Resolved(j.deps[i.name])),
           i.version = Resolved(j.deps[i.name]).version
    PROVE  SyncAgrees(i, m, stock)
<1> DEFINE asked == Select(m, j.groups)
<1>1. Asking(j, m) = m /\ Asking(i, m) = m
    BY DEF Asking, Writing
<1>2. /\ \A n \in Selected(j.deps) \ j.todo : Settled(j, stock, n, asked[n])
      /\ \A n \in j.todo : asked[n] = j.deps[n]
    BY <1>1 DEF SyncAgrees, Writing
<1>3. Resolved(j.deps[i.name]) = j.deps[i.name]
    BY ResolvedTyped DEF FromSource
<1> HIDE DEF asked
<1>4. \A n \in Selected(j.deps) \ j.todo : Settled(i, stock, n, asked[n])
    BY <1>2 DEF Settled
<1> QED BY <1>1, <1>2, <1>3, <1>4 DEF SyncAgrees, Writing, asked

\* A resolved dependency is about to be written into the manifest.
LEMMA SyncToManifest ==
    ASSUME NEW j \in Jobs, Form(j), NEW i, NEW m, NEW stock, SyncAgrees(j, m, stock),
           j.cmd = "sync", j.pc = "record",
           m \in [Sections -> [Names -> Dependency \cup {None}]],
           i = [j EXCEPT !.pc = "openManifest",
                         !.doc = WithDep(m, j.section, j.name, EntryOf(j))]
    PROVE  SyncAgrees(i, m, stock)
<1> DEFINE asked == Select(m, j.groups)
           doc == WithDep(m, Main, j.name, j.dep)
           asks == Select(doc, j.groups)
<1>1. /\ j.name \in j.todo /\ j.name \in Names /\ j.section = Main
      /\ j.dep \in Dependency /\ j.version = j.dep.version
      /\ j.groups \in Seq(Groups) /\ j.todo \subseteq Names
      /\ EntryOf(j) = j.dep
    <2>1. j.name \in j.todo /\ j.section = Main /\ j.version = j.dep.version
        BY DEF Form, AtWork
    <2>2. j.deps[j.name] \in Dependency /\ j.dep = Resolved(j.deps[j.name])
        BY DEF Form, AtWork, Selected, Jobs
    <2> QED BY <2>1, <2>2, ResolvedTyped, RecordsAsAsked DEF Jobs
<1>2. /\ i.pc = "openManifest" /\ i.doc = doc /\ i.deps = j.deps /\ i.todo = j.todo
      /\ i.groups = j.groups /\ i.entries = j.entries /\ i.name = j.name
      /\ i.dep = j.dep /\ i.version = j.version
    BY <1>1 DEF Jobs
<1>3. Asking(j, m) = m /\ Asking(i, m) = doc
    BY <1>2 DEF Asking
<1>4. /\ asks[j.name] = j.dep
      /\ \A l \in Names : l # j.name => asks[l] = asked[l]
    BY <1>1, SelectWritten
<1>5. /\ \A n \in Selected(j.deps) \ j.todo : Settled(j, stock, n, asked[n])
      /\ \A n \in j.todo : asked[n] = j.deps[n]
    BY <1>3 DEF SyncAgrees, Writing
<1> HIDE DEF asked, doc, asks
<1>6. ASSUME NEW n \in Selected(j.deps) \ j.todo
      PROVE  Settled(i, stock, n, asks[n])
    <2>1. n \in Names /\ n # j.name
        BY <1>1 DEF Selected
    <2> QED BY <2>1, <1>2, <1>4, <1>5 DEF Settled
<1>7. \A n \in i.todo : asks[n] = i.deps[n] \/ (n = i.name /\ asks[n] = i.dep)
    <2> SUFFICES ASSUME NEW n \in j.todo
                 PROVE  asks[n] = j.deps[n] \/ (n = j.name /\ asks[n] = j.dep)
        BY <1>2
    <2>1. n \in Names /\ asked[n] = j.deps[n]
        BY <1>1, <1>5
    <2> QED BY <2>1, <1>4
<1>8. asks = Select(Asking(i, m), i.groups)
    BY <1>2, <1>3 DEF asks
<1>9. \A n \in Selected(i.deps) \ i.todo : Settled(i, stock, n, asks[n])
    BY <1>2, <1>6
<1>10. asks[i.name].version = i.version
    BY <1>1, <1>2, <1>4
<1>11. \A n \in i.todo : \/ asks[n] = i.deps[n]
                        \/ /\ n = i.name /\ asks[n] = i.dep
                           /\ i.pc \in {"openManifest", "writeManifest", "lock"}
    BY <1>2, <1>7
<1> QED BY <1>8, <1>9, <1>10, <1>11, Zenon DEF SyncAgrees

\* While the manifest is written.
LEMMA SyncWrites ==
    ASSUME NEW j, NEW i, NEW m, NEW n, NEW stock, SyncAgrees(j, m, stock),
           i.deps = j.deps, i.todo = j.todo, i.groups = j.groups, i.entries = j.entries,
           i.name = j.name, i.dep = j.dep, i.version = j.version,
           j.pc \in Writing, i.pc \in Writing, Asking(i, n) = Asking(j, m)
    PROVE  SyncAgrees(i, n, stock)
BY DEF SyncAgrees, Writing, Settled

\* What is locked is what is asked for and what is installed.
LEMMA SyncLocks ==
    ASSUME NEW j \in Jobs, Form(j), NEW i, NEW m, NEW stock, NEW sum, SyncAgrees(j, m, stock),
           j.cmd = "sync", j.pc = "lock", j.version # None,
           <<j.name, j.version, sum>> \in stock,
           i = [j EXCEPT !.pc = "next", !.todo = j.todo \ {j.name},
                  !.entries = [j.entries EXCEPT ![j.name] =
                                 [version |-> j.version, sha256 |-> sum]]],
           [version |-> j.version, sha256 |-> sum] # None
    PROVE  SyncAgrees(i, m, stock)
<1> DEFINE asked == Select(m, j.groups)
           entry == [version |-> j.version, sha256 |-> sum]
           entries == [j.entries EXCEPT ![j.name] = entry]
<1>1. /\ j.name \in j.todo /\ j.todo \subseteq Selected(j.deps) /\ j.name \in Names
      /\ j.deps[j.name] \in Dependency /\ j.dep \in Dependency
      /\ j.entries \in [Names -> Entry \cup {None}]
    <2>1. j.name \in j.todo /\ j.todo \subseteq Selected(j.deps)
        BY DEF Form, AtWork
    <2>2. j.deps[j.name] \in Dependency /\ j.dep = Resolved(j.deps[j.name])
        BY DEF Form, AtWork, Selected, Jobs
    <2> QED BY <2>1, <2>2, ResolvedTyped DEF Jobs
<1>2. /\ i.pc = "next" /\ i.todo = j.todo \ {j.name} /\ i.entries = entries
      /\ i.deps = j.deps /\ i.groups = j.groups
    BY DEF Jobs
<1>3. Asking(j, m) = m /\ Asking(i, m) = m
    BY <1>2 DEF Asking
<1>4. /\ \A n \in Selected(j.deps) \ j.todo : Settled(j, stock, n, asked[n])
      /\ \A n \in j.todo : asked[n] = j.deps[n] \/ (n = j.name /\ asked[n] = j.dep)
      /\ asked[j.name].version = j.version
    BY <1>3 DEF SyncAgrees
<1>5. /\ entries[j.name] = entry
      /\ \A n \in Names : n # j.name => entries[n] = j.entries[n]
    BY <1>1
<1>6. entry.version = j.version /\ entry.sha256 = sum /\ entry # None
    OBVIOUS
<1> HIDE DEF asked, entries, entry
<1>7. asked[j.name] # None
    BY <1>1, <1>4, NoneIsNothing
<1>8. ASSUME NEW n \in Selected(i.deps) \ i.todo
      PROVE  Settled(i, stock, n, asked[n])
    <2>1. CASE n = j.name
        BY <2>1, <1>2, <1>4, <1>5, <1>6, <1>7 DEF Settled
    <2>2. CASE n # j.name
        <3>1. n \in Names /\ Settled(j, stock, n, asked[n])
            BY <2>2, <1>2, <1>4 DEF Selected
        <3> QED BY <2>2, <3>1, <1>2, <1>5 DEF Settled
    <2> QED BY <2>1, <2>2
<1>9. \A n \in i.todo : asked[n] = i.deps[n]
    BY <1>2, <1>4
<1>10. asked = Select(Asking(i, m), i.groups)
    BY <1>2, <1>3 DEF asked
<1> QED BY <1>2, <1>8, <1>9, <1>10 DEF SyncAgrees

\* No entry that is settled is dropped at the end.
LEMMA SyncDrops ==
    ASSUME NEW j \in Jobs, NEW i, NEW m, NEW stock, NEW kept, SyncAgrees(j, m, stock),
           j.pc = "next", \A b \in stock : b[1] \in kept,
           i = [j EXCEPT !.pc = "openLock",
                  !.entries = [n \in Names |-> IF n \in kept THEN j.entries[n] ELSE None]]
    PROVE  SyncAgrees(i, m, stock)
<1> DEFINE asked == Select(m, j.groups)
           entries == [n \in Names |-> IF n \in kept THEN j.entries[n] ELSE None]
<1>1. /\ i.pc = "openLock" /\ i.todo = j.todo /\ i.entries = entries
      /\ i.deps = j.deps /\ i.groups = j.groups
    BY DEF Jobs
<1>2. Asking(j, m) = m /\ Asking(i, m) = m
    BY <1>1 DEF Asking
<1>3. /\ \A n \in Selected(j.deps) \ j.todo : Settled(j, stock, n, asked[n])
      /\ \A n \in j.todo : asked[n] = j.deps[n]
    BY <1>2 DEF SyncAgrees
<1> HIDE DEF asked
<1>4. ASSUME NEW n \in Selected(j.deps) \ j.todo
      PROVE  Settled(i, stock, n, asked[n])
    <2> DEFINE b == <<n, asked[n].version, j.entries[n].sha256>>
    <2>1. b \in stock /\ b[1] = n /\ n \in Names
        BY <1>3 DEF Settled, Selected
    <2>2. n \in kept
        BY <2>1
    <2>3. entries[n] = j.entries[n]
        BY <2>1, <2>2
    <2> HIDE DEF entries
    <2> QED BY <1>1, <1>3, <2>3 DEF Settled
<1> HIDE DEF entries
<1> QED BY <1>1, <1>2, <1>3, <1>4 DEF SyncAgrees, asked

-----------------------------------------------------------------------------
(***************************************************************************)
(* What the steps of a command leave of the stock.                         *)
(***************************************************************************)
At(b) == <<"workspace", b[1], b[2]>>

LEMMA StockAt ==
    ASSUME TypeOK, NEW b \in Stock
    PROVE  /\ At(b) \in Keys /\ Exists(At(b)) /\ dirs[At(b)].files # "bare"
           /\ At(b)[2] = b[1] /\ At(b)[3] \in Versions
BY DEF Stock, Listed, TypeOK, Keys, At

LEMMA StockKept ==
    ASSUME TypeOK, TypeOK', NEW b \in Stock, dirs'[At(b)] # None,
           dirs'[At(b)].of = dirs[At(b)].of, dirs'[At(b)].files = dirs[At(b)].files
    PROVE  b \in Stock'
<1>1. At(b) \in Keys /\ dirs[At(b)].files # "bare"
    BY StockAt
<1>2. At(b) \in Listed("workspace")'
    BY <1>1 DEF Listed, TypeOK, Exists, At, Keys
<1>3. b[3] \in Sha256(At(b)) /\ b \in Names \X Versions \X (Bundles \cup {None})
    BY DEF Stock, At
<1>4. b[3] \in Sha256(At(b))'
    BY <1>3 DEF Sha256, At
<1> QED BY <1>2, <1>3, <1>4 DEF Stock, At

LEMMA StockKeptAt ==
    ASSUME TypeOK, TypeOK', NEW b \in Stock, dirs'[At(b)] = dirs[At(b)]
    PROVE  b \in Stock'
BY StockAt, StockKept DEF Exists

\* A removal by sync takes one version of the dependency at work.
LEMMA RemovalKeepsStock ==
    ASSUME TypeOK, Forms, TypeOK', NEW p \in Procs, RemoveFiles(p) \/ RemoveDir(p)
    PROVE  \A b \in Stock : b[1] # job[p].name => b \in Stock'
<1>1. PICK k \in Victims(p) : \A l \in Keys : l # k => dirs'[l] = dirs[l]
    <2>1. CASE RemoveFiles(p)
        <3>1. PICK k \in Victims(p), left \in {"part", "bare"} :
                dirs' = [dirs EXCEPT ![k] = [dirs[k] EXCEPT !.files = left, !.hurt = TRUE]]
            BY <2>1 DEF RemoveFiles
        <3> QED BY <3>1, DirsTyped
    <2>2. CASE RemoveDir(p)
        <3>1. PICK k \in Victims(p) : dirs' = [dirs EXCEPT ![k] = None]
            BY <2>2 DEF RemoveDir
        <3> QED BY <3>1, DirsTyped
    <2> QED BY <2>1, <2>2
<1>2. k[2] = job[p].name
    BY DEF Victims
<1>3. ASSUME NEW b \in Stock, b[1] # job[p].name PROVE b \in Stock'
    <2>1. At(b) \in Keys /\ At(b) # k
        BY <1>2, <1>3, StockAt
    <2> QED BY <1>1, <2>1, StockKeptAt
<1> QED BY <1>3

LEMMA CheckKeepsStock ==
    ASSUME TypeOK, Forms, TypeOK', NEW p \in Procs, Check(p)
    PROVE  Stock \subseteq Stock'
<1> SUFFICES ASSUME NEW b \in Stock PROVE b \in Stock'
    OBVIOUS
<1>1. CASE UNCHANGED dirs
    BY <1>1, StockKeptAt
<1>2. CASE ~UNCHANGED dirs
    <2>1. PICK t \in Temps :
            dirs' = [dirs EXCEPT ![Temp([job[p] EXCEPT !.tmp = t])] = NewDir(job[p].bytes)]
        BY <1>2 DEF Check, Fresh
    <2> DEFINE k == Temp([job[p] EXCEPT !.tmp = t])
    <2>2. k[3] = t
        BY DEF Temp, TypeOK, Jobs
    <2>3. At(b) # k /\ At(b) \in Keys
        BY <2>2, StockAt, TempsAreNoVersions
    <2>4. dirs' = [dirs EXCEPT ![k] = NewDir(job[p].bytes)]
        BY <2>1
    <2> HIDE DEF k
    <2>5. dirs'[At(b)] = dirs[At(b)]
        BY <2>3, <2>4, DirsTyped
    <2> QED BY <2>5, StockKeptAt
<1> QED BY <1>1, <1>2

LEMMA ExtractKeepsStock ==
    ASSUME TypeOK, Forms, TypeOK', NEW p \in Procs,
           ExtractManifest(p) \/ ExtractRest(p) \/ ExtractAgain(p)
    PROVE  Stock \subseteq Stock'
<1> SUFFICES ASSUME NEW b \in Stock PROVE b \in Stock'
    OBVIOUS
<1> DEFINE k == Temp(job[p])
<1>1. At(b) # k /\ At(b) \in Keys
    BY StockAt, TempAt DEF Filling, ExtractManifest, ExtractRest, ExtractAgain
<1>2. dirs' = dirs \/ \E d : dirs' = [dirs EXCEPT ![k] = d]
    BY DEF ExtractManifest, ExtractRest, ExtractAgain
<1> HIDE DEF k
<1>3. dirs'[At(b)] = dirs[At(b)]
    BY <1>1, <1>2, DirsTyped
<1> QED BY <1>3, StockKeptAt

\* A directory that is replaced by a rename was not listed.
LEMMA RenameKeepsStock ==
    ASSUME TypeOK, Forms, TypeOK', NEW p \in Procs, Rename(p)
    PROVE  Stock \subseteq Stock'
<1> SUFFICES ASSUME NEW b \in Stock PROVE b \in Stock'
    OBVIOUS
<1> DEFINE from == Temp(job[p])
           to == Dest(job[p])
<1>1. CASE UNCHANGED dirs
    BY <1>1, StockKeptAt
<1>2. CASE ~UNCHANGED dirs
    <2>1. /\ dirs' = [dirs EXCEPT ![to] = dirs[from], ![from] = None]
          /\ Exists(to) => dirs[to].files = "bare"
        BY <1>2 DEF Rename
    <2>2. At(b) # from /\ At(b) \in Keys /\ Exists(At(b)) /\ dirs[At(b)].files # "bare"
        BY StockAt, TempAt DEF Filling, Rename
    <2> HIDE DEF from, to
    <2>3. At(b) # to
        BY <2>1, <2>2
    <2>4. dirs'[At(b)] = dirs[At(b)]
        BY <2>1, <2>2, <2>3, DirsTyped
    <2> QED BY <2>4, StockKeptAt
<1> QED BY <1>1, <1>2

LEMMA LinkKeepsStock ==
    ASSUME TypeOK, Forms, TypeOK', NEW p \in Procs, Link(p)
    PROVE  Stock \subseteq Stock'
<1> SUFFICES ASSUME NEW b \in Stock PROVE b \in Stock'
    OBVIOUS
<1> DEFINE k == Dest(job[p])
<1>1. k \in Keys /\ dirs' \in Linked(k)
    BY DestTyped DEF Link, Keys, TypeOK, Forms, Form
<1>2. At(b) \in Keys /\ Exists(At(b))
    BY StockAt
<1> HIDE DEF k
<1>3. /\ dirs'[At(b)] # None /\ dirs'[At(b)].of = dirs[At(b)].of
      /\ dirs'[At(b)].files = dirs[At(b)].files
    BY <1>1, <1>2, LinkedAt DEF Exists
<1> QED BY <1>3, StockKept

LEMMA NamesInStock ==
    ASSUME NEW b \in Stock
    PROVE  b[1] \in ListedNames
BY DEF Stock, ListedNames, Listed

-----------------------------------------------------------------------------
(***************************************************************************)
(* The steps of a command keep it in agreement.                            *)
(***************************************************************************)
InStep(p) == Agrees(job[p], manifest, Stock)
Far == {"idle", "next", "fetch", "purge", "check", "extract", "rename", "link", "record"}

LEMMA EndAgrees ==
    ASSUME TypeOK, NEW p \in Procs, Ends(p)
    PROVE  InStep(p)'
<1>1. job'[p] = Idle
    BY DEF Ends, TypeOK
<1>2. Idle.cmd = "none"
    BY DEF Idle
<1> QED BY <1>1, <1>2 DEF InStep, Agrees

LEMMA FarAgrees ==
    ASSUME NEW j \in Jobs, NEW i, NEW m, NEW stock, NEW after, Agrees(j, m, stock),
           i.cmd = j.cmd, i.deps = j.deps, i.todo = j.todo, i.groups = j.groups,
           i.entries = j.entries, j.pc \in Far, i.pc \in Far,
           \A b \in stock : j.cmd = "sync" /\ b[1] \in Selected(j.deps) \ j.todo => b \in after
    PROVE  Agrees(i, m, after)
<1>1. j.pc \notin Writing /\ i.pc \notin Writing \cup {"openLock", "writeLock"}
    BY DEF Far, Writing
<1>2. CASE i.cmd = "sync"
    <2>1. SyncAgrees(i, m, after)
        BY <1>1, <1>2, SyncGoesOn DEF Agrees, Jobs
    <2> QED BY <1>2, <2>1 DEF Agrees
<1>3. CASE i.cmd # "sync"
    BY <1>1, <1>3, AgreesBefore
<1> QED BY <1>2, <1>3

\* A step to another place on the way, with some of the directories changed.
LEMMA MovesFar ==
    ASSUME TypeOK, NEW p \in Procs, InStep(p), manifest' = manifest,
           NEW to \in Far, job' = [job EXCEPT ![p].pc = to], job[p].pc \in Far,
           \A b \in Stock : job[p].cmd = "sync" /\ b[1] \in Selected(job[p].deps) \ job[p].todo
                              => b \in Stock'
    PROVE  InStep(p)'
<1> DEFINE j == job[p]
           i == [j EXCEPT !.pc = to]
<1>1. j \in Jobs /\ job'[p] = i
    BY DEF TypeOK
<1>2. /\ i.cmd = j.cmd /\ i.deps = j.deps /\ i.todo = j.todo /\ i.groups = j.groups
      /\ i.entries = j.entries /\ i.pc = to
    BY <1>1 DEF Jobs
<1> HIDE DEF i
<1>3. Agrees(i, manifest, Stock')
    BY <1>1, <1>2, FarAgrees DEF InStep
<1> QED BY <1>1, <1>3 DEF InStep

LEMMA StandsFar ==
    ASSUME TypeOK, NEW p \in Procs, InStep(p), UNCHANGED <<manifest, job>>, job[p].pc \in Far,
           \A b \in Stock : job[p].cmd = "sync" /\ b[1] \in Selected(job[p].deps) \ job[p].todo
                              => b \in Stock'
    PROVE  InStep(p)'
<1>1. job[p] \in Jobs /\ job'[p] = job[p]
    BY DEF TypeOK
<1>2. Agrees(job[p], manifest, Stock')
    BY <1>1, FarAgrees DEF InStep
<1> QED BY <1>1, <1>2 DEF InStep

LEMMA StartAgrees ==
    ASSUME TypeOK, NEW p \in Procs, NEW j, Start(p, j), j.cmd # "sync",
           j.cmd = "add" /\ FromSource(j.dep) => j.pc \in Far
    PROVE  InStep(p)'
<1>1. job'[p] = j
    BY DEF Start, TypeOK
<1>2. Agrees(j, manifest', Stock')
    BY AgreesBefore DEF Far, Writing
<1> QED BY <1>1, <1>2 DEF InStep

LEMMA CommandAgrees ==
    ASSUME TypeOK, NEW p \in Procs, Command(p)
    PROVE  InStep(p)'
<1>0. Idle \in Jobs
    BY IdleTyped
<1>1. ASSUME NEW s \in Sections, NEW n \in Names, NEW d \in Deps, Add(p, s, n, d)
      PROVE  InStep(p)'
    <2> DEFINE j == [Idle EXCEPT !.cmd = "add", !.pc = "openManifest", !.section = s,
                 !.name = n, !.dep = d, !.doc = WithDep(manifest, s, n, d)]
    <2>1. Start(p, j) /\ j.cmd = "add" /\ ~FromSource(j.dep)
        BY <1>0, <1>1 DEF Add, Jobs
    <2> HIDE DEF j
    <2> QED BY <2>1, StartAgrees
<1>2. ASSUME NEW s \in Sections, NEW n \in Names, NEW d, NEW r \in BOOLEAN,
             AddSource(p, s, n, d, r)
      PROVE  InStep(p)'
    <2> DEFINE j == [Idle EXCEPT !.cmd = "add", !.section = s, !.name = n, !.dep = d,
                 !.version = d.version, !.reinstall = r,
                 !.pc = IF ~r /\ IsInstalled(n, d.version) THEN "record" ELSE "fetch"]
    <2>1. Start(p, j) /\ j.cmd = "add" /\ j.pc \in Far
        BY <1>0, <1>2 DEF AddSource, Jobs, Far
    <2> HIDE DEF j
    <2> QED BY <2>1, StartAgrees
<1>3. ASSUME NEW s \in Sections, NEW n \in Names, Remove(p, s, n)
      PROVE  InStep(p)'
    <2> DEFINE j == [Idle EXCEPT !.cmd = "remove", !.pc = "openManifest", !.name = n,
                 !.doc = WithDep(manifest, s, n, None)]
    <2>1. Start(p, j) /\ j.cmd = "remove"
        BY <1>0, <1>3 DEF Remove, Jobs
    <2> HIDE DEF j
    <2> QED BY <2>1, StartAgrees
<1>4. ASSUME NEW n \in Names, RemoveGlobal(p, n)
      PROVE  InStep(p)'
    <2> DEFINE j == [Idle EXCEPT !.cmd = "remove", !.pc = "purge", !.name = n,
                 !.store = "global"]
    <2>1. Start(p, j) /\ j.cmd = "remove"
        BY <1>0, <1>4 DEF RemoveGlobal, Jobs
    <2> HIDE DEF j
    <2> QED BY <2>1, StartAgrees
<1>5. ASSUME NEW s \in Stores, NEW n \in Names, NEW v \in Versions, Uninstall(p, s, n, v)
      PROVE  InStep(p)'
    <2> DEFINE j == [Idle EXCEPT !.cmd = "uninstall", !.pc = "purge", !.name = n,
                 !.version = v, !.store = s]
    <2>1. Start(p, j) /\ j.cmd = "uninstall"
        BY <1>0, <1>5 DEF Uninstall, Jobs
    <2> HIDE DEF j
    <2> QED BY <2>1, StartAgrees
<1>6. ASSUME NEW s \in Stores, NEW n \in Names, NEW d \in Deps, Install(p, s, n, d)
      PROVE  InStep(p)'
    <2> DEFINE j == [Idle EXCEPT !.cmd = "install", !.pc = "fetch", !.name = n, !.dep = d,
                 !.version = d.version, !.store = s]
    <2>1. Start(p, j) /\ j.cmd = "install"
        BY <1>0, <1>6 DEF Install, Jobs
    <2> HIDE DEF j
    <2> QED BY <2>1, StartAgrees
<1>7. ASSUME NEW gs \in Selections, NEW r \in BOOLEAN, Sync(p, gs, r)
      PROVE  InStep(p)'
    <2> DEFINE deps == Select(manifest, gs)
               j == [Idle EXCEPT !.cmd = "sync", !.pc = "next", !.groups = gs,
                     !.deps = deps, !.todo = Selected(deps),
                     !.known = Known(manifest), !.entries = lock, !.reinstall = r]
    <2>1. Start(p, j)
        BY <1>7 DEF Sync
    <2>2. /\ j.cmd = "sync" /\ j.pc = "next" /\ j.groups = gs /\ j.deps = deps
          /\ j.todo = Selected(deps)
        BY <1>0 DEF Jobs
    <2>3. job'[p] = j /\ manifest' = manifest
        BY <2>1 DEF Start, TypeOK
    <2> HIDE DEF j
    <2>4. Asking(j, manifest) = manifest
        BY <2>2 DEF Asking
    <2>5. SyncAgrees(j, manifest, Stock')
        BY <2>2, <2>4 DEF SyncAgrees
    <2> QED BY <2>2, <2>3, <2>5 DEF InStep, Agrees
<1>8. \A s \in Sections, n \in Names :
         /\ \A d \in Deps, r \in BOOLEAN :
              AddFromGithub(p, s, n, d, r) \/ AddFromLocal(p, s, n, d, r) =>
                AddSource(p, s, n, d, r)
         /\ Refresh(p, s, n) => \E d : AddSource(p, s, n, d, TRUE)
    BY SourceCommands DEF WholeInv
<1> QED BY <1>1, <1>2, <1>3, <1>4, <1>5, <1>6, <1>7, <1>8 DEF Command

LEMMA NextDepAgrees ==
    ASSUME TypeOK, Forms, NEW p \in Procs, NextDep(p), InStep(p)
    PROVE  InStep(p)'
<1> DEFINE j == job[p]
           n == Next1(p)
           d == Resolved(j.deps[n])
           there == ~j.reinstall /\ IsInstalled(n, d.version)
           to == IF ~there THEN "fetch" ELSE IF FromSource(d) THEN "record" ELSE "lock"
           i == [j EXCEPT !.name = n, !.dep = d, !.version = d.version, !.pc = to]
<1>1. j \in Jobs /\ Form(j) /\ j.pc = "next" /\ j.todo # {}
    BY DEF TypeOK, Forms, NextDep
<1>2. j.cmd = "sync"
    BY <1>1 DEF Form, Places, Installing, Recording, Jobs
<1>3. n \in j.todo /\ j.deps[n] \in Dependency
    <2>1. n \in j.todo
        BY <1>1, NextOne
    <2> QED BY <1>1, <1>2, <2>1 DEF Form, Selected, Jobs
<1>4. job'[p] = i /\ manifest' = manifest /\ Stock' = Stock
    <2>1. job' = [job EXCEPT ![p] = i]
        BY DEF NextDep
    <2> QED BY <2>1, StockUnchanged DEF NextDep, TypeOK
<1>5. to \in {"fetch", "record"} \/ (to = "lock" /\ ~FromSource(d))
    OBVIOUS
<1>6. d = Resolved(j.deps[n])
    OBVIOUS
<1> HIDE DEF to, d, n
<1>7. /\ i.cmd = j.cmd /\ i.deps = j.deps /\ i.todo = j.todo /\ i.groups = j.groups
      /\ i.entries = j.entries /\ i.pc = to /\ i.name = n /\ i.version = d.version
    BY <1>1 DEF Jobs
<1> HIDE DEF i, j
<1>8. Agrees(j, manifest, Stock)
    BY DEF InStep, j
<1>9. Agrees(i, manifest, Stock)
    <2>1. CASE to \in {"fetch", "record"}
        BY <2>1, <1>1, <1>7, <1>8, FarAgrees DEF Far
    <2>2. CASE to = "lock" /\ ~FromSource(d)
        <3>1. SyncAgrees(j, manifest, Stock)
            BY <1>2, <1>8 DEF Agrees
        <3>2. SyncAgrees(i, manifest, Stock)
            BY <3>1, <2>2, <1>1, <1>3, <1>6, <1>7, SyncToLock DEF Writing
        <3> QED BY <1>2, <1>7, <3>2 DEF Agrees
    <2> QED BY <1>5, <2>1, <2>2
<1> QED BY <1>4, <1>9 DEF InStep

LEMMA FetchAgrees ==
    ASSUME TypeOK, Forms, NEW p \in Procs, Fetch(p), InStep(p)
    PROVE  InStep(p)'
<1>1. CASE Ends(p)
    BY <1>1, EndAgrees
<1>2. CASE ~Ends(p)
    <2>1. PICK b \in Offer(job[p]) :
            job' = [job EXCEPT ![p] = [@ EXCEPT !.bytes = b,
                     !.pc = IF FromSource(job[p].dep) THEN "purge" ELSE "check"]]
        BY <1>2 DEF Fetch
    <2> DEFINE j == job[p]
               to == IF FromSource(j.dep) THEN "purge" ELSE "check"
               i == [j EXCEPT !.bytes = b, !.pc = to]
    <2>2. j \in Jobs /\ j.pc = "fetch" /\ to \in {"purge", "check"}
        BY DEF TypeOK, Fetch
    <2>3. job'[p] = i /\ manifest' = manifest /\ Stock' = Stock
        BY <2>1, StockUnchanged DEF Fetch, TypeOK
    <2> HIDE DEF to
    <2>4. /\ i.cmd = j.cmd /\ i.deps = j.deps /\ i.todo = j.todo /\ i.groups = j.groups
          /\ i.entries = j.entries /\ i.pc = to
        BY <2>2 DEF Jobs
    <2> HIDE DEF i
    <2>5. Agrees(i, manifest, Stock)
        BY <2>2, <2>4, FarAgrees DEF Far, InStep
    <2> QED BY <2>3, <2>5 DEF InStep
<1> QED BY <1>1, <1>2

LEMMA RemovalAgrees ==
    ASSUME TypeOK, Forms, TypeOK', NEW p \in Procs, RemoveFiles(p) \/ RemoveDir(p), InStep(p)
    PROVE  InStep(p)'
<1>1. job[p].cmd = "sync" => job[p].name \in job[p].todo
    BY DEF Forms, Form, AtWork, RemoveFiles, RemoveDir
<1>2. UNCHANGED <<manifest, job>> /\ job[p].pc \in Far
    BY DEF RemoveFiles, RemoveDir, Far
<1>3. \A b \in Stock : job[p].cmd = "sync" /\ b[1] \in Selected(job[p].deps) \ job[p].todo
                              => b \in Stock'
    BY <1>1, RemovalKeepsStock
<1> QED BY <1>2, <1>3, StandsFar

LEMMA InstallingAgrees ==
    ASSUME TypeOK, Forms, TypeOK', NEW p \in Procs, InStep(p),
           \/ Purged(p) \/ Check(p) \/ Rename(p)
           \/ ExtractManifest(p) \/ ExtractRest(p) \/ ExtractAgain(p)
    PROVE  InStep(p)'
<1>1. CASE Ends(p)
    BY <1>1, EndAgrees
<1>2. CASE ~Ends(p)
    <2>1. Stock \subseteq Stock'
        BY CheckKeepsStock, ExtractKeepsStock, RenameKeepsStock, StockUnchanged DEF Purged
    <2>2. manifest' = manifest /\ job[p].pc \in Far
        BY DEF Purged, Check, ExtractManifest, ExtractRest, ExtractAgain, Rename, Far
    <2>3. CASE Check(p)
        <3>1. PICK t \in Temps :
                job' = [job EXCEPT ![p] = [@ EXCEPT !.tmp = t, !.pc = "extract"]]
            BY <1>2, <2>3 DEF Check, Fresh
        <3> DEFINE j == job[p]
                   i == [j EXCEPT !.tmp = t, !.pc = "extract"]
        <3>2. j \in Jobs /\ job'[p] = i
            BY <3>1 DEF TypeOK
        <3>3. /\ i.cmd = j.cmd /\ i.deps = j.deps /\ i.todo = j.todo /\ i.groups = j.groups
              /\ i.entries = j.entries /\ i.pc = "extract"
            BY <3>2 DEF Jobs
        <3> HIDE DEF i
        <3>4. Agrees(i, manifest, Stock')
            BY <2>1, <2>2, <3>2, <3>3, FarAgrees DEF Far, InStep
        <3> QED BY <2>2, <3>2, <3>4 DEF InStep
    <2>4. CASE UNCHANGED job
        BY <2>1, <2>2, <2>4, StandsFar
    <2>5. CASE \E to \in {"check", "rename", "link"} : Goto(p, to)
        BY <2>1, <2>2, <2>5, MovesFar DEF Far, Goto
    <2> QED BY <1>2, <2>3, <2>4, <2>5
            DEF Purged, ExtractManifest, ExtractRest, ExtractAgain, Rename
<1> QED BY <1>1, <1>2

LEMMA LinkAgrees ==
    ASSUME TypeOK, Forms, TypeOK', NEW p \in Procs, Link(p), InStep(p)
    PROVE  InStep(p)'
<1> DEFINE j == job[p]
           to == IF FromSource(j.dep) THEN "record" ELSE "lock"
           i == [j EXCEPT !.pc = to]
<1>1. j \in Jobs /\ Form(j) /\ j.pc = "link" /\ manifest' = manifest
      /\ job' = [job EXCEPT ![p] = AfterInstall(j)] /\ Stock \subseteq Stock'
    BY LinkKeepsStock DEF TypeOK, Forms, Link
<1>2. CASE j.cmd = "install"
    BY <1>1, <1>2, EndAgrees DEF AfterInstall, Ends
<1>3. CASE j.cmd # "install"
    <2>1. job'[p] = i
        BY <1>1, <1>3 DEF AfterInstall, TypeOK
    <2>2. to = "record" \/ (to = "lock" /\ ~FromSource(j.dep))
        OBVIOUS
    <2> HIDE DEF to
    <2>3. /\ i.cmd = j.cmd /\ i.deps = j.deps /\ i.todo = j.todo /\ i.groups = j.groups
          /\ i.entries = j.entries /\ i.pc = to /\ i.name = j.name /\ i.version = j.version
          /\ i.dep = j.dep
        BY <1>1 DEF Jobs
    <2> HIDE DEF i
    <2>4. Agrees(j, manifest, Stock)
        BY DEF InStep
    <2> HIDE DEF j
    <2>5. Agrees(i, manifest, Stock')
        <3>1. CASE to = "record"
            BY <3>1, <1>1, <2>3, <2>4, FarAgrees DEF Far
        <3>2. CASE to = "lock" /\ ~FromSource(j.dep) /\ j.cmd = "sync"
            <4>1. /\ j.name \in j.todo /\ j.deps[j.name] \in Dependency
                  /\ j.dep = Resolved(j.deps[j.name]) /\ j.version = j.dep.version
                BY <1>1, <3>2 DEF Form, AtWork, Installing, Selected, Jobs
            <4>2. SyncAgrees(j, manifest, Stock')
                <5>1. SyncAgrees(j, manifest, Stock) /\ j.deps \in [Names -> Dependency \cup {None}]
                    BY <2>4, <3>2, <1>1 DEF Agrees, Jobs
                <5> QED BY <5>1, <1>1, SyncGoesOn DEF Writing
            <4>3. SyncAgrees(i, manifest, Stock')
                BY <4>1, <4>2, <3>2, <1>1, <2>3, SyncToLock DEF Writing
            <4> QED BY <3>2, <2>3, <4>3 DEF Agrees
        <3>3. CASE to = "lock" /\ ~FromSource(j.dep) /\ j.cmd # "sync"
            BY <3>3, <2>3 DEF Agrees
        <3> QED BY <2>2, <3>1, <3>2, <3>3
    <2> QED BY <1>1, <2>1, <2>5 DEF InStep
<1> QED BY <1>2, <1>3

LEMMA RecordAgrees ==
    ASSUME TypeOK, Forms, NEW p \in Procs, Record(p), InStep(p)
    PROVE  InStep(p)'
<1> DEFINE j == job[p]
           i == [j EXCEPT !.pc = "openManifest",
                          !.doc = WithDep(manifest, j.section, j.name, EntryOf(j))]
<1>1. /\ j \in Jobs /\ Form(j) /\ j.pc = "record" /\ manifest' = manifest /\ Stock' = Stock
      /\ job' = [job EXCEPT ![p] = i]
    BY StockUnchanged DEF TypeOK, Forms, Record
<1>2. job'[p] = i
    BY <1>1 DEF TypeOK
<1>3. manifest \in [Sections -> [Names -> Dependency \cup {None}]]
    BY DEF TypeOK
<1>4. /\ i.pc = "openManifest" /\ i.cmd = j.cmd /\ i.dep = j.dep /\ i.name = j.name
      /\ i.section = j.section /\ i.doc = WithDep(manifest, j.section, j.name, j.dep)
    BY <1>1, RecordsAsAsked DEF Jobs
<1>5. Agrees(i, manifest, Stock)
    <2>1. CASE j.cmd = "sync"
        <3>1. SyncAgrees(j, manifest, Stock)
            BY <2>1 DEF InStep, Agrees
        <3>2. SyncAgrees(i, manifest, Stock)
            BY <3>1, <2>1, <1>1, <1>3, SyncToManifest
        <3> HIDE DEF i
        <3> QED BY <2>1, <3>2, <1>4 DEF Agrees
    <2>2. CASE j.cmd = "add"
        <3>1. j.name \in Names /\ j.section \in Sections
            BY <1>1, <2>2 DEF Form, Jobs
        <3> HIDE DEF i
        <3>2. Asking(i, manifest)[i.section][i.name] = i.dep
            BY <3>1, <1>3, <1>4 DEF Asking, WithDep
        <3> QED BY <2>2, <1>4, <3>2 DEF Agrees, AddAgrees
    <2>3. CASE j.cmd \notin {"sync", "add"}
        BY <2>3, <1>4 DEF Agrees
    <2> QED BY <2>1, <2>2, <2>3
<1> QED BY <1>1, <1>2, <1>5 DEF InStep

\* Opening and writing the manifest: what is asked for stays what it was.
LEMMA WritingAgrees ==
    ASSUME NEW j \in Jobs, NEW i, NEW m, NEW n, NEW stock, Agrees(j, m, stock),
           i.cmd = j.cmd, i.deps = j.deps, i.todo = j.todo, i.groups = j.groups,
           i.entries = j.entries, i.name = j.name, i.dep = j.dep, i.version = j.version,
           i.section = j.section, j.pc \in {"openManifest", "writeManifest"},
           i.pc \in Writing, Asking(i, n) = Asking(j, m)
    PROVE  Agrees(i, n, stock)
<1>1. CASE j.cmd = "sync"
    <2>1. SyncAgrees(i, n, stock)
        BY <1>1, SyncWrites DEF Agrees, Writing
    <2> QED BY <1>1, <2>1 DEF Agrees
<1>2. CASE j.cmd # "sync"
    BY <1>2 DEF Agrees, AddAgrees, Writing
<1> QED BY <1>1, <1>2

LEMMA ManifestAgrees ==
    ASSUME TypeOK, NEW p \in Procs, OpenManifest(p) \/ WriteManifest(p), InStep(p)
    PROVE  InStep(p)'
<1> DEFINE j == job[p]
<1>1. j \in Jobs /\ Stock' = Stock
    BY StockUnchanged DEF TypeOK, OpenManifest, WriteManifest
<1>2. ASSUME NEW to \in Writing, Goto(p, to), j.pc \in {"openManifest", "writeManifest"},
             to = "lock" => manifest' = j.doc
      PROVE  InStep(p)'
    <2> DEFINE i == [j EXCEPT !.pc = to]
    <2>1. job'[p] = i
        BY <1>2 DEF Goto, TypeOK
    <2>2. /\ i.cmd = j.cmd /\ i.deps = j.deps /\ i.todo = j.todo /\ i.groups = j.groups
          /\ i.entries = j.entries /\ i.name = j.name /\ i.dep = j.dep /\ i.doc = j.doc
          /\ i.version = j.version /\ i.section = j.section /\ i.pc = to
        BY <1>1 DEF Jobs
    <2> HIDE DEF i
    <2>3. Asking(i, manifest') = Asking(j, manifest)
        BY <1>2, <2>2 DEF Asking, Writing
    <2>4. Agrees(i, manifest', Stock)
        BY <1>1, <1>2, <2>2, <2>3, WritingAgrees DEF InStep
    <2> QED BY <1>1, <2>1, <2>4 DEF InStep
<1>3. CASE OpenManifest(p)
    BY <1>3, <1>2 DEF OpenManifest, Writing
<1>4. CASE WriteManifest(p)
    <2>1. CASE j.cmd = "remove"
        <3>1. job'[p] = [j EXCEPT !.pc = "purge"]
            BY <1>4, <2>1 DEF WriteManifest, Goto, TypeOK
        <3>2. job'[p].cmd = "remove"
            BY <1>1, <2>1, <3>1 DEF Jobs
        <3> QED BY <3>2 DEF InStep, Agrees
    <2>2. CASE Ends(p)
        BY <2>2, EndAgrees
    <2>3. CASE Goto(p, "lock")
        BY <1>4, <2>3, <1>2 DEF WriteManifest, Writing
    <2> QED BY <1>4, <2>1, <2>2, <2>3 DEF WriteManifest
<1> QED BY <1>3, <1>4

\* What Lock takes from the stock, it takes for the entry.
LEMMA LockedInStock ==
    ASSUME TypeOK, NEW n \in Names, NEW v \in Versions, LockedDir(n, v) # None,
           NEW sum \in Sha256(LockedDir(n, v))
    PROVE  <<n, v, sum>> \in Stock
<1> DEFINE k == <<"workspace", n, v>>
<1>1. LockedDir(n, v) = k /\ k \in Listed("workspace")
    BY DEF LockedDir, GetVersion
<1>2. dirs[k] \in Directory
    <2>1. k \in Stores \X Names \X Slots /\ Exists(k)
        BY <1>1 DEF Listed, TypeOK
    <2> QED BY <2>1, ThereTyped
<1>3. sum \in Bundles \cup {None}
    BY <1>1, <1>2 DEF Sha256, Directory
<1> QED BY <1>1, <1>3 DEF Stock

LEMMA LockStepAgrees ==
    ASSUME TypeOK, Forms, NEW p \in Procs, Lock(p), InStep(p)
    PROVE  InStep(p)'
<1> DEFINE j == job[p]
           k == LockedDir(j.name, j.version)
<1>1. j \in Jobs /\ Form(j) /\ j.pc = "lock" /\ manifest' = manifest /\ Stock' = Stock
    BY StockUnchanged DEF TypeOK, Forms, Lock
<1>2. CASE k = None
    BY <1>2, EndAgrees DEF Lock
<1>3. CASE k # None
    <2>1. PICK sum \in Sha256(k) :
            LET entry == [version |-> j.version, sha256 |-> sum]
            IN  job' = [job EXCEPT ![p] =
                   IF j.cmd = "sync"
                   THEN [@ EXCEPT !.pc = "next", !.todo = Rest(j),
                                  !.entries = [j.entries EXCEPT ![j.name] = entry]]
                   ELSE [@ EXCEPT !.pc = "openLock",
                                  !.entries = [lock EXCEPT ![j.name] = entry]]]
        BY <1>3 DEF Lock
    <2> DEFINE entry == [version |-> j.version, sha256 |-> sum]
               synced == [j EXCEPT !.pc = "next", !.todo = j.todo \ {j.name},
                                   !.entries = [j.entries EXCEPT ![j.name] = entry]]
               added == [j EXCEPT !.pc = "openLock",
                                  !.entries = [lock EXCEPT ![j.name] = entry]]
    <2>2. job'[p] = IF j.cmd = "sync" THEN synced ELSE added
        <3>1. CASE j.cmd = "sync"
            BY <2>1, <3>1 DEF Rest, TypeOK
        <3>2. CASE j.cmd # "sync"
            BY <2>1, <3>2 DEF TypeOK
        <3> QED BY <3>1, <3>2
    <2>3. j.name \in Names /\ j.version \in Versions /\ sum \in Bundles \cup {None}
        <3>1. k = <<"workspace", j.name, j.version>> /\ k \in Stores \X Names \X Slots /\ Exists(k)
            BY <1>3 DEF LockedDir, GetVersion, Listed, TypeOK
        <3>2. j.version \in Versions /\ j.name \in Names
            BY <1>1, <3>1, NoneIsNothing, TempsAreNoVersions DEF Jobs, Slots
        <3>3. dirs[k] \in Directory
            BY <3>1, ThereTyped
        <3> QED BY <3>2, <3>3 DEF Sha256, Directory
    <2>4. <<j.name, j.version, sum>> \in Stock
        BY <1>3, <2>3, LockedInStock
    <2>5. entry \in Entry /\ entry # None /\ j.version # None
        BY <2>3, NoneIsNothing DEF Entry
    <2>6. CASE j.cmd = "sync"
        <3>1. SyncAgrees(j, manifest, Stock)
            BY <2>6 DEF InStep, Agrees
        <3>2. SyncAgrees(synced, manifest, Stock)
            BY <3>1, <2>4, <2>5, <2>6, <1>1, SyncLocks
        <3>3. synced.cmd = "sync"
            BY <1>1, <2>6 DEF Jobs
        <3> HIDE DEF synced, added
        <3> QED BY <2>2, <2>6, <3>2, <3>3, <1>1 DEF InStep, Agrees
    <2>7. CASE j.cmd = "add" /\ FromSource(j.dep)
        <3>1. manifest[j.section][j.name] = j.dep
            BY <1>1, <2>7 DEF InStep, Agrees, AddAgrees, Asking
        <3>2. j.dep \in Dependency /\ j.version = j.dep.version
            BY <1>1, <2>7 DEF Form
        <3>3. /\ added.cmd = "add" /\ added.pc = "openLock" /\ added.name = j.name
              /\ added.section = j.section /\ added.dep = j.dep
              /\ added.entries = [lock EXCEPT ![j.name] = entry]
            BY <1>1, <2>7 DEF Jobs
        <3>4. added.entries[j.name] = entry
            BY <3>3, <2>3 DEF TypeOK
        <3> HIDE DEF added, synced
        <3>5. Asking(added, manifest) = manifest
            BY <3>3 DEF Asking
        <3>6. Settled(added, Stock, j.name, j.dep)
            BY <2>4, <2>5, <3>2, <3>4, NoneIsNothing DEF Settled
        <3>7. Agrees(added, manifest, Stock)
            BY <3>1, <3>3, <3>5, <3>6 DEF Agrees, AddAgrees
        <3> QED BY <2>2, <2>7, <3>7, <1>1 DEF InStep
    <2>8. CASE j.cmd # "sync" /\ ~(j.cmd = "add" /\ FromSource(j.dep))
        <3>1. added.cmd = j.cmd /\ added.dep = j.dep
            BY <1>1 DEF Jobs
        <3> HIDE DEF added, synced
        <3> QED BY <2>2, <2>8, <3>1 DEF InStep, Agrees
    <2> QED BY <2>6, <2>7, <2>8
<1> QED BY <1>2, <1>3

LEMMA FinishAgrees ==
    ASSUME TypeOK, Forms, NEW p \in Procs, Finish(p), InStep(p)
    PROVE  InStep(p)'
<1> DEFINE j == job[p]
           kept == j.known \cup ListedNames
           i == [j EXCEPT !.pc = "openLock",
                  !.entries = [n \in Names |-> IF n \in kept THEN j.entries[n] ELSE None]]
<1>1. j \in Jobs /\ j.pc = "next" /\ manifest' = manifest /\ Stock' = Stock
    BY StockUnchanged DEF TypeOK, Finish
<1>2. j.cmd = "sync"
    BY <1>1 DEF Forms, Form, Places, Installing, Recording, Jobs
<1>3. job'[p] = i
    BY DEF Finish, TypeOK
<1>4. SyncAgrees(j, manifest, Stock)
    BY <1>2 DEF InStep, Agrees
<1>5. \A b \in Stock : b[1] \in kept
    BY NamesInStock
<1> HIDE DEF kept
<1>6. SyncAgrees(i, manifest, Stock)
    BY <1>1, <1>4, <1>5, SyncDrops
<1>7. i.cmd = "sync"
    BY <1>1, <1>2 DEF Jobs
<1> HIDE DEF i
<1> QED BY <1>1, <1>3, <1>6, <1>7 DEF InStep, Agrees

LEMMA LockFileAgrees ==
    ASSUME TypeOK, NEW p \in Procs, OpenLock(p) \/ WriteLock(p), InStep(p)
    PROVE  InStep(p)'
<1>1. CASE WriteLock(p)
    BY <1>1, EndAgrees DEF WriteLock
<1>2. CASE OpenLock(p)
    <2> DEFINE j == job[p]
               i == [j EXCEPT !.pc = "writeLock"]
    <2>1. /\ j \in Jobs /\ j.pc = "openLock" /\ manifest' = manifest /\ Stock' = Stock
          /\ job'[p] = i
        BY <1>2, StockUnchanged DEF TypeOK, OpenLock, Goto
    <2>2. /\ i.cmd = j.cmd /\ i.deps = j.deps /\ i.todo = j.todo /\ i.groups = j.groups
          /\ i.entries = j.entries /\ i.pc = "writeLock" /\ i.name = j.name /\ i.dep = j.dep
          /\ i.section = j.section
        BY <2>1 DEF Jobs
    <2>3. Agrees(j, manifest, Stock)
        BY DEF InStep
    <2> HIDE DEF i, j
    <2>4. CASE j.cmd = "sync"
        <3>1. SyncAgrees(i, manifest, Stock)
            BY <2>1, <2>2, <2>3, <2>4, SyncGoesOn DEF Agrees, Writing, Jobs
        <3> QED BY <2>1, <2>2, <2>4, <3>1 DEF InStep, Agrees
    <2>5. CASE j.cmd # "sync"
        <3>1. Asking(j, manifest) = manifest /\ Asking(i, manifest) = manifest
            BY <2>1, <2>2 DEF Asking
        <3>2. Agrees(i, manifest, Stock)
            BY <2>1, <2>2, <2>3, <2>5, <3>1 DEF Agrees, AddAgrees, Settled
        <3> QED BY <2>1, <3>2 DEF InStep
    <2> QED BY <2>4, <2>5
<1> QED BY <1>1, <1>2

LEMMA OwnStep ==
    ASSUME TypeOK, Forms, TypeOK', NEW p \in Procs, Step(p), AgreesWith(p)
    PROVE  AgreesWith(p)'
<1>1. disturbed'[p] = disturbed[p]
    BY DEF TypeOK, Step, Disturbs, NextDep, Fetch, RemoveFiles, RemoveDir, Purged, Check,
           ExtractManifest, ExtractRest, ExtractAgain, Rename, Link, Record, OpenManifest,
           WriteManifest, Lock, Finish, OpenLock, WriteLock
<1>2. InStep(p) => InStep(p)'
    BY NextDepAgrees, FetchAgrees, RemovalAgrees, InstallingAgrees, LinkAgrees, RecordAgrees,
       ManifestAgrees, LockStepAgrees, FinishAgrees, LockFileAgrees DEF Step
<1> QED BY <1>1, <1>2 DEF AgreesWith, InStep

LEMMA AgreeingNext == TypeOK /\ Forms /\ Agreeing /\ [Next]_vars => Agreeing'
<1> SUFFICES ASSUME TypeOK, Forms, Agreeing, [Next]_vars, NEW p \in Procs
             PROVE  AgreesWith(p)'
    BY DEF Agreeing
<1>1. TypeOK' /\ AgreesWith(p)
    BY TypeNext DEF Agreeing
<1>2. CASE UNCHANGED vars
    BY <1>1, <1>2, AgreesUnchanged DEF vars
<1>3. CASE Repair
    <2>1. job' = job /\ disturbed'[p] = (disturbed[p] \/ job[p].pc # "idle")
        BY <1>3 DEF Repair
    <2>2. CASE job[p].pc = "idle"
        BY <2>1, <2>2, IdleIsNone DEF AgreesWith, Agrees
    <2>3. CASE job[p].pc # "idle"
        BY <2>1, <2>3 DEF AgreesWith
    <2> QED BY <2>2, <2>3
<1>4. ASSUME NEW q \in Procs, q # p, Command(q) \/ Step(q) \/ Fault(q)
      PROVE  AgreesWith(p)'
    BY <1>1, <1>4, OthersAgree
<1>5. CASE Command(p)
    BY <1>5, CommandAgrees DEF AgreesWith, InStep
<1>6. CASE Step(p)
    BY <1>1, <1>6, OwnStep
<1>7. CASE Fault(p)
    BY <1>7, EndAgrees DEF AgreesWith, InStep, Fault
<1> QED BY <1>2, <1>3, <1>4, <1>5, <1>6, <1>7 DEF Next

LEMMA AgreeingInit == Init => Agreeing
BY DEF Init, Idle, Agreeing, AgreesWith, Agrees

\* The step that writes the lock, of a command that was not disturbed.
LEMMA WrittenAgrees ==
    ASSUME TypeOK, Forms, Agreeing, NEW p \in Procs, WriteLock(p), ~disturbed[p],
           NEW n \in RecordedBy(p)
    PROVE  LET k == <<"workspace", n, lock'[n].version>>
           IN  /\ AskedFor(p, n) # None /\ lock'[n] # None
               /\ lock'[n].version = AskedFor(p, n).version
               /\ k \in Listed("workspace") /\ lock'[n].sha256 \in Sha256(k)
<1> DEFINE j == job[p]
<1>1. /\ j \in Jobs /\ Form(j) /\ j.pc = "writeLock" /\ lock' = j.entries
      /\ Agrees(j, manifest, Stock)
    BY DEF TypeOK, Forms, WriteLock, Agreeing, AgreesWith
<1>2. Asking(j, manifest) = manifest
    BY <1>1 DEF Asking
<1>3. Settled(j, Stock, n, AskedFor(p, n))
    <2>1. CASE j.cmd = "sync"
        <3>1. n \in Selected(j.deps) \ j.todo
            BY <1>1, <2>1 DEF RecordedBy, Form
        <3> QED BY <1>1, <1>2, <2>1, <3>1 DEF Agrees, SyncAgrees, AskedFor
    <2>2. CASE j.cmd # "sync"
        <3>1. j.cmd = "add" /\ FromSource(j.dep)
            BY <1>1, <2>2 DEF Form, Places, Installing, Jobs
        <3>2. n = j.name /\ manifest[j.section][j.name] = j.dep /\ Settled(j, Stock, j.name, j.dep)
            BY <1>1, <1>2, <2>2, <3>1 DEF RecordedBy, Agrees, AddAgrees
        <3> QED BY <2>2, <3>2 DEF AskedFor
    <2> QED BY <2>1, <2>2
<1> HIDE DEF j
<1> QED BY <1>1, <1>3 DEF Settled, Stock

\* When a sync or an add has written sempkg.lock and no other command changed a
\* file meanwhile, manifest, lock and store agree on what it took care of
\* (main.rs: run_sync, add_from_github, add_from_local).
THEOREM LocksAgree == Spec => LockAgrees
<1>1. Init => TypeOK /\ Forms /\ Agreeing
    BY TypeInit, AgreeingInit
<1>2. TypeOK /\ Forms /\ Agreeing /\ [Next]_vars => (TypeOK /\ Forms /\ Agreeing)'
    BY TypeNext, AgreeingNext
<1> DEFINE Agreed ==
      \A p \in Procs :
        WriteLock(p) /\ ~disturbed[p] =>
          \A n \in RecordedBy(p) :
            LET k == <<"workspace", n, lock'[n].version>>
            IN  /\ AskedFor(p, n) # None /\ lock'[n] # None
                /\ lock'[n].version = AskedFor(p, n).version
                /\ k \in Listed("workspace") /\ lock'[n].sha256 \in Sha256(k)
<1>3. TypeOK /\ Forms /\ Agreeing => [Agreed]_vars
    BY WrittenAgrees
<1> QED BY <1>1, <1>2, <1>3, PTL DEF Spec, LockAgrees
=============================================================================
