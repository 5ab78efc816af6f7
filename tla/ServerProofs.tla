---------------------------- MODULE ServerProofs ----------------------------
(***************************************************************************)
(* What is installed, and what a server answers, for any number of         *)
(* packings, revisions, shipments and faults, any graphs, plans and        *)
(* requests.                                                               *)
(*                                                                         *)
(* Bundles.  No path is collected twice, so the manifest of a packing      *)
(* agrees with each of its entries although the tree may be written        *)
(* meanwhile.  On the way a manifest is lost or doubled but never another, *)
(* and no key appears that was not packed (Derived): of such an archive,   *)
(* the checks of install let through only what unpacks to the files that   *)
(* were packed (AcceptedIsIntact).                                         *)
(*                                                                         *)
(* Sources.  Two things make the invariant more than the property.  A      *)
(* table that is opened stays open, so what it reads must be of a bundle   *)
(* there was since the start (TablesWere), and the callers of a symbol and *)
(* their sources come in many steps between which the bundle may be        *)
(* replaced: the nodes found so far, and each source next to its node,     *)
(* must be right while they are collected (FoundRight).  Right is kept     *)
(* when bundles join those there were, and a source that is looked up by   *)
(* the name of its node begins where the node does as long as there was    *)
(* one bundle (SourcesStand).                                              *)
(*                                                                         *)
(* Graphs.  The rows of the recursive query at a depth are the nodes from  *)
(* which a chain of so many dependencies leads to the symbol               *)
(* (RowsAreAtDistance); the hops of a context are the balls about its      *)
(* seeds until there is no more room (HopsAre); what is shown is a prefix  *)
(* of a sort (PrefixOfSort).  A bundle may have been packed without a      *)
(* graph; one that has a graph has it of a revision that was written       *)
(* (PackedWasThere).                                                       *)
(***************************************************************************)
EXTENDS Server, LoopProofs, SequenceTheorems, WellFoundedInduction, TLAPS

-----------------------------------------------------------------------------
(***************************************************************************)
(* Sequences and sets of numbers.                                          *)
(***************************************************************************)
NoRepeat(s) == \A i, j \in 1 .. Len(s) : s[i] = s[j] => i = j

LEMMA LessIsWellFounded == IsWellFoundedOn({s \in Nat \X Nat : s[1] < s[2]}, Nat)
BY NatLessThanWellFounded, Zenon DEF OpToRel

LEMMA GreatestIndex ==
    ASSUME NEW n \in Nat, NEW I, I \subseteq 1 .. n, I # {}
    PROVE  \E i \in I : \A j \in I : j <= i
<1> DEFINE T == {n - i : i \in I}
           R == {s \in Nat \X Nat : s[1] < s[2]}
<1>1. T \subseteq Nat
    <2> SUFFICES ASSUME NEW i \in I PROVE n - i \in Nat
        OBVIOUS
    <2>1. i \in 1 .. n
        OBVIOUS
    <2> QED BY <2>1
<1>2. T # {}
    OBVIOUS
<1>3. PICK t \in T : \A u \in T : <<u, t>> \notin R
    BY <1>1, <1>2, WFMin, LessIsWellFounded
<1>4. PICK i \in I : t = n - i
    OBVIOUS
<1>5. ASSUME NEW j \in I PROVE j <= i
    <2>1. n - j \in T /\ <<n - j, t>> \notin R
        BY <1>3
    <2>2. n - j \in Nat /\ t \in Nat
        BY <1>1, <2>1
    <2>3. ~ (n - j < t)
        BY <2>1, <2>2
    <2>4. i \in 1 .. n /\ j \in 1 .. n
        OBVIOUS
    <2> QED BY <2>3, <2>4, <1>4, <2>2
<1> QED BY <1>5

LEMMA ConcatNoRepeat ==
    ASSUME NEW S, NEW T, NEW s \in Seq(S), NEW t \in Seq(T), S \cap T = {},
           NoRepeat(s), NoRepeat(t)
    PROVE  s \o t \in Seq(S \cup T) /\ NoRepeat(s \o t)
<1>1. s \in Seq(S \cup T) /\ t \in Seq(S \cup T)
    BY SeqMonotonic
<1>2. /\ s \o t \in Seq(S \cup T)
      /\ Len(s \o t) = Len(s) + Len(t)
      /\ \A i \in 1 .. Len(s) + Len(t) :
            (s \o t)[i] = IF i <= Len(s) THEN s[i] ELSE t[i - Len(s)]
    BY <1>1, ConcatProperties
<1>3. /\ Len(s) \in Nat /\ Len(t) \in Nat
      /\ \A i \in 1 .. Len(s) : s[i] \in S
      /\ \A i \in 1 .. Len(t) : t[i] \in T
    BY LenProperties, ElementOfSeq
<1> QED BY <1>2, <1>3 DEF NoRepeat

LEMMA RemoveAtInSeq ==
    ASSUME NEW S, NEW s \in Seq(S), NEW i \in 1 .. Len(s)
    PROVE  RemoveAt(s, i) \in Seq(S)
<1>1. Len(s) \in Nat /\ \A j \in 1 .. Len(s) : s[j] \in S
    BY LenProperties, ElementOfSeq
<1>2. SubSeq(s, 1, i - 1) \in Seq(S)
    BY <1>1, SubSeqProperties
<1>3. SubSeq(s, i + 1, Len(s)) \in Seq(S)
    BY <1>1, SubSeqProperties
<1> QED BY <1>2, <1>3, ConcatProperties DEF RemoveAt

-----------------------------------------------------------------------------
(***************************************************************************)
(* The paths of a packing: no path is collected twice.                     *)
(***************************************************************************)
RequiredSet == {"config.json", "graph/", "embeddings/"}
LanceSet == {"lance/metadata.json", "lance/docs.lance"}
CodeSet == {"code/metadata.json", "code/code.lance"}

LEMMA PathsOnce ==
    /\ Required \in Seq(RequiredSet) /\ NoRepeat(Required)
    /\ LancePaths \in Seq(LanceSet) /\ NoRepeat(LancePaths)
    /\ CodePaths \in Seq(CodeSet) /\ NoRepeat(CodePaths)
    /\ <<Metadata>> \in Seq({Metadata}) /\ NoRepeat(<<Metadata>>)
<1>1. Required \in Seq(RequiredSet) /\ NoRepeat(Required)
    BY DEF Required, RequiredSet, NoRepeat
<1>2. LancePaths \in Seq(LanceSet) /\ NoRepeat(LancePaths)
    BY DEF LancePaths, LanceSet, NoRepeat
<1>3. CodePaths \in Seq(CodeSet) /\ NoRepeat(CodePaths)
    BY DEF CodePaths, CodeSet, NoRepeat
<1>4. <<Metadata>> \in Seq({Metadata}) /\ NoRepeat(<<Metadata>>)
    BY DEF Metadata, NoRepeat
<1> QED BY <1>1, <1>2, <1>3, <1>4

LEMMA TreePathsAre == RequiredSet \cup LanceSet \cup CodeSet \subseteq TreePaths
<1> DEFINE S == RequiredSet \cup LanceSet \cup CodeSet
           s == Required \o LancePaths \o CodePaths
<1>1. Required \in Seq(S) /\ LancePaths \in Seq(S) /\ CodePaths \in Seq(S)
    BY PathsOnce, SeqMonotonic
<1>2. Len(Required) = 3 /\ Len(LancePaths) = 2 /\ Len(CodePaths) = 2
    BY DEF Required, LancePaths, CodePaths
<1> HIDE DEF S
<1>3. /\ Required \o LancePaths \in Seq(S) /\ Len(Required \o LancePaths) = 5
      /\ \A i \in 1 .. 5 : (Required \o LancePaths)[i] =
            IF i <= 3 THEN Required[i] ELSE LancePaths[i - 3]
    <2>1. /\ Required \o LancePaths \in Seq(S)
          /\ Len(Required \o LancePaths) = Len(Required) + Len(LancePaths)
          /\ \A i \in 1 .. Len(Required) + Len(LancePaths) : (Required \o LancePaths)[i] =
                IF i <= Len(Required) THEN Required[i] ELSE LancePaths[i - Len(Required)]
        BY <1>1, ConcatProperties
    <2> QED BY <1>2, <2>1
<1>4. /\ s \in Seq(S) /\ Len(s) = 7
      /\ \A i \in 1 .. 7 : s[i] =
            IF i <= 5 THEN (Required \o LancePaths)[i] ELSE CodePaths[i - 5]
    <2> DEFINE front == Required \o LancePaths
    <2>1. front \in Seq(S) /\ Len(front) = 5
        BY <1>3
    <2> HIDE DEF front
    <2>2. /\ front \o CodePaths \in Seq(S)
          /\ Len(front \o CodePaths) = Len(front) + Len(CodePaths)
          /\ \A i \in 1 .. Len(front) + Len(CodePaths) : (front \o CodePaths)[i] =
                IF i <= Len(front) THEN front[i] ELSE CodePaths[i - Len(front)]
        BY <1>1, <2>1, ConcatProperties
    <2> QED BY <1>2, <2>1, <2>2 DEF front
<1> HIDE DEF s
<1>5. DOMAIN s = 1 .. 7
    BY <1>4, LenProperties
<1>6. /\ s[1] = "config.json" /\ s[2] = "graph/" /\ s[3] = "embeddings/"
      /\ s[4] = "lance/metadata.json" /\ s[5] = "lance/docs.lance"
      /\ s[6] = "code/metadata.json" /\ s[7] = "code/code.lance"
    <2>1. s[1] = Required[1] /\ s[2] = Required[2] /\ s[3] = Required[3]
        BY <1>3, <1>4
    <2>2. s[4] = LancePaths[1] /\ s[5] = LancePaths[2]
        BY <1>3, <1>4
    <2>3. s[6] = CodePaths[6 - 5] /\ s[7] = CodePaths[7 - 5]
        BY <1>4, 6 \in 1 .. 7, 7 \in 1 .. 7, ~ (6 <= 5), ~ (7 <= 5), Zenon
    <2> QED BY <2>1, <2>2, <2>3 DEF Required, LancePaths, CodePaths
<1>7. TreePaths = {s[i] : i \in 1 .. 7}
    BY <1>5 DEF s, TreePaths, ToSet
<1>8. /\ "config.json" \in TreePaths /\ "graph/" \in TreePaths
      /\ "embeddings/" \in TreePaths /\ "lance/metadata.json" \in TreePaths
      /\ "lance/docs.lance" \in TreePaths /\ "code/metadata.json" \in TreePaths
      /\ "code/code.lance" \in TreePaths
    BY <1>6, <1>7
<1> QED BY <1>8 DEF RequiredSet, LanceSet, CodeSet

AllPaths == RequiredSet \cup {Metadata} \cup LanceSet \cup CodeSet

LEMMA PathsAreOfTheTree == AllPaths \subseteq TreePaths \cup {Metadata}
BY TreePathsAre DEF AllPaths

LEMMA LeftAtFirst ==
    ASSUME NEW e
    PROVE  LET left == Required \o <<Metadata>>
                        \o (IF "lance" \in e THEN LancePaths ELSE <<>>)
                        \o (IF "code" \in e THEN CodePaths ELSE <<>>)
           IN  left \in Seq(AllPaths) /\ NoRepeat(left)
<1> DEFINE L == IF "lance" \in e THEN LancePaths ELSE <<>>
           C == IF "code" \in e THEN CodePaths ELSE <<>>
<1>1. Required \o <<Metadata>> \in Seq(RequiredSet \cup {Metadata})
      /\ NoRepeat(Required \o <<Metadata>>)
    <2>1. RequiredSet \cap {Metadata} = {}
        BY DEF RequiredSet, Metadata
    <2> QED BY <2>1, PathsOnce, ConcatNoRepeat
<1>2. L \in Seq(LanceSet) /\ NoRepeat(L)
    BY PathsOnce DEF NoRepeat
<1>3. C \in Seq(CodeSet) /\ NoRepeat(C)
    BY PathsOnce DEF NoRepeat
<1> HIDE DEF L, C
<1>4. /\ Required \o <<Metadata>> \o L \in Seq(RequiredSet \cup {Metadata} \cup LanceSet)
      /\ NoRepeat(Required \o <<Metadata>> \o L)
    <2>1. (RequiredSet \cup {Metadata}) \cap LanceSet = {}
        BY DEF RequiredSet, Metadata, LanceSet
    <2> QED BY <2>1, <1>1, <1>2, ConcatNoRepeat
<1>5. /\ Required \o <<Metadata>> \o L \o C
            \in Seq(RequiredSet \cup {Metadata} \cup LanceSet \cup CodeSet)
      /\ NoRepeat(Required \o <<Metadata>> \o L \o C)
    <2>1. (RequiredSet \cup {Metadata} \cup LanceSet) \cap CodeSet = {}
        BY DEF RequiredSet, Metadata, LanceSet, CodeSet
    <2> QED BY <2>1, <1>3, <1>4, ConcatNoRepeat
<1> QED BY <1>5 DEF L, C, AllPaths

-----------------------------------------------------------------------------
(***************************************************************************)
(* Archives.                                                               *)
(***************************************************************************)
Contents == [revision : 0 .. MaxRevision, stamp : Nat]
Entries == [key : AllPaths, content : Contents]
Once(entries) ==
    \A i, j \in 1 .. Len(entries) : entries[i].key = entries[j].key => i = j

Shaped(a) ==
    a = [kind |-> "archive", whole |-> a.whole, manifests |-> a.manifests,
         entries |-> a.entries]

(* What pack returns: each key once, and the manifest lists its entries.   *)
Faithful(a) ==
    /\ Shaped(a) /\ a.whole = TRUE
    /\ a.entries \in Seq(Entries) /\ Once(a.entries)
    /\ a.manifests \in Seq({a.manifests[1]}) /\ Len(a.manifests) = 1
    /\ a.manifests[1].checksums = Checksums(a.entries)

(* What may become of it on the way: the manifest is lost or repeated, but *)
(* it is no other, and no entry has a key that the archive did not have.   *)
Derived(b, a) ==
    /\ b.manifests \in Seq({a.manifests[1]})
    /\ b.entries \in Seq([key : Keys(a.entries), content : Contents])

LEMMA KeysOfSeq ==
    ASSUME NEW S, NEW entries \in Seq(S)
    PROVE  /\ DOMAIN entries = 1 .. Len(entries) /\ Len(entries) \in Nat
           /\ Keys(entries) = {entries[i].key : i \in 1 .. Len(entries)}
BY LenProperties DEF Keys

(* Checksums has, of every key, the content of one of its entries.         *)
LEMMA ChecksumsOfEntries ==
    ASSUME NEW S, NEW entries \in Seq(S)
    PROVE  /\ DOMAIN Checksums(entries) = Keys(entries)
           /\ \A k \in Keys(entries) : \E i \in 1 .. Len(entries) :
                 entries[i].key = k /\ Checksums(entries)[k] = entries[i].content
<1>1. /\ DOMAIN entries = 1 .. Len(entries) /\ Len(entries) \in Nat
      /\ Keys(entries) = {entries[i].key : i \in 1 .. Len(entries)}
    BY KeysOfSeq
<1>2. DOMAIN Checksums(entries) = Keys(entries)
    BY DEF Checksums
<1>3. ASSUME NEW k \in Keys(entries)
      PROVE  \E i \in 1 .. Len(entries) :
                entries[i].key = k /\ Checksums(entries)[k] = entries[i].content
    <2> DEFINE IsLast(i) == /\ entries[i].key = k
                            /\ \A j \in DOMAIN entries : entries[j].key = k => j <= i
               last == CHOOSE i \in DOMAIN entries : IsLast(i)
               I == {i \in 1 .. Len(entries) : entries[i].key = k}
    <2>1. I # {} /\ I \subseteq 1 .. Len(entries)
        BY <1>1
    <2>2. PICK i \in I : \A j \in I : j <= i
        BY <1>1, <2>1, GreatestIndex
    <2>3. \E n \in DOMAIN entries : IsLast(n)
        BY <1>1, <2>2
    <2>4. last \in DOMAIN entries /\ entries[last].key = k
        BY <2>3
    <2>5. Checksums(entries)[k] = entries[last].content
        BY DEF Checksums
    <2> HIDE DEF last
    <2> QED BY <1>1, <2>4, <2>5
<1> QED BY <1>2, <1>3

(* When each key is there once, every entry is as it is listed.            *)
LEMMA OnceIsListed ==
    ASSUME NEW S, NEW entries \in Seq(S), Once(entries)
    PROVE  \A i \in 1 .. Len(entries) :
              /\ entries[i].key \in Keys(entries)
              /\ Checksums(entries)[entries[i].key] = entries[i].content
<1> SUFFICES ASSUME NEW i \in 1 .. Len(entries)
             PROVE  /\ entries[i].key \in Keys(entries)
                    /\ Checksums(entries)[entries[i].key] = entries[i].content
    OBVIOUS
<1>1. entries[i].key \in Keys(entries)
    BY KeysOfSeq
<1>2. PICK j \in 1 .. Len(entries) :
            /\ entries[j].key = entries[i].key
            /\ Checksums(entries)[entries[i].key] = entries[j].content
    BY <1>1, ChecksumsOfEntries
<1>3. j = i
    BY <1>2 DEF Once
<1> QED BY <1>1, <1>2, <1>3

LEMMA FaithfulIsAccepted ==
    ASSUME NEW a, Faithful(a)
    PROVE  Accepted(a)
<1>1. /\ a.entries \in Seq(Entries) /\ Once(a.entries)
      /\ a.manifests[1].checksums = Checksums(a.entries)
      /\ a.whole /\ Len(a.manifests) = 1
    BY DEF Faithful
<1>2. DOMAIN a.entries = 1 .. Len(a.entries)
    BY <1>1, KeysOfSeq
<1>3. \A i \in 1 .. Len(a.entries) :
        Checksums(a.entries)[a.entries[i].key] = a.entries[i].content
    BY <1>1, OnceIsListed
<1>4. DOMAIN Checksums(a.entries) = Keys(a.entries)
    BY <1>1, ChecksumsOfEntries
<1>5. AsListed(a)
    BY <1>1, <1>2, <1>3 DEF AsListed
<1> QED BY <1>1, <1>4, <1>5 DEF Accepted, ReadManifest, VerifyChecksums

(* An archive that is accepted after it was damaged unpacks to the same    *)
(* files: what could have been damaged is compared, and what is compared   *)
(* is all that is unpacked.                                                *)
LEMMA AcceptedIsIntact ==
    ASSUME NEW a, Faithful(a), NEW b, Derived(b, a), Accepted(b)
    PROVE  /\ b.manifests[1] = a.manifests[1]
           /\ Extracted(b) = Extracted(a)
<1>1. b.manifests[1] = a.manifests[1]
    <2>1. Len(b.manifests) = 1 /\ b.manifests \in Seq({a.manifests[1]})
        BY DEF Accepted, ReadManifest, Derived
    <2>2. 1 \in 1 .. Len(b.manifests)
        BY <2>1
    <2> QED BY <2>1, <2>2, ElementOfSeq
<1>2. /\ a.entries \in Seq(Entries)
      /\ a.manifests[1].checksums = Checksums(a.entries)
      /\ DOMAIN Checksums(a.entries) = Keys(a.entries)
    BY ChecksumsOfEntries DEF Faithful
<1>3. /\ b.entries \in Seq([key : Keys(a.entries), content : Contents])
      /\ DOMAIN b.entries = 1 .. Len(b.entries)
    BY KeysOfSeq DEF Derived
<1>4. /\ \A i \in 1 .. Len(b.entries) :
            b.entries[i].key \in Keys(a.entries) =>
                b.entries[i].content = Checksums(a.entries)[b.entries[i].key]
      /\ Keys(a.entries) \subseteq Keys(b.entries)
    BY <1>1, <1>2, <1>3 DEF Accepted, VerifyChecksums, AsListed
<1>5. \A i \in 1 .. Len(b.entries) : b.entries[i].key \in Keys(a.entries)
    <2> SUFFICES ASSUME NEW i \in 1 .. Len(b.entries)
                 PROVE  b.entries[i].key \in Keys(a.entries)
        OBVIOUS
    <2>1. b.entries[i] \in [key : Keys(a.entries), content : Contents]
        BY <1>3, ElementOfSeq
    <2> QED BY <2>1
<1>6. Keys(b.entries) = Keys(a.entries)
    BY <1>3, <1>4, <1>5, KeysOfSeq
<1>7. \A k \in Keys(a.entries) : Checksums(b.entries)[k] = Checksums(a.entries)[k]
    <2> SUFFICES ASSUME NEW k \in Keys(a.entries)
                 PROVE  Checksums(b.entries)[k] = Checksums(a.entries)[k]
        OBVIOUS
    <2>1. PICK i \in 1 .. Len(b.entries) :
                b.entries[i].key = k /\ Checksums(b.entries)[k] = b.entries[i].content
        BY <1>3, <1>6, ChecksumsOfEntries
    <2> QED BY <2>1, <1>4
<1>8. Checksums(b.entries) = Checksums(a.entries)
    <2>1. /\ Checksums(a.entries) = [k \in Keys(a.entries) |-> Checksums(a.entries)[k]]
          /\ Checksums(b.entries) = [k \in Keys(b.entries) |-> Checksums(b.entries)[k]]
        BY DEF Checksums
    <2> QED BY <1>6, <1>7, <2>1
<1> QED BY <1>1, <1>8 DEF Extracted

-----------------------------------------------------------------------------
(***************************************************************************)
(* The invariant: a packing reads each path once; an output that is whole  *)
(* has been returned; a parcel that is whole derives from such an archive. *)
(***************************************************************************)
Packing ==
    packing # None =>
        /\ packing = [kind |-> packing.kind, entries |-> packing.entries,
                      extensions |-> packing.extensions, left |-> packing.left]
        /\ packing.entries \in Seq(Entries) /\ Once(packing.entries)
        /\ packing.left \in Seq(AllPaths) /\ NoRepeat(packing.left)
        /\ \A i \in 1 .. Len(packing.entries), j \in 1 .. Len(packing.left) :
              packing.entries[i].key # packing.left[j]
PackedFaithful == \A a \in packed : Faithful(a)
OutputReturned ==
    output # None => Shaped(output) /\ (output.whole = TRUE => output \in packed)
ParcelDerived ==
    parcel # None =>
        /\ parcel = [kind |-> "parcel", bundle |-> parcel.bundle,
                     signature |-> parcel.signature]
        /\ Shaped(parcel.bundle)
        /\ parcel.bundle.whole = TRUE => \E a \in packed : Derived(parcel.bundle, a)
Revised == tree \in [TreePaths -> 0 .. MaxRevision] /\ packs \in Nat

BundleInv ==
    /\ Revised /\ Packing /\ PackedFaithful /\ OutputReturned /\ ParcelDerived
    /\ InstalledAsPacked

LEMMA FunctionInSeq ==
    ASSUME NEW S, NEW T, NEW n \in Nat, NEW s \in [1 .. n -> S], \A i \in 1 .. n : s[i] \in T
    PROVE  s \in Seq(T)
<1>1. s \in [1 .. n -> T]
    OBVIOUS
<1> QED BY <1>1, SeqDef

LEMMA FaithfulIsDerived ==
    ASSUME NEW a, Faithful(a)
    PROVE  Derived(a, a)
<1>1. a.entries \in Seq([key : Keys(a.entries), content : Contents])
    <2>1. /\ a.entries \in Seq(Entries) /\ Len(a.entries) \in Nat
          /\ a.entries \in [1 .. Len(a.entries) -> Entries]
        BY LenProperties DEF Faithful
    <2>2. \A i \in 1 .. Len(a.entries) :
              a.entries[i] \in [key : Keys(a.entries), content : Contents]
        <3> SUFFICES ASSUME NEW i \in 1 .. Len(a.entries)
                     PROVE  a.entries[i] \in [key : Keys(a.entries), content : Contents]
            OBVIOUS
        <3>1. a.entries[i] \in Entries /\ a.entries[i].key \in Keys(a.entries)
            BY <2>1, KeysOfSeq
        <3> QED BY <3>1 DEF Entries
    <2> QED BY <2>1, <2>2, FunctionInSeq
<1>2. a.manifests \in Seq({a.manifests[1]})
    BY DEF Faithful
<1> QED BY <1>1, <1>2 DEF Derived

LEMMA DamagedIsDerived ==
    ASSUME NEW a, NEW b, Shaped(b), b.whole = TRUE => Derived(b, a), NEW c \in Damaged(b)
    PROVE  Shaped(c) /\ (c.whole = TRUE => b.whole = TRUE /\ Derived(c, a))
<1>0. b = [kind |-> "archive", whole |-> b.whole, manifests |-> b.manifests,
           entries |-> b.entries]
    BY DEF Shaped
<1> DEFINE T == [key : Keys(a.entries), content : Contents]
<1>1. Garbled \in Contents
    BY BundleAssumption DEF Garbled, Text, Contents
<1>2. CASE \E i \in DOMAIN b.entries : c = [b EXCEPT !.entries[i].content = Garbled]
    <2>1. PICK i \in DOMAIN b.entries : c = [b EXCEPT !.entries[i].content = Garbled]
        BY <1>2
    <2>2. /\ c.whole = b.whole /\ c.manifests = b.manifests /\ Shaped(c)
          /\ c.entries = [b.entries EXCEPT ![i] = [b.entries[i] EXCEPT !.content = Garbled]]
        BY <1>0, <2>1 DEF Shaped
    <2>3. ASSUME Derived(b, a) PROVE c.entries \in Seq(T)
        <3>1. b.entries \in Seq(T) /\ i \in 1 .. Len(b.entries)
            BY <2>3, LenProperties DEF Derived
        <3>2. b.entries[i] \in T
            BY <3>1, ElementOfSeq
        <3>3. [b.entries[i] EXCEPT !.content = Garbled] \in T
            BY <3>2, <1>1
        <3> QED BY <2>2, <3>1, <3>3, ExceptSeq
    <2> QED BY <2>2, <2>3 DEF Derived
<1>3. CASE \E i \in DOMAIN b.entries : c = [b EXCEPT !.entries = RemoveAt(@, i)]
    <2>1. PICK i \in DOMAIN b.entries : c = [b EXCEPT !.entries = RemoveAt(@, i)]
        BY <1>3
    <2>2. /\ c.whole = b.whole /\ c.manifests = b.manifests /\ Shaped(c)
          /\ c.entries = RemoveAt(b.entries, i)
        BY <1>0, <2>1 DEF Shaped
    <2>3. ASSUME Derived(b, a) PROVE c.entries \in Seq(T)
        <3>1. b.entries \in Seq(T) /\ i \in 1 .. Len(b.entries)
            BY <2>3, LenProperties DEF Derived
        <3> QED BY <2>2, <3>1, RemoveAtInSeq
    <2> QED BY <2>2, <2>3 DEF Derived
<1>4. CASE \E i \in DOMAIN b.entries :
                c = [b EXCEPT !.entries = Append(@, Entry(@[i].key, Garbled))]
    <2>1. PICK i \in DOMAIN b.entries :
                c = [b EXCEPT !.entries = Append(@, Entry(@[i].key, Garbled))]
        BY <1>4
    <2>2. /\ c.whole = b.whole /\ c.manifests = b.manifests /\ Shaped(c)
          /\ c.entries = Append(b.entries, Entry(b.entries[i].key, Garbled))
        <3> DEFINE more == Append(b.entries, Entry(b.entries[i].key, Garbled))
        <3>1. c = [b EXCEPT !.entries = more]
            BY <2>1
        <3> HIDE DEF more
        <3>2. c = [kind |-> "archive", whole |-> b.whole, manifests |-> b.manifests,
                   entries |-> more]
            BY <1>0, <3>1
        <3> QED BY <3>2 DEF Shaped, more
    <2>3. ASSUME Derived(b, a) PROVE c.entries \in Seq(T)
        <3>1. b.entries \in Seq(T) /\ i \in 1 .. Len(b.entries)
            BY <2>3, LenProperties DEF Derived
        <3>2. b.entries[i].key \in Keys(a.entries)
            <4>1. b.entries[i] \in T
                BY <3>1, ElementOfSeq
            <4> QED BY <4>1
        <3>3. Entry(b.entries[i].key, Garbled) \in T
            BY <3>2, <1>1 DEF Entry
        <3> QED BY <2>2, <3>1, <3>3
    <2> QED BY <2>2, <2>3 DEF Derived
<1>5. CASE c = [b EXCEPT !.manifests = <<>>]
    <2>1. /\ c.whole = b.whole /\ c.manifests = <<>> /\ c.entries = b.entries /\ Shaped(c)
        BY <1>0, <1>5 DEF Shaped
    <2> QED BY <2>1, EmptySeq DEF Derived
<1>6. CASE c = [b EXCEPT !.manifests = @ \o @]
    <2>1. /\ c.whole = b.whole /\ c.manifests = b.manifests \o b.manifests
          /\ c.entries = b.entries /\ Shaped(c)
        <3> DEFINE twice == b.manifests \o b.manifests
        <3>1. c = [b EXCEPT !.manifests = twice]
            BY <1>6
        <3> HIDE DEF twice
        <3>2. c = [kind |-> "archive", whole |-> b.whole, manifests |-> twice,
                   entries |-> b.entries]
            BY <1>0, <3>1
        <3> QED BY <3>2 DEF Shaped, twice
    <2> QED BY <2>1, ConcatProperties DEF Derived
<1>7. CASE c = [b EXCEPT !.whole = FALSE]
    <2> DEFINE cut == FALSE
    <2>1. c = [b EXCEPT !.whole = cut] /\ cut # TRUE
        BY <1>7
    <2> HIDE DEF cut
    <2>2. c = [kind |-> "archive", whole |-> cut, manifests |-> b.manifests,
               entries |-> b.entries]
        BY <1>0, <2>1
    <2> QED BY <2>1, <2>2 DEF Shaped
<1> QED BY <1>2, <1>3, <1>4, <1>5, <1>6, <1>7 DEF Damaged

(* What has no end does not get one.                                       *)
LEMMA DamagedStaysCut ==
    ASSUME NEW b, Shaped(b), b.whole # TRUE, NEW c \in Damaged(b)
    PROVE  Shaped(c) /\ c.whole # TRUE
BY DamagedIsDerived

-----------------------------------------------------------------------------
(***************************************************************************)
(* Steps of a packing.                                                     *)
(***************************************************************************)
LEMMA TailOnce ==
    ASSUME NEW S, NEW s \in Seq(S), s # <<>>, NoRepeat(s)
    PROVE  /\ Head(s) \in S /\ Head(s) = s[1] /\ 1 \in 1 .. Len(s)
           /\ Tail(s) \in Seq(S) /\ NoRepeat(Tail(s))
           /\ \A j \in 1 .. Len(Tail(s)) :
                 /\ j + 1 \in 1 .. Len(s) /\ Tail(s)[j] = s[j + 1]
                 /\ Tail(s)[j] # Head(s)
<1>1. /\ Head(s) \in S /\ Tail(s) \in Seq(S) /\ Head(s) = s[1]
      /\ Len(Tail(s)) = Len(s) - 1
      /\ \A i \in 1 .. Len(Tail(s)) : Tail(s)[i] = s[i + 1]
    BY HeadTailProperties
<1>2. Len(s) \in Nat /\ Len(s) # 0
    BY LenProperties, EmptySeq
<1> QED BY <1>1, <1>2 DEF NoRepeat

LEMMA AppendOnce ==
    ASSUME NEW entries \in Seq(Entries), Once(entries),
           NEW p \in AllPaths, NEW content \in Contents,
           \A i \in 1 .. Len(entries) : entries[i].key # p
    PROVE  LET more == entries \o <<Entry(p, content)>>
           IN  /\ more \in Seq(Entries) /\ Once(more)
               /\ \A i \in 1 .. Len(more) :
                     more[i].key = p \/ \E j \in 1 .. Len(entries) :
                                            more[i].key = entries[j].key
<1> DEFINE e == Entry(p, content)
           more == entries \o <<e>>
<1>1. e \in Entries /\ e.key = p
    BY DEF Entry, Entries
<1> HIDE DEF e
<1>2. /\ more \in Seq(Entries) /\ Len(more) = Len(entries) + 1
      /\ \A i \in 1 .. Len(entries) + 1 :
            more[i] = IF i <= Len(entries) THEN entries[i] ELSE <<e>>[i - Len(entries)]
    <2>1. <<e>> \in Seq(Entries) /\ Len(<<e>>) = 1
        BY <1>1
    <2> HIDE DEF more
    <2> QED BY <2>1, ConcatProperties DEF more
<1>3. Len(entries) \in Nat
    BY LenProperties
<1>4. \A i \in 1 .. Len(entries) + 1 :
            more[i] = IF i <= Len(entries) THEN entries[i] ELSE e
    <2> SUFFICES ASSUME NEW i \in 1 .. Len(entries) + 1, ~ (i <= Len(entries))
                 PROVE  <<e>>[i - Len(entries)] = e
        BY <1>2
    <2>1. i - Len(entries) = 1
        BY <1>3
    <2> QED BY <2>1
<1> HIDE DEF more
<1>5. Once(more)
    BY <1>1, <1>2, <1>3, <1>4 DEF Once
<1>6. \A i \in 1 .. Len(more) :
            more[i].key = p \/ \E j \in 1 .. Len(entries) : more[i].key = entries[j].key
    BY <1>1, <1>2, <1>3, <1>4
<1> QED BY <1>2, <1>5, <1>6 DEF more, e

LEMMA ContentTyped ==
    ASSUME Revised, NEW p \in AllPaths
    PROVE  ContentOf(p) \in Contents
<1>1. packs \in Nat
    BY DEF Revised
<1>2. CASE p = Metadata
    BY <1>1, <1>2, BundleAssumption DEF ContentOf, Text, Contents
<1>3. CASE p # Metadata
    <2>1. tree[p] \in 0 .. MaxRevision
        BY <1>3, PathsAreOfTheTree DEF Revised
    <2> QED BY <1>1, <1>3, <2>1 DEF ContentOf, Text, Contents
<1> QED BY <1>2, <1>3

LEMMA ArchiveFaithful ==
    ASSUME Packing, packing # None
    PROVE  Faithful(Archive(packing))
<1> DEFINE m == ManifestOf(packing)
           a == Archive(packing)
<1>1. m.checksums = Checksums(packing.entries)
    BY DEF ManifestOf
<1> HIDE DEF m
<1>2. /\ a.whole = TRUE /\ a.manifests = <<m>> /\ a.entries = packing.entries /\ Shaped(a)
    BY DEF Archive, Shaped, m
<1>3. packing.entries \in Seq(Entries) /\ Once(packing.entries)
    BY DEF Packing
<1> HIDE DEF a
<1>4. /\ a.manifests \in Seq({a.manifests[1]}) /\ Len(a.manifests) = 1
      /\ a.manifests[1] = m
    BY <1>2
<1>5. Faithful(a)
    BY <1>1, <1>2, <1>3, <1>4 DEF Faithful
<1> QED BY <1>5 DEF a

-----------------------------------------------------------------------------
(***************************************************************************)
(* The invariant is inductive.                                             *)
(***************************************************************************)
LEMMA BundleInit == InitBundle => BundleInv
<1> SUFFICES ASSUME InitBundle PROVE BundleInv
    OBVIOUS
<1>1. Revised
    BY BundleAssumption DEF InitBundle, Revised
<1>2. Packing /\ OutputReturned /\ ParcelDerived /\ InstalledAsPacked /\ PackedFaithful
    BY DEF InitBundle, Packing, OutputReturned, ParcelDerived, InstalledAsPacked,
           PackedFaithful
<1> QED BY <1>1, <1>2 DEF BundleInv

LEMMA BundleStutters ==
    BundleInv /\ UNCHANGED bundleVars => BundleInv'
BY DEF BundleInv, bundleVars, Revised, Packing, PackedFaithful, OutputReturned,
       ParcelDerived, InstalledAsPacked

LEMMA TreeStep ==
    ASSUME BundleInv, NEW p \in TreePaths, Rewrite(p) \/ Clear(p)
    PROVE  BundleInv'
<1>1. p \in TreePaths /\ MaxRevision \in Nat
    BY BundleAssumption
<1>2. Revised'
    <2>1. /\ tree[p] \in 0 .. MaxRevision /\ tree \in [TreePaths -> 0 .. MaxRevision]
          /\ packs \in Nat
        BY <1>1 DEF BundleInv, Revised
    <2>2. CASE Rewrite(p)
        <3> DEFINE r == IF tree[p] = 0 THEN MaxRevision ELSE tree[p] + 1
        <3>1. r \in 0 .. MaxRevision
            BY <1>1, <2>1, <2>2 DEF Rewrite
        <3>2. tree' = [tree EXCEPT ![p] = r] /\ packs' = packs
            BY <2>2 DEF Rewrite
        <3> HIDE DEF r
        <3> QED BY <2>1, <3>1, <3>2 DEF Revised
    <2>3. CASE Clear(p)
        <3>1. tree' = [tree EXCEPT ![p] = 0] /\ packs' = packs /\ 0 \in 0 .. MaxRevision
            BY <1>1, <2>3 DEF Clear
        <3> QED BY <2>1, <3>1 DEF Revised
    <2> QED BY <2>2, <2>3
<1>3. UNCHANGED <<packing, output, parcel, installed, packed>>
    BY DEF Rewrite, Clear
<1> QED BY <1>2, <1>3 DEF BundleInv, Packing, PackedFaithful, OutputReturned,
                          ParcelDerived, InstalledAsPacked

LEMMA PackStep ==
    ASSUME BundleInv, NEW e, Pack(e)
    PROVE  BundleInv'
<1> DEFINE left == Required \o <<Metadata>>
                    \o (IF "lance" \in e THEN LancePaths ELSE <<>>)
                    \o (IF "code" \in e THEN CodePaths ELSE <<>>)
<1>1. left \in Seq(AllPaths) /\ NoRepeat(left)
    BY LeftAtFirst
<1>2. packing' = [kind |-> "collecting", entries |-> <<>>, extensions |-> e, left |-> left]
    BY DEF Pack
<1> HIDE DEF left
<1>3. Packing'
    <2>1. /\ packing'.entries = <<>> /\ packing'.left = left
          /\ packing' = [kind |-> packing'.kind, entries |-> packing'.entries,
                         extensions |-> packing'.extensions, left |-> packing'.left]
        BY <1>2
    <2>2. <<>> \in Seq(Entries) /\ Len(<<>>) = 0
        OBVIOUS
    <2>3. Once(<<>>)
        BY <2>2 DEF Once
    <2> QED BY <1>1, <2>1, <2>2, <2>3 DEF Packing
<1>4. Revised'
    <2>1. packs \in Nat /\ packs' = packs + 1 /\ tree' = tree
        BY DEF BundleInv, Revised, Pack
    <2> QED BY <2>1 DEF BundleInv, Revised
<1>5. UNCHANGED <<output, parcel, installed, packed>>
    BY DEF Pack
<1> QED BY <1>3, <1>4, <1>5 DEF BundleInv, PackedFaithful, OutputReturned,
                                ParcelDerived, InstalledAsPacked

LEMMA CollectStep ==
    ASSUME BundleInv, Collect
    PROVE  BundleInv'
<1> DEFINE p == Head(packing.left)
           more == packing.entries \o Collected(p)
<1>1. packing # None /\ packing.left # <<>>
    BY DEF Collect, None
<1>2. /\ packing = [kind |-> packing.kind, entries |-> packing.entries,
                    extensions |-> packing.extensions, left |-> packing.left]
      /\ packing.entries \in Seq(Entries) /\ Once(packing.entries)
      /\ packing.left \in Seq(AllPaths) /\ NoRepeat(packing.left)
      /\ \A i \in 1 .. Len(packing.entries), j \in 1 .. Len(packing.left) :
            packing.entries[i].key # packing.left[j]
    BY <1>1 DEF BundleInv, Packing
<1>3. /\ p \in AllPaths /\ p = packing.left[1] /\ 1 \in 1 .. Len(packing.left)
      /\ Tail(packing.left) \in Seq(AllPaths) /\ NoRepeat(Tail(packing.left))
      /\ \A j \in 1 .. Len(Tail(packing.left)) :
            /\ j + 1 \in 1 .. Len(packing.left)
            /\ Tail(packing.left)[j] = packing.left[j + 1]
            /\ Tail(packing.left)[j] # p
    BY <1>1, <1>2, TailOnce
<1>4. \/ packing' = None
      \/ packing' = [packing EXCEPT !.left = Tail(@), !.entries = more]
    BY DEF Collect
<1> HIDE DEF p
<1>5. /\ more \in Seq(Entries) /\ Once(more)
      /\ \A i \in 1 .. Len(more) :
            more[i].key = p \/ \E j \in 1 .. Len(packing.entries) :
                                   more[i].key = packing.entries[j].key
    <2>1. CASE Collected(p) = <<>>
        <3>1. more = packing.entries
            BY <1>2, <2>1
        <3> QED BY <1>2, <3>1
    <2>2. CASE Collected(p) = <<Entry(p, ContentOf(p))>>
        <3>1. ContentOf(p) \in Contents
            BY <1>3, ContentTyped DEF BundleInv
        <3>2. \A i \in 1 .. Len(packing.entries) : packing.entries[i].key # p
            BY <1>2, <1>3
        <3> QED BY <1>2, <1>3, <2>2, <3>1, <3>2, AppendOnce
    <2> QED BY <2>1, <2>2 DEF Collected
<1> HIDE DEF more
<1>6. Packing'
    <2> SUFFICES ASSUME packing' # None PROVE Packing'
        BY DEF Packing
    <2>1. packing' = [packing EXCEPT !.left = Tail(@), !.entries = more]
        BY <1>4
    <2>2. packing' = [kind |-> packing.kind, entries |-> more,
                      extensions |-> packing.extensions, left |-> Tail(packing.left)]
        BY <1>2, <2>1
    <2>3. \A i \in 1 .. Len(more), j \in 1 .. Len(Tail(packing.left)) :
                more[i].key # Tail(packing.left)[j]
        BY <1>2, <1>3, <1>5
    <2> QED BY <1>3, <1>5, <2>2, <2>3 DEF Packing
<1>7. UNCHANGED <<tree, packs, output, parcel, installed, packed>>
    BY DEF Collect
<1> QED BY <1>6, <1>7 DEF BundleInv, Revised, PackedFaithful, OutputReturned,
                          ParcelDerived, InstalledAsPacked

LEMMA CreateStep ==
    ASSUME BundleInv, Create
    PROVE  BundleInv'
<1>1. packing # None
    BY DEF Create, None
<1>2. Packing'
    <2>1. packing = [kind |-> packing.kind, entries |-> packing.entries,
                     extensions |-> packing.extensions, left |-> packing.left]
        BY <1>1 DEF BundleInv, Packing
    <2>2. packing' = [kind |-> "writing", entries |-> packing.entries,
                      extensions |-> packing.extensions, left |-> packing.left]
        BY <2>1 DEF Create
    <2> QED BY <1>1, <2>2 DEF BundleInv, Packing
<1>3. OutputReturned'
    <2> DEFINE cut == FALSE
               m == <<ManifestOf(packing)>>
    <2>1. cut # TRUE /\ output' = [kind |-> "archive", whole |-> cut, manifests |-> m,
                                   entries |-> packing.entries]
        BY DEF Create, Archive
    <2> HIDE DEF cut, m
    <2> QED BY <2>1 DEF OutputReturned, Shaped
<1>4. UNCHANGED <<tree, packs, parcel, installed, packed>>
    BY DEF Create
<1> QED BY <1>2, <1>3, <1>4 DEF BundleInv, Revised, PackedFaithful, ParcelDerived,
                                InstalledAsPacked

LEMMA FinishStep ==
    ASSUME BundleInv, Finish
    PROVE  BundleInv'
<1> DEFINE a == Archive(packing)
<1>1. packing # None
    BY DEF Finish, None
<1>2. Faithful(a)
    BY <1>1, ArchiveFaithful DEF BundleInv
<1>3. /\ packing' = None /\ output' = a /\ packed' = packed \cup {a}
      /\ UNCHANGED <<tree, packs, parcel, installed>>
    BY DEF Finish
<1> HIDE DEF a
<1>4. Packing' /\ PackedFaithful' /\ OutputReturned'
    <2>1. Packing'
        BY <1>3 DEF Packing
    <2>2. PackedFaithful'
        BY <1>2, <1>3 DEF BundleInv, PackedFaithful
    <2>3. OutputReturned'
        BY <1>2, <1>3 DEF OutputReturned, Faithful
    <2> QED BY <2>1, <2>2, <2>3
<1>5. ParcelDerived' /\ InstalledAsPacked' /\ Revised'
    <2>1. packed \subseteq packed'
        BY <1>3
    <2>2. ParcelDerived'
        BY <1>3, <2>1 DEF BundleInv, ParcelDerived
    <2>3. InstalledAsPacked'
        BY <1>3, <2>1 DEF BundleInv, InstalledAsPacked
    <2>4. Revised'
        BY <1>3 DEF BundleInv, Revised
    <2> QED BY <2>2, <2>3, <2>4
<1> QED BY <1>4, <1>5 DEF BundleInv

LEMMA ShipStep ==
    ASSUME BundleInv, Ship
    PROVE  BundleInv'
<1>1. /\ output # None
      /\ parcel' = [kind |-> "parcel", bundle |-> output, signature |-> signature]
      /\ UNCHANGED <<tree, packing, packs, output, installed, packed>>
    BY DEF Ship
<1>2. ParcelDerived'
    <2>1. /\ parcel'.bundle = output
          /\ parcel' = [kind |-> "parcel", bundle |-> parcel'.bundle,
                        signature |-> parcel'.signature]
        BY <1>1
    <2>2. Shaped(output) /\ (output.whole = TRUE => output \in packed)
        BY <1>1 DEF BundleInv, OutputReturned
    <2>3. output.whole = TRUE => \E a \in packed : Derived(output, a)
        BY <2>2, FaithfulIsDerived DEF BundleInv, PackedFaithful
    <2> QED BY <1>1, <2>1, <2>2, <2>3 DEF ParcelDerived
<1> QED BY <1>1, <1>2 DEF BundleInv, Revised, Packing, PackedFaithful, OutputReturned,
                          InstalledAsPacked

LEMMA DamageStep ==
    ASSUME BundleInv, Damage
    PROVE  BundleInv'
<1>1. PICK c \in Damaged(parcel.bundle) : parcel' = [parcel EXCEPT !.bundle = c]
    BY DEF Damage
<1>2. /\ parcel # None
      /\ UNCHANGED <<tree, packing, packs, output, installed, packed>>
    BY DEF Damage
<1>3. /\ parcel = [kind |-> "parcel", bundle |-> parcel.bundle,
                   signature |-> parcel.signature]
      /\ Shaped(parcel.bundle)
      /\ parcel.bundle.whole = TRUE => \E a \in packed : Derived(parcel.bundle, a)
    BY <1>2 DEF BundleInv, ParcelDerived
<1>4. parcel' = [kind |-> "parcel", bundle |-> c, signature |-> parcel.signature]
    BY <1>1, <1>3
<1>5. Shaped(c) /\ (c.whole = TRUE => \E a \in packed : Derived(c, a))
    <2>1. CASE parcel.bundle.whole = TRUE
        <3>1. PICK a \in packed : Derived(parcel.bundle, a)
            BY <1>3, <2>1
        <3> QED BY <1>1, <1>3, <3>1, DamagedIsDerived
    <2>2. CASE parcel.bundle.whole # TRUE
        BY <1>1, <1>3, <2>2, DamagedStaysCut
    <2> QED BY <2>1, <2>2
<1>6. ParcelDerived'
    <2>1. /\ parcel'.bundle = c
          /\ parcel' = [kind |-> "parcel", bundle |-> parcel'.bundle,
                        signature |-> parcel'.signature]
        BY <1>4
    <2> QED BY <1>2, <1>5, <2>1 DEF ParcelDerived
<1> QED BY <1>2, <1>6 DEF BundleInv, Revised, Packing, PackedFaithful, OutputReturned,
                          InstalledAsPacked

LEMMA InstallStep ==
    ASSUME BundleInv, NEW verifyKey, Install(verifyKey)
    PROVE  BundleInv'
<1>1. /\ parcel # None /\ Accepted(parcel.bundle)
      /\ installed' = [kind |-> "bundle", files |-> Extracted(parcel.bundle),
                       manifest |-> parcel.bundle.manifests[1]]
      /\ UNCHANGED <<tree, packing, packs, output, parcel, packed>>
    BY DEF Install
<1>2. parcel.bundle.whole = TRUE
    BY <1>1 DEF Accepted, ReadManifest
<1>3. PICK a \in packed : Derived(parcel.bundle, a)
    BY <1>1, <1>2 DEF BundleInv, ParcelDerived
<1>4. Faithful(a)
    BY <1>3 DEF BundleInv, PackedFaithful
<1>5. /\ parcel.bundle.manifests[1] = a.manifests[1]
      /\ Extracted(parcel.bundle) = Extracted(a)
    BY <1>1, <1>3, <1>4, AcceptedIsIntact
<1>6. InstalledAsPacked'
    BY <1>1, <1>3, <1>5 DEF InstalledAsPacked, Extracted
<1> QED BY <1>1, <1>6 DEF BundleInv, Revised, Packing, PackedFaithful, OutputReturned,
                          ParcelDerived

LEMMA BundleNext == BundleInv /\ NextBundle => BundleInv'
<1> SUFFICES ASSUME BundleInv, NextBundle PROVE BundleInv'
    OBVIOUS
<1>1. CASE \E p \in TreePaths \cap plan.rewritten : Rewrite(p) \/ Clear(p)
    BY <1>1, TreeStep
<1>2. CASE \E extensions \in plan.extensions : Pack(extensions)
    BY <1>2, PackStep
<1>3. CASE Collect
    BY <1>3, CollectStep
<1>4. CASE Create
    BY <1>4, CreateStep
<1>5. CASE Finish
    BY <1>5, FinishStep
<1>6. CASE Kill \/ Sign \/ Uninstall
    BY <1>6 DEF Kill, Sign, Uninstall, BundleInv, Revised, Packing, PackedFaithful,
                OutputReturned, ParcelDerived, InstalledAsPacked
<1>7. CASE Ship
    BY <1>7, ShipStep
<1>8. CASE Damage
    BY <1>8, DamageStep
<1>9. CASE \E verifyKey \in plan.keys : Install(verifyKey)
    BY <1>9, InstallStep
<1> QED BY <1>1, <1>2, <1>3, <1>4, <1>5, <1>6, <1>7, <1>8, <1>9 DEF NextBundle

-----------------------------------------------------------------------------
(***************************************************************************)
(* What is packed was there: a path without a file is an error or leaves   *)
(* no entry, so every entry but the generated one has a revision that was  *)
(* written.  A graph may be missing from an archive; one that is in it can *)
(* be read.                                                                *)
(***************************************************************************)
Written(entries) ==
    \A i \in 1 .. Len(entries) : entries[i].key # Metadata => entries[i].content.revision # 0
PackedWasThere ==
    /\ packing # None => Written(packing.entries)
    /\ \A a \in packed : Written(a.entries)

LEMMA WrittenCollectStep ==
    ASSUME BundleInv, PackedWasThere, Collect
    PROVE  PackedWasThere'
<1> DEFINE p == Head(packing.left)
           more == packing.entries \o Collected(p)
<1>1. packing # None
    BY DEF Collect, None
<1>2. /\ packing = [kind |-> packing.kind, entries |-> packing.entries,
                    extensions |-> packing.extensions, left |-> packing.left]
      /\ packing.entries \in Seq(Entries) /\ Written(packing.entries)
    BY <1>1 DEF BundleInv, Packing, PackedWasThere
<1>3. packed' = packed
    BY DEF Collect
<1> HIDE DEF p
<1> SUFFICES ASSUME packing' # None PROVE Written(packing'.entries)
    BY <1>3 DEF PackedWasThere
<1>4. packing'.entries = more
    <2>1. packing' = [packing EXCEPT !.left = Tail(@), !.entries = more]
        BY DEF Collect, p
    <2> HIDE DEF more
    <2> QED BY <1>2, <2>1
<1>5. CASE Collected(p) = <<>>
    <2>1. more = packing.entries
        BY <1>2, <1>5
    <2> QED BY <1>2, <1>4, <2>1
<1>6. CASE /\ Collected(p) = <<Entry(p, ContentOf(p))>>
           /\ p = Metadata \/ tree[p] # 0
    <2> DEFINE x == Entry(p, ContentOf(p))
               l == Len(packing.entries)
    <2>1. x.key = p /\ (p # Metadata => x.content.revision # 0)
        BY <1>6 DEF Entry, ContentOf, Text
    <2> HIDE DEF x
    <2>2. <<x>> \in Seq({x}) /\ Len(<<x>>) = 1 /\ <<x>>[1] = x
        OBVIOUS
    <2>3. /\ Len(more) = l + 1 /\ l \in Nat
          /\ \A i \in 1 .. l : more[i] = packing.entries[i]
          /\ more[l + 1] = x
        BY <1>2, <1>6, <2>2 DEF x
    <2> HIDE DEF more, l
    <2>4. ASSUME NEW i \in 1 .. l + 1, more[i].key # Metadata
          PROVE  more[i].content.revision # 0
        <3>1. CASE i \in 1 .. l
            BY <1>2, <2>3, <2>4, <3>1 DEF Written, l
        <3>2. CASE i = l + 1
            BY <2>1, <2>3, <2>4, <3>2
        <3> QED BY <2>3, <3>1, <3>2
    <2> QED BY <1>4, <2>3, <2>4 DEF Written
<1> QED BY <1>5, <1>6 DEF Collected

LEMMA WrittenNext ==
    BundleInv /\ PackedWasThere /\ [NextBundle]_bundleVars => PackedWasThere'
<1> SUFFICES ASSUME BundleInv, PackedWasThere, [NextBundle]_bundleVars PROVE PackedWasThere'
    OBVIOUS
<1>1. CASE \E extensions \in plan.extensions : Pack(extensions)
    <2>1. packing'.entries = <<>> /\ packed' = packed
        BY <1>1 DEF Pack
    <2>2. Written(<<>>)
        BY DEF Written
    <2> QED BY <2>1, <2>2 DEF PackedWasThere
<1>2. CASE Collect
    BY <1>2, WrittenCollectStep
<1>3. CASE Create
    <2>1. /\ packing # None
          /\ packing' = [packing EXCEPT !.kind = "writing"] /\ packed' = packed
        BY <1>3 DEF Create, None
    <2>2. packing = [kind |-> packing.kind, entries |-> packing.entries,
                     extensions |-> packing.extensions, left |-> packing.left]
        BY <2>1 DEF BundleInv, Packing
    <2>3. packing'.entries = packing.entries
        BY <2>1, <2>2
    <2> QED BY <2>1, <2>3 DEF PackedWasThere
<1>4. CASE Finish
    <2>1. packing # None /\ packing' = None
        BY <1>4 DEF Finish, None
    <2>2. packed' = packed \cup {Archive(packing)} /\ Archive(packing).entries = packing.entries
        BY <1>4 DEF Finish, Archive
    <2> QED BY <2>1, <2>2 DEF PackedWasThere
<1>5. CASE Kill
    BY <1>5 DEF Kill, PackedWasThere
<1>6. CASE UNCHANGED <<packing, packed>>
    BY <1>6 DEF PackedWasThere
<1> QED BY <1>1, <1>2, <1>3, <1>4, <1>5, <1>6
        DEF NextBundle, bundleVars, Rewrite, Clear, Sign, Ship, Damage, Install, Uninstall

(* A graph that is installed is of a revision that was written.            *)
LEMMA InstalledGraphWasThere ==
    ASSUME BundleInv, PackedWasThere, installed # None, "graph/" \in DOMAIN installed.files
    PROVE  installed.files["graph/"].revision # 0
<1>1. PICK a \in packed : installed.files = Extracted(a)
    BY DEF BundleInv, InstalledAsPacked
<1>2. a.entries \in Seq(Entries) /\ installed.files = Checksums(a.entries)
    BY <1>1 DEF BundleInv, PackedFaithful, Faithful, Extracted
<1>3. PICK i \in 1 .. Len(a.entries) :
        a.entries[i].key = "graph/" /\ Checksums(a.entries)["graph/"] = a.entries[i].content
    BY <1>2, ChecksumsOfEntries
<1>4. "graph/" # Metadata
    BY DEF Metadata
<1> QED BY <1>2, <1>3, <1>4 DEF PackedWasThere, Written

-----------------------------------------------------------------------------
(* The theorems                                                            *)

\* A step of the server is one of the bundles, or leaves them alone.
LEMMA StepsOfBundles ==
    ASSUME [Next]_vars
    PROVE  NextBundle \/ UNCHANGED bundleVars
<1>1. CASE Next /\ ~ Elsewhere
    BY <1>1 DEF Next, Receive, Refuse, ListPackages, SearchSymbols, GetContext,
                GetImpact, ListFiles, GetCalls, Inline, Inlined, ReadSymbol, ReadCode,
                SearchCode, SearchDocs, DocsMetadata, Register, Restart, Answer,
                Reads, Search
<1> QED BY <1>1 DEF Elsewhere, vars

(* BundleInv is an invariant, whatever the server does between the steps   *)
(* of pack, transport and install (pack.rs, reader.rs, store.rs).          *)
THEOREM BundleHolds == Spec => []BundleInv
<1>1. Init => BundleInv
    BY BundleInit DEF Init
<1>2. BundleInv /\ [Next]_vars => BundleInv'
    BY StepsOfBundles, BundleNext, BundleStutters
<1> QED BY <1>1, <1>2, PTL DEF Spec

(* Every archive that pack has returned passes the reader's checks, also   *)
(* one packed from a tree that was written again meanwhile (pack.rs and    *)
(* reader.rs).                                                             *)
THEOREM PackedAccepted == Spec => []PackedIsAccepted
<1>1. BundleInv => PackedIsAccepted
    BY FaithfulIsAccepted DEF BundleInv, PackedFaithful, PackedIsAccepted
<1> QED BY <1>1, BundleHolds, PTL

(* An installed bundle has the manifest and the files of one archive that  *)
(* pack returned, whatever was garbled, lost, doubled or cut on the way,   *)
(* with a signature or without (store.rs install).                         *)
THEOREM InstalledIsPacked == Spec => []InstalledAsPacked
<1>1. BundleInv => InstalledAsPacked
    BY DEF BundleInv
<1> QED BY <1>1, BundleHolds, PTL

\* An invariant as well.
LEMMA WasThereHolds == Spec => []PackedWasThere
<1>1. Init => PackedWasThere
    BY DEF Init, InitBundle, PackedWasThere
<1>2. BundleInv /\ PackedWasThere /\ [Next]_vars => PackedWasThere'
    BY StepsOfBundles, WrittenNext
<1> QED BY <1>1, <1>2, BundleHolds, PTL DEF Spec

-----------------------------------------------------------------------------
(* Orders of a graph                                                       *)

LEMMA FilesAreOrdered ==
    ASSUME NEW g, IsGraph(g), NEW a \in Ids(g), NEW b \in Ids(g)
    PROVE  /\ ~ InFileOrder(g, a, a)
           /\ a # b => InFileOrder(g, a, b) \/ InFileOrder(g, b, a)
           /\ \A c \in Ids(g) : InFileOrder(g, a, b) /\ InFileOrder(g, b, c)
                                    => InFileOrder(g, a, c)
<1> DEFINE path(x) == g.nodes[x].path
           start(x) == g.nodes[x].start
<1>1. \A x \in Ids(g) : x \in Nat /\ path(x) \in Nat /\ start(x) \in Nat
    BY DEF IsGraph
<1>2. \A x, y : InFileOrder(g, x, y) <=>
            \/ path(x) < path(y)
            \/ path(x) = path(y) /\ start(x) < start(y)
            \/ path(x) = path(y) /\ start(x) = start(y) /\ x < y
    BY DEF InFileOrder
<1> HIDE DEF path, start
<1>3. ~ InFileOrder(g, a, a)
    BY <1>1, <1>2
<1>4. a # b => InFileOrder(g, a, b) \/ InFileOrder(g, b, a)
    BY <1>1, <1>2
<1>5. ASSUME NEW c \in Ids(g), InFileOrder(g, a, b), InFileOrder(g, b, c)
      PROVE  InFileOrder(g, a, c)
    BY <1>1, <1>2, <1>5
<1> QED BY <1>3, <1>4, <1>5

Directions == {"callers", "callees"}
BeforeRows(g, symbol, direction) ==
    {q \in CallRows(g, symbol, direction) \X CallRows(g, symbol, direction) :
        RowBefore(g, direction, q[1], q[2])}

LEMMA RowsAreOrdered ==
    ASSUME NEW g, IsGraph(g), NEW symbol, NEW direction \in Directions
    PROVE  /\ IsFiniteSet(CallRows(g, symbol, direction))
           /\ Orders(BeforeRows(g, symbol, direction), CallRows(g, symbol, direction))
<1> DEFINE rows == CallRows(g, symbol, direction)
           R == BeforeRows(g, symbol, direction)
           there(e) == Hydrated(e, direction)
           pin(e) == Pinned(e, direction)
           line(e) == e.line
<1>1. rows \in SUBSET g.edges /\ IsFiniteSet(rows)
    BY FS_Subset DEF CallRows, IsGraph
<1>2. \A e \in rows : there(e) \in Ids(g) /\ pin(e) \in Nat /\ line(e) \in Nat
    BY <1>1 DEF CallRows, ResolveIds, IsGraph
<1>3. \A d, e \in rows : there(d) = there(e) /\ pin(d) = pin(e) /\ line(d) = line(e) => d = e
    <2> SUFFICES ASSUME NEW d \in rows, NEW e \in rows,
                        there(d) = there(e), pin(d) = pin(e), line(d) = line(e)
                 PROVE  d = e
        OBVIOUS
    <2>1. /\ d \in [source : Ids(g), target : Ids(g), kind : STRING, line : Nat]
          /\ e \in [source : Ids(g), target : Ids(g), kind : STRING, line : Nat]
          /\ d.kind = "calls" /\ e.kind = "calls"
        BY <1>1 DEF CallRows, IsGraph
    <2>2. d.source = e.source /\ d.target = e.target
        BY DEF Hydrated, Pinned, Directions
    <2> QED BY <2>1, <2>2
<1>4. \A d, e \in rows : <<d, e>> \in R <=>
            \/ InFileOrder(g, there(d), there(e))
            \/ there(d) = there(e) /\ pin(d) < pin(e)
            \/ there(d) = there(e) /\ pin(d) = pin(e) /\ line(d) < line(e)
    BY DEF BeforeRows, RowBefore
<1> HIDE DEF rows, R, there, pin, line
<1>5. \A d \in rows : <<d, d>> \notin R
    BY <1>2, <1>4, FilesAreOrdered
<1>6. ASSUME NEW d \in rows, NEW e \in rows, d # e
      PROVE  <<d, e>> \in R \/ <<e, d>> \in R
    <2>1. CASE there(d) # there(e)
        BY <1>2, <1>4, <2>1, FilesAreOrdered
    <2>2. CASE there(d) = there(e)
        BY <1>2, <1>3, <1>4, <1>6, <2>2
    <2> QED BY <2>1, <2>2
<1>7. ASSUME NEW d \in rows, NEW e \in rows, NEW f \in rows,
             <<d, e>> \in R, <<e, f>> \in R
      PROVE  <<d, f>> \in R
    <2>1. CASE InFileOrder(g, there(d), there(e)) \/ InFileOrder(g, there(e), there(f))
        <3>1. InFileOrder(g, there(d), there(f))
            BY <1>2, <1>4, <1>7, <2>1, FilesAreOrdered
        <3> QED BY <1>4, <3>1
    <2>2. CASE ~ InFileOrder(g, there(d), there(e)) /\ ~ InFileOrder(g, there(e), there(f))
        <3>1. there(d) = there(e) /\ there(e) = there(f)
            BY <1>4, <1>7, <2>2
        <3>2. /\ pin(d) < pin(e) \/ (pin(d) = pin(e) /\ line(d) < line(e))
              /\ pin(e) < pin(f) \/ (pin(e) = pin(f) /\ line(e) < line(f))
            BY <1>4, <1>7, <2>2
        <3>3. pin(d) < pin(f) \/ (pin(d) = pin(f) /\ line(d) < line(f))
            BY <1>2, <3>2
        <3> QED BY <1>4, <3>1, <3>3
    <2> QED BY <2>1, <2>2
<1>8. Orders(R, rows)
    BY <1>5, <1>6, <1>7 DEF Orders
<1> QED BY <1>1, <1>8 DEF R, rows

\* The first l elements of a sort of S.
LEMMA PrefixOfSort ==
    ASSUME NEW S, NEW R, NEW q, IsSort(q, R, S), NEW l \in 0 .. Cardinality(S)
    PROVE  LET f == SubSeq(q, 1, l)
           IN  /\ f \in Seq(S) /\ Len(f) = l /\ DOMAIN f = 1 .. l
               /\ \A i \in 1 .. l : f[i] = q[i] /\ i \in 1 .. Cardinality(S)
               /\ \A i, j \in DOMAIN f : f[i] = f[j] => i = j
               /\ ToSet(f) \subseteq S
               /\ IsFiniteSet(ToSet(f)) /\ Cardinality(ToSet(f)) = l
               /\ l = Cardinality(S) => ToSet(f) = S
<1> DEFINE c == Cardinality(S)
           f == SubSeq(q, 1, l)
<1>1. c \in Nat /\ q \in [1 .. c -> S] /\ DOMAIN q = 1 .. c /\ l \in Nat /\ l <= c
    BY DEF IsSort
<1>2. q \in Seq(S) /\ Len(q) = c
    BY <1>1
<1>3. /\ f \in Seq(S) /\ Len(f) = l /\ DOMAIN f = 1 .. l
      /\ \A i \in 1 .. l : f[i] = q[i] /\ i \in 1 .. c
    <2>1. \A i \in 1 .. l : f[i] = q[i] /\ i \in 1 .. c
        BY <1>1, <1>2
    <2>2. f \in Seq(S) /\ Len(f) = l
        BY <1>1, <1>2
    <2> QED BY <2>1, <2>2
<1> HIDE DEF c, f
<1>4. \A i, j \in DOMAIN f : f[i] = f[j] => i = j
    BY <1>1, <1>3 DEF IsSort
<1>5. ToSet(f) \subseteq S
    BY <1>3 DEF ToSet
<1>6. IsFiniteSet(ToSet(f)) /\ Cardinality(ToSet(f)) = l
    <2>1. f \in Bijection(1 .. l, ToSet(f))
        BY <1>3, <1>4 DEF ToSet, Bijection, Injection, Surjection, IsInjective
    <2>2. ExistsBijection(1 .. l, ToSet(f))
        BY <2>1 DEF ExistsBijection
    <2>3. IsFiniteSet(1 .. l) /\ Cardinality(1 .. l) = l
        BY <1>1, FS_Interval
    <2> QED BY <2>2, <2>3, FS_Bijection
<1>7. l = c => ToSet(f) = S
    <2> SUFFICES ASSUME l = c, NEW x \in S PROVE x \in ToSet(f)
        BY <1>5
    <2>1. PICK i \in 1 .. c : q[i] = x
        BY <1>1 DEF IsSort
    <2>2. i \in DOMAIN f /\ f[i] = x
        BY <1>3, <2>1
    <2> QED BY <2>2 DEF ToSet
<1> QED BY <1>3, <1>4, <1>5, <1>6, <1>7 DEF c, f

\* The first n elements of a sort of S.
LEMMA FirstOfSort ==
    ASSUME NEW S, NEW R, NEW q, IsSort(q, R, S), NEW n \in Nat
    PROVE  LET f == FirstOf(q, n)
           IN  /\ f \in Seq(S) /\ Len(f) = Lesser(Cardinality(S), AtLeastOne(n))
               /\ \A i \in DOMAIN f : f[i] = q[i]
               /\ \A i, j \in DOMAIN f : f[i] = f[j] => i = j
               /\ ToSet(f) \subseteq S
               /\ Cardinality(S) <= n => ToSet(f) = S
<1> DEFINE c == Cardinality(S)
           l == Lesser(c, AtLeastOne(n))
<1>1. c \in Nat /\ q \in [1 .. c -> S]
    BY DEF IsSort
<1>2. l \in 0 .. c /\ (c <= n => l = c)
    BY <1>1 DEF Lesser, AtLeastOne
<1>3. FirstOf(q, n) = SubSeq(q, 1, l)
    <2>1. q \in Seq(S) /\ Len(q) = c
        BY <1>1
    <2> QED BY <2>1 DEF FirstOf
<1> HIDE DEF l
<1>4. LET f == SubSeq(q, 1, l)
      IN  /\ f \in Seq(S) /\ Len(f) = l /\ DOMAIN f = 1 .. l
          /\ \A i \in 1 .. l : f[i] = q[i] /\ i \in 1 .. c
          /\ \A i, j \in DOMAIN f : f[i] = f[j] => i = j
          /\ ToSet(f) \subseteq S
          /\ l = c => ToSet(f) = S
    BY <1>2, PrefixOfSort
<1> QED BY <1>2, <1>3, <1>4 DEF l

\* The nodes of a query for callers or callees.
Ends(g, symbol, direction) == {Hydrated(e, direction) : e \in CallRows(g, symbol, direction)}

LEMMA CallEdgesAre ==
    ASSUME NEW g, IsGraph(g), NEW symbol, NEW direction \in Directions, NEW limit \in Nat
    PROVE  LET rows == CallRows(g, symbol, direction)
               f == CallEdges(g, symbol, direction, limit)
           IN  /\ f \in Seq(rows) /\ ToSet(f) \subseteq rows
               /\ Cardinality(rows) <= limit => ToSet(f) = rows
<1> DEFINE rows == CallRows(g, symbol, direction)
           R == BeforeRows(g, symbol, direction)
           q == InOrder(rows, LAMBDA d, e : RowBefore(g, direction, d, e))
<1>1. IsFiniteSet(rows) /\ Orders(R, rows)
    BY RowsAreOrdered
<1>2. \A d, e \in rows : <<d, e>> \in R <=> RowBefore(g, direction, d, e)
    BY DEF BeforeRows
<1>3. q = ByRank(RankIn(R, rows), rows)
    <2> HIDE DEF R, rows
    <2>1. \A x \in rows : {y \in rows : RowBefore(g, direction, y, x)} = Below(R, rows, x)
        BY <1>2 DEF Below
    <2>2. RankIn(R, rows)
            = [x \in rows |-> Cardinality({y \in rows : RowBefore(g, direction, y, x)})]
        BY <2>1 DEF RankIn
    <2> QED BY <2>2 DEF InOrder, ByRank
<1>4. CallEdges(g, symbol, direction, limit) = FirstOf(q, limit)
    BY DEF CallEdges
<1> HIDE DEF rows, R, q
<1>5. IsSort(q, R, rows)
    BY <1>1, <1>3, Ordered
<1>6. /\ FirstOf(q, limit) \in Seq(rows) /\ ToSet(FirstOf(q, limit)) \subseteq rows
      /\ Cardinality(rows) <= limit => ToSet(FirstOf(q, limit)) = rows
    BY <1>5, FirstOfSort
<1> QED BY <1>4, <1>6 DEF rows

LEMMA DistinctKeeps ==
    ASSUME NEW S, NEW T, NEW rows \in Seq(S), NEW direction,
           \A e \in S : Hydrated(e, direction) \in T
    PROVE  LET d == Distinct(rows, direction)
           IN  /\ d \in Seq(T) /\ Apart(d)
               /\ ToSet(d) = {Hydrated(e, direction) : e \in ToSet(rows)}
<1> DEFINE n == Len(rows)
           Node(i) == Hydrated(rows[i], direction)
           I == {i \in DOMAIN rows : \A j \in 1 .. i - 1 : Node(j) # Node(i)}
           p == Places(I)
           d == Distinct(rows, direction)
<1>1. n \in Nat /\ DOMAIN rows = 1 .. n /\ \A i \in 1 .. n : rows[i] \in S /\ Node(i) \in T
    BY ElementOfSeq, LenProperties
<1>2. I \in SUBSET (1 .. n)
    BY <1>1
<1>3. IsListing(p, I, n)
    <2> HIDE DEF I, n
    <2> QED BY <1>1, <1>2, PlacesAre
<1>4. d = [r \in DOMAIN p |-> Node(p[r])]
    BY DEF Distinct
<1>5. \A i \in I : \A j \in 1 .. i - 1 : Node(j) # Node(i)
    OBVIOUS
<1>6. ASSUME NEW i \in 1 .. n PROVE \E k \in I : Node(k) = Node(i)
    <2> DEFINE J == {j \in 1 .. n : Node(j) = Node(i)}
    <2>1. i \in J /\ J \subseteq Nat
        BY <1>1
    <2>2. PICK k \in J : \A j \in J : <<j, k>> \notin {s \in Nat \X Nat : s[1] < s[2]}
        <3> HIDE DEF J
        <3> QED BY <2>1, WFMin, LessIsWellFounded
    <2>3. \A j \in J : ~ (j < k)
        BY <2>1, <2>2
    <2>4. \A j \in 1 .. k - 1 : Node(j) # Node(k)
        <3> SUFFICES ASSUME NEW j \in 1 .. k - 1, Node(j) = Node(k) PROVE FALSE
            OBVIOUS
        <3>1. k \in 1 .. n /\ Node(k) = Node(i)
            OBVIOUS
        <3>2. j \in 1 .. n /\ j < k
            BY <1>1, <3>1
        <3>3. j \in J
            BY <3>1, <3>2
        <3> QED BY <2>3, <3>2, <3>3
    <2>5. k \in I
        BY <1>1, <2>4
    <2> QED BY <2>5
<1>7. d \in Seq(T) /\ DOMAIN d = DOMAIN p
    <2> HIDE DEF I, n, Node, p
    <2>1. /\ Cardinality(I) \in Nat /\ DOMAIN p = 1 .. Cardinality(I)
          /\ \A r \in DOMAIN p : p[r] \in I
        BY <1>1, <1>3 DEF IsListing
    <2>2. d \in [1 .. Cardinality(I) -> T]
        BY <1>1, <1>2, <1>4, <2>1
    <2> QED BY <2>1, <2>2
<1>8. Apart(d)
    <2> SUFFICES ASSUME NEW r \in DOMAIN p, NEW s \in DOMAIN p, r < s
                 PROVE  Node(p[r]) # Node(p[s])
        <3> HIDE DEF I, n, Node, p
        <3>1. \A r \in DOMAIN p : r \in Nat
            BY <1>1, <1>3 DEF IsListing
        <3> QED BY <1>4, <1>7, <3>1 DEF Apart
    <2> HIDE DEF I, n, Node, p
    <2>1. p[r] \in I /\ p[s] \in I /\ p[r] < p[s]
        BY <1>3 DEF IsListing
    <2>2. p[r] \in 1 .. p[s] - 1
        <3>1. n \in Nat
            BY <1>1
        <3>2. p[r] \in 1 .. n /\ p[s] \in 1 .. n
            BY <1>2, <2>1
        <3> QED BY <2>1, <3>1, <3>2
    <2> QED BY <1>5, <2>1, <2>2
<1>9. ToSet(d) = {Hydrated(e, direction) : e \in ToSet(rows)}
    <2>1. ToSet(rows) = {rows[i] : i \in 1 .. n}
        BY <1>1 DEF ToSet
    <2>2. {Hydrated(e, direction) : e \in ToSet(rows)} = {Node(i) : i \in 1 .. n}
        BY <2>1
    <2> HIDE DEF I, n, Node, p
    <2>3. ToSet(d) = {Node(p[r]) : r \in DOMAIN p}
        BY <1>4, <1>7 DEF ToSet
    <2>4. {p[r] : r \in DOMAIN p} = I
        BY <1>3 DEF IsListing
    <2>5. ToSet(d) = {Node(k) : k \in I}
        BY <2>3, <2>4
    <2> QED BY <1>2, <1>6, <2>2, <2>5
<1> HIDE DEF d
<1> QED BY <1>7, <1>8, <1>9 DEF d

LEMMA CallNodesAre ==
    ASSUME NEW g, IsGraph(g), NEW symbol, NEW direction \in Directions, NEW limit \in Nat
    PROVE  LET nodes == CallNodes(g, symbol, direction, limit)
           IN  /\ nodes \in Seq(Ids(g)) /\ Apart(nodes)
               /\ ToSet(nodes) \subseteq Ends(g, symbol, direction)
               /\ Cardinality(CallRows(g, symbol, direction)) <= limit
                     => ToSet(nodes) = Ends(g, symbol, direction)
<1> DEFINE rows == CallRows(g, symbol, direction)
           f == CallEdges(g, symbol, direction, limit)
           nodes == Distinct(f, direction)
<1>1. f \in Seq(rows) /\ ToSet(f) \subseteq rows /\ (Cardinality(rows) <= limit => ToSet(f) = rows)
    BY CallEdgesAre
<1>2. \A e \in rows : Hydrated(e, direction) \in Ids(g)
    BY DEF CallRows
<1>3. Ends(g, symbol, direction) = {Hydrated(e, direction) : e \in rows}
    BY DEF Ends
<1>4. CallNodes(g, symbol, direction, limit) = nodes
    BY DEF CallNodes
<1> HIDE DEF rows, f
<1>5. /\ nodes \in Seq(Ids(g)) /\ Apart(nodes)
      /\ ToSet(nodes) = {Hydrated(e, direction) : e \in ToSet(f)}
    BY <1>1, <1>2, DistinctKeeps
<1> HIDE DEF nodes
<1> QED BY <1>1, <1>3, <1>4, <1>5 DEF rows

-----------------------------------------------------------------------------
(* Impact                                                                  *)

\* The nodes of a set in the order of the files.
InFiles(g, S) == InOrder(S, LAMBDA a, b : InFileOrder(g, a, b))

LEMMA InFileOrderSorts ==
    ASSUME NEW g, IsGraph(g), NEW S, S \subseteq Ids(g)
    PROVE  /\ IsFiniteSet(S)
           /\ IsSort(InFiles(g, S), {q \in S \X S : InFileOrder(g, q[1], q[2])}, S)
<1> DEFINE R == {q \in S \X S : InFileOrder(g, q[1], q[2])}
           q == InFiles(g, S)
<1>1. IsFiniteSet(S)
    BY FS_Subset DEF IsGraph
<1>2. \A a, b \in S : <<a, b>> \in R <=> InFileOrder(g, a, b)
    OBVIOUS
<1> HIDE DEF R
<1>3. Orders(R, S)
    BY <1>2, FilesAreOrdered DEF Orders
<1>4. q = ByRank(RankIn(R, S), S)
    <2>1. \A x \in S : {y \in S : InFileOrder(g, y, x)} = Below(R, S, x)
        BY <1>2 DEF Below
    <2>2. RankIn(R, S) = [x \in S |-> Cardinality({y \in S : InFileOrder(g, y, x)})]
        BY <2>1 DEF RankIn
    <2> QED BY <2>2 DEF InFiles, InOrder, ByRank
<1> HIDE DEF q
<1>5. IsSort(q, R, S)
    BY <1>1, <1>3, <1>4, Ordered
<1> QED BY <1>1, <1>5 DEF R, q

\* Those from which a path of so many steps leads to a node of the symbol.
IsChain(g, p, n) ==
    /\ p \in [0 .. n -> Ids(g)]
    /\ \A i \in 1 .. n : Depends(g, p[i - 1], p[i])
AtDistance(g, symbol, n) ==
    {id \in Ids(g) : \E t \in ResolveIds(g, symbol) : \E p :
        IsChain(g, p, n) /\ p[0] = id /\ p[n] = t}
Behind(g, S) == {id \in Ids(g) : \E t \in S : Depends(g, id, t)}

LEMMA ChainsGrow ==
    ASSUME NEW g, NEW symbol, NEW n \in Nat \ {0}
    PROVE  AtDistance(g, symbol, n) = Behind(g, AtDistance(g, symbol, n - 1))
<1>1. ASSUME NEW id \in AtDistance(g, symbol, n)
      PROVE  id \in Behind(g, AtDistance(g, symbol, n - 1))
    <2>1. PICK p, t : /\ t \in ResolveIds(g, symbol)
                     /\ IsChain(g, p, n) /\ p[0] = id /\ p[n] = t
        BY <1>1 DEF AtDistance
    <2> DEFINE q == [i \in 0 .. n - 1 |-> p[i + 1]]
    <2>2. /\ p \in [0 .. n -> Ids(g)]
          /\ \A i \in 1 .. n : Depends(g, p[i - 1], p[i])
        BY <2>1 DEF IsChain
    <2>3. q \in [0 .. n - 1 -> Ids(g)]
        <3>1. \A i \in 0 .. n - 1 : i + 1 \in 0 .. n
            OBVIOUS
        <3> QED BY <2>2, <3>1
    <2>4. ASSUME NEW i \in 1 .. n - 1 PROVE Depends(g, q[i - 1], q[i])
        <3>1. /\ i + 1 \in 1 .. n /\ (i + 1) - 1 = i /\ (i - 1) + 1 = i
              /\ i \in 0 .. n - 1 /\ i - 1 \in 0 .. n - 1
            OBVIOUS
        <3>2. q[i] = p[i + 1] /\ q[i - 1] = p[i]
            BY <3>1
        <3>3. Depends(g, p[(i + 1) - 1], p[i + 1])
            BY <2>2, <3>1
        <3> QED BY <3>1, <3>2, <3>3
    <2>5. /\ 0 \in 0 .. n - 1 /\ n - 1 \in 0 .. n - 1 /\ 0 + 1 = 1 /\ (n - 1) + 1 = n
          /\ 1 \in 1 .. n /\ 1 - 1 = 0 /\ 1 \in 0 .. n
        OBVIOUS
    <2>6. q[0] = p[1] /\ q[n - 1] = p[n]
        BY <2>5
    <2>7. Depends(g, id, p[1]) /\ p[1] \in Ids(g) /\ id \in Ids(g)
        <3>1. Depends(g, p[1 - 1], p[1])
            BY <2>2, <2>5
        <3> QED BY <2>1, <2>2, <2>5, <3>1 DEF AtDistance
    <2> HIDE DEF q
    <2>8. IsChain(g, q, n - 1)
        BY <2>3, <2>4 DEF IsChain
    <2>9. p[1] \in AtDistance(g, symbol, n - 1)
        BY <2>1, <2>6, <2>7, <2>8 DEF AtDistance
    <2> QED BY <2>7, <2>9 DEF Behind
<1>2. ASSUME NEW id \in Behind(g, AtDistance(g, symbol, n - 1))
      PROVE  id \in AtDistance(g, symbol, n)
    <2>1. PICK s \in AtDistance(g, symbol, n - 1) : id \in Ids(g) /\ Depends(g, id, s)
        BY <1>2 DEF Behind
    <2>2. PICK t \in ResolveIds(g, symbol) :
                \E q : IsChain(g, q, n - 1) /\ q[0] = s /\ q[n - 1] = t
        BY <2>1 DEF AtDistance
    <2>3. PICK q : IsChain(g, q, n - 1) /\ q[0] = s /\ q[n - 1] = t
        BY <2>2
    <2> DEFINE p == [i \in 0 .. n |-> IF i = 0 THEN id ELSE q[i - 1]]
    <2>4. /\ q \in [0 .. n - 1 -> Ids(g)]
          /\ \A i \in 1 .. n - 1 : Depends(g, q[i - 1], q[i])
        BY <2>3 DEF IsChain
    <2>5. p \in [0 .. n -> Ids(g)]
        <3>1. \A i \in 0 .. n : i # 0 => i - 1 \in 0 .. n - 1
            OBVIOUS
        <3> QED BY <2>1, <2>4, <3>1
    <2>6. p[0] = id /\ p[n] = t
        <3>1. 0 \in 0 .. n /\ n \in 0 .. n /\ n # 0
            OBVIOUS
        <3> QED BY <2>3, <3>1
    <2>7. ASSUME NEW i \in 1 .. n PROVE Depends(g, p[i - 1], p[i])
        <3>1. i \in 0 .. n /\ i - 1 \in 0 .. n /\ i # 0
            OBVIOUS
        <3>2. p[i] = q[i - 1]
            BY <3>1
        <3>3. CASE i = 1
            <4>1. p[i - 1] = id /\ p[i] = q[0]
                BY <2>6, <3>2, <3>3
            <4> QED BY <2>1, <2>3, <4>1
        <3>4. CASE i # 1
            <4>1. i - 1 \in 1 .. n - 1 /\ i - 1 # 0
                BY <3>4
            <4>2. p[i - 1] = q[(i - 1) - 1]
                BY <3>1, <4>1
            <4>3. Depends(g, q[(i - 1) - 1], q[i - 1])
                BY <2>4, <4>1
            <4> QED BY <3>2, <4>2, <4>3
        <3> QED BY <3>3, <3>4
    <2> HIDE DEF p
    <2>8. IsChain(g, p, n)
        BY <2>5, <2>7 DEF IsChain
    <2> QED BY <2>1, <2>6, <2>8 DEF AtDistance
<1> QED BY <1>1, <1>2

LEMMA ChainsBegin ==
    ASSUME NEW g, NEW symbol
    PROVE  AtDistance(g, symbol, 0) = ResolveIds(g, symbol)
<1>1. ASSUME NEW id \in AtDistance(g, symbol, 0) PROVE id \in ResolveIds(g, symbol)
    BY <1>1 DEF AtDistance
<1>2. ASSUME NEW id \in ResolveIds(g, symbol) PROVE id \in AtDistance(g, symbol, 0)
    <2> DEFINE p == [i \in 0 .. 0 |-> id]
    <2>1. id \in Ids(g)
        BY <1>2 DEF ResolveIds
    <2>2. p \in [0 .. 0 -> Ids(g)] /\ p[0] = id
        BY <2>1
    <2> HIDE DEF p
    <2>3. IsChain(g, p, 0)
        BY <2>2 DEF IsChain
    <2> QED BY <1>2, <2>1, <2>2, <2>3 DEF AtDistance
<1> QED BY <1>1, <1>2

LEMMA RowsAreAtDistance ==
    ASSUME NEW g, NEW symbol, NEW n \in Nat
    PROVE  RowsAtDepth(g, symbol, n) = AtDistance(g, symbol, n)
<1> DEFINE T == SUBSET Ids(g)
           init == ResolveIds(g, symbol)
           step == [i \in 1 .. n |-> [S \in T |-> Behind(g, S)]]
           Looped(f) == f = [i \in 0 .. n |-> IF i = 0 THEN init ELSE Behind(g, f[i - 1])]
           acc == CHOOSE f : Looped(f)
<1>1. IsLoop(n, T, init, step)
    BY DEF IsLoop, Behind, ResolveIds
<1>2. RowsAtDepth(g, symbol, n) = acc[n]
    BY DEF RowsAtDepth, Loop, Behind
<1> HIDE DEF T, init
<1>3. PICK f : IsRun(f, n, T, init, step)
    <2> HIDE DEF step
    <2> QED BY <1>1, LoopRuns
<1>4. Looped(f)
    <2>1. ASSUME NEW i \in 1 .. n PROVE f[i] = Behind(g, f[i - 1])
        <3>1. i - 1 \in 0 .. n
            OBVIOUS
        <3>2. f[i - 1] \in T /\ f[i] = step[i][f[i - 1]]
            <4> HIDE DEF step
            <4> QED BY <1>3, <3>1 DEF IsRun
        <3> QED BY <3>2
    <2> HIDE DEF step
    <2> QED BY <1>3, <2>1 DEF IsRun
<1>5. Looped(acc)
    <2> HIDE DEF Looped
    <2> QED BY <1>4
<1>6. acc[0] = init /\ \A i \in 1 .. n : acc[i] = Behind(g, acc[i - 1])
    <2> HIDE DEF acc, step
    <2> QED BY <1>5
<1> HIDE DEF acc
<1> DEFINE good == {i \in 0 .. n : acc[i] = AtDistance(g, symbol, i)}
<1>7. 0 \in good
    BY <1>6, ChainsBegin DEF init
<1>8. ASSUME NEW i \in 1 .. n, i - 1 \in good PROVE i \in good
    <2>1. acc[i] = Behind(g, AtDistance(g, symbol, i - 1))
        BY <1>6, <1>8
    <2>2. i \in Nat \ {0}
        OBVIOUS
    <2> QED BY <2>1, <2>2, ChainsGrow
<1>9. n \in good
    <2> HIDE DEF good
    <2> QED BY <1>7, <1>8, UpTo
<1> QED BY <1>2, <1>9

LEMMA ImpactIs ==
    ASSUME NEW g, IsGraph(g), NEW symbol, NEW depth \in Nat
    PROVE  LET nodes == Impact(g, symbol, depth)
               all == Dependents(g, symbol, depth)
           IN  /\ Apart(nodes) /\ ToSet(nodes) \subseteq all
               /\ Cardinality(all) <= ImpactLimit => ToSet(nodes) = all
<1> DEFINE all == {id \in Reached(g, symbol, depth) : ~ Named(g, id, symbol)}
           q == InFiles(g, all)
<1>1. all = Dependents(g, symbol, depth)
    <2>1. \A n \in 0 .. depth : RowsAtDepth(g, symbol, n) = AtDistance(g, symbol, n)
        BY RowsAreAtDistance
    <2>2. Reached(g, symbol, depth) = UNION {AtDistance(g, symbol, n) : n \in 0 .. depth}
        BY <2>1 DEF Reached
    <2>3. \A id : id \in Reached(g, symbol, depth) <=>
                \E n \in 0 .. depth : id \in AtDistance(g, symbol, n)
        BY <2>2
    <2>4. \A id : id \in Dependents(g, symbol, depth) <=>
            /\ id \in Ids(g) /\ ~ Named(g, id, symbol)
            /\ \E t \in ResolveIds(g, symbol) : \E n \in 0 .. depth :
                 \E p : IsChain(g, p, n) /\ p[0] = id /\ p[n] = t
        BY DEF Dependents, Path, IsChain
    <2> QED BY <2>3, <2>4 DEF AtDistance
<1>2. all \subseteq Ids(g)
    BY <1>1 DEF Dependents
<1>3. Impact(g, symbol, depth) = FirstOf(q, ImpactLimit)
    BY DEF Impact, InFiles
<1> HIDE DEF all
<1>4. IsSort(q, {r \in all \X all : InFileOrder(g, r[1], r[2])}, all)
    BY <1>2, InFileOrderSorts
<1> HIDE DEF q
<1>5. ImpactLimit \in Nat
    BY ReaderAssumption
<1>6. LET f == FirstOf(q, ImpactLimit)
      IN  /\ f \in Seq(all) /\ ToSet(f) \subseteq all
          /\ \A i, j \in DOMAIN f : f[i] = f[j] => i = j
          /\ Cardinality(all) <= ImpactLimit => ToSet(f) = all
    BY <1>4, <1>5, FirstOfSort
<1> QED BY <1>1, <1>3, <1>6 DEF Apart

-----------------------------------------------------------------------------
(* Context                                                                 *)

\* The nodes one step from x.
Beside(g, x) == NeighborIds(g, {x})

LEMMA NeighborsAre ==
    ASSUME NEW g, IsGraph(g), NEW S
    PROVE  /\ NeighborIds(g, S) \subseteq Ids(g)
           /\ \A x : x \in NeighborIds(g, S) <=> \E s \in S : x \in Beside(g, s)
           /\ \A s : Beside(g, s) \subseteq Ids(g)
<1> DEFINE Linked(e) == e.kind \in {"calls", "references", "contains", "imports"}
<1>1. \A T, x : x \in NeighborIds(g, T) <=>
        \E e \in g.edges : /\ Linked(e) /\ (e.source \in T \/ e.target \in T)
                           /\ (x = e.source \/ x = e.target)
    BY DEF NeighborIds, Touches
<1>2. \A e \in g.edges : e.source \in Ids(g) /\ e.target \in Ids(g)
    BY DEF IsGraph
<1>3. \A s, x : x \in Beside(g, s) <=>
        \E e \in g.edges : /\ Linked(e) /\ (e.source = s \/ e.target = s)
                           /\ (x = e.source \/ x = e.target)
    BY <1>1 DEF Beside
<1> HIDE DEF Linked
<1>4. NeighborIds(g, S) \subseteq Ids(g) /\ \A s : Beside(g, s) \subseteq Ids(g)
    BY <1>1, <1>2, <1>3
<1>5. ASSUME NEW x, x \in NeighborIds(g, S) PROVE \E s \in S : x \in Beside(g, s)
    <2>1. PICK e \in g.edges : /\ Linked(e) /\ (e.source \in S \/ e.target \in S)
                               /\ (x = e.source \/ x = e.target)
        BY <1>1, <1>5
    <2> QED BY <1>3, <2>1
<1>6. ASSUME NEW x, NEW s \in S, x \in Beside(g, s) PROVE x \in NeighborIds(g, S)
    <2>1. PICK e \in g.edges : /\ Linked(e) /\ (e.source = s \/ e.target = s)
                               /\ (x = e.source \/ x = e.target)
        BY <1>3, <1>6
    <2> QED BY <1>1, <2>1
<1> QED BY <1>4, <1>5, <1>6

\* The nodes within n steps of the seeds.
Ball(g, seeds, n) == {id \in Ids(g) : \E s \in seeds : Near(g, s, id, n)}
Walk(g, a, b, k) ==
    \E p \in [0 .. k -> Ids(g)] :
        p[0] = a /\ p[k] = b /\ \A i \in 1 .. k : p[i] \in Beside(g, p[i - 1])

LEMMA NearIs ==
    ASSUME NEW g, NEW a, NEW b, NEW n
    PROVE  Near(g, a, b, n) <=> \E k \in 0 .. n : Walk(g, a, b, k)
BY DEF Near, Path, Walk, Beside

LEMMA WalksAre ==
    ASSUME NEW g, IsGraph(g), NEW a \in Ids(g), NEW b \in Ids(g)
    PROVE  /\ Walk(g, a, b, 0) <=> a = b
           /\ Walk(g, a, b, 1) <=> b \in Beside(g, a)
           /\ Walk(g, a, b, 2) <=> \E c \in Beside(g, a) : b \in Beside(g, c)
<1>1. \A x : Beside(g, x) \subseteq Ids(g)
    BY NeighborsAre
<1>2. \A k : Walk(g, a, b, k) <=>
        \E p \in [0 .. k -> Ids(g)] :
            p[0] = a /\ p[k] = b /\ \A i \in 1 .. k : p[i] \in Beside(g, p[i - 1])
    BY DEF Walk
<1>3. Walk(g, a, b, 0) <=> a = b
    <2>1. ASSUME a = b PROVE Walk(g, a, b, 0)
        <3> DEFINE p == [i \in 0 .. 0 |-> a]
        <3>1. p \in [0 .. 0 -> Ids(g)] /\ p[0] = a
            OBVIOUS
        <3> HIDE DEF p
        <3>2. \A i \in 1 .. 0 : p[i] \in Beside(g, p[i - 1])
            OBVIOUS
        <3> QED BY <1>2, <2>1, <3>1, <3>2
    <2> QED BY <1>2, <2>1
<1>4. Walk(g, a, b, 1) <=> b \in Beside(g, a)
    <2>1. ASSUME Walk(g, a, b, 1) PROVE b \in Beside(g, a)
        <3>1. PICK p \in [0 .. 1 -> Ids(g)] :
                p[0] = a /\ p[1] = b /\ \A i \in 1 .. 1 : p[i] \in Beside(g, p[i - 1])
            BY <1>2, <2>1
        <3>2. p[1] \in Beside(g, p[1 - 1]) /\ 1 - 1 = 0
            BY <3>1
        <3> QED BY <3>1, <3>2
    <2>2. ASSUME b \in Beside(g, a) PROVE Walk(g, a, b, 1)
        <3> DEFINE p == [i \in 0 .. 1 |-> IF i = 0 THEN a ELSE b]
        <3>1. p \in [0 .. 1 -> Ids(g)] /\ p[0] = a /\ p[1] = b
            OBVIOUS
        <3> HIDE DEF p
        <3>2. \A i \in 1 .. 1 : i = 1 /\ i - 1 = 0
            OBVIOUS
        <3>3. \A i \in 1 .. 1 : p[i] \in Beside(g, p[i - 1])
            BY <2>2, <3>1, <3>2
        <3> QED BY <1>2, <3>1, <3>3
    <2> QED BY <2>1, <2>2
<1>5. Walk(g, a, b, 2) <=> \E c \in Beside(g, a) : b \in Beside(g, c)
    <2>1. ASSUME Walk(g, a, b, 2) PROVE \E c \in Beside(g, a) : b \in Beside(g, c)
        <3>1. PICK p \in [0 .. 2 -> Ids(g)] :
                p[0] = a /\ p[2] = b /\ \A i \in 1 .. 2 : p[i] \in Beside(g, p[i - 1])
            BY <1>2, <2>1
        <3>2. 1 \in 1 .. 2 /\ 2 \in 1 .. 2 /\ 1 - 1 = 0 /\ 2 - 1 = 1
            OBVIOUS
        <3>3. p[1] \in Beside(g, p[1 - 1]) /\ p[2] \in Beside(g, p[2 - 1])
            BY <3>1, <3>2
        <3>4. p[1] \in Beside(g, a) /\ b \in Beside(g, p[1])
            BY <3>1, <3>2, <3>3
        <3> QED BY <3>4
    <2>2. ASSUME NEW c \in Beside(g, a), b \in Beside(g, c) PROVE Walk(g, a, b, 2)
        <3> DEFINE p == [i \in 0 .. 2 |-> IF i = 0 THEN a ELSE IF i = 1 THEN c ELSE b]
        <3>1. p \in [0 .. 2 -> Ids(g)] /\ p[0] = a /\ p[1] = c /\ p[2] = b
            BY <1>1
        <3> HIDE DEF p
        <3>2. \A i \in 1 .. 2 : (i = 1 /\ i - 1 = 0) \/ (i = 2 /\ i - 1 = 1)
            OBVIOUS
        <3>3. \A i \in 1 .. 2 : p[i] \in Beside(g, p[i - 1])
            BY <2>2, <3>1, <3>2
        <3> QED BY <1>2, <3>1, <3>3
    <2> QED BY <2>1, <2>2
<1> QED BY <1>3, <1>4, <1>5

LEMMA BallsAre ==
    ASSUME NEW g, IsGraph(g), NEW seeds, seeds \subseteq Ids(g)
    PROVE  /\ Ball(g, seeds, 0) = seeds
           /\ Ball(g, seeds, 1) = seeds \cup NeighborIds(g, seeds)
           /\ Ball(g, seeds, 2) = Ball(g, seeds, 1) \cup NeighborIds(g, Ball(g, seeds, 1))
<1>0. /\ NeighborIds(g, seeds) \subseteq Ids(g)
      /\ NeighborIds(g, Ball(g, seeds, 1)) \subseteq Ids(g)
      /\ \A S, x : x \in NeighborIds(g, S) <=> \E s \in S : x \in Beside(g, s)
    BY NeighborsAre
<1>1. 0 .. 0 = {0} /\ 0 .. 1 = {0, 1} /\ 0 .. 2 = {0, 1, 2}
    OBVIOUS
<1>2. \A n, x : x \in Ball(g, seeds, n) <=>
            x \in Ids(g) /\ \E s \in seeds : \E k \in 0 .. n : Walk(g, s, x, k)
    BY NearIs DEF Ball
<1>3. Ball(g, seeds, 0) = seeds
    <2>1. \A x \in Ids(g) : x \in Ball(g, seeds, 0) <=> \E s \in seeds : Walk(g, s, x, 0)
        BY <1>1, <1>2
    <2>2. \A x \in Ids(g), s \in seeds : Walk(g, s, x, 0) <=> s = x
        BY WalksAre
    <2> QED BY <1>2, <2>1, <2>2
<1>4. Ball(g, seeds, 1) = seeds \cup NeighborIds(g, seeds)
    <2>1. \A x \in Ids(g) : x \in Ball(g, seeds, 1) <=>
                \E s \in seeds : Walk(g, s, x, 0) \/ Walk(g, s, x, 1)
        BY <1>1, <1>2
    <2>2. \A x \in Ids(g), s \in seeds :
                /\ Walk(g, s, x, 0) <=> s = x
                /\ Walk(g, s, x, 1) <=> x \in Beside(g, s)
        BY WalksAre
    <2>3. ASSUME NEW x \in Ids(g)
          PROVE  x \in Ball(g, seeds, 1) <=> x \in seeds \/ x \in NeighborIds(g, seeds)
        <3>1. x \in Ball(g, seeds, 1) <=> \E s \in seeds : s = x \/ x \in Beside(g, s)
            BY <2>1, <2>2
        <3>2. x \in NeighborIds(g, seeds) <=> \E s \in seeds : x \in Beside(g, s)
            BY <1>0
        <3> QED BY <3>1, <3>2
    <2> QED BY <1>0, <1>2, <2>3
<1>5. Ball(g, seeds, 2) = Ball(g, seeds, 1) \cup NeighborIds(g, Ball(g, seeds, 1))
    <2>1. \A x \in Ids(g) : x \in Ball(g, seeds, 2) <=>
                \E s \in seeds : Walk(g, s, x, 0) \/ Walk(g, s, x, 1) \/ Walk(g, s, x, 2)
        BY <1>1, <1>2
    <2>2. \A x \in Ids(g), s \in seeds :
                /\ Walk(g, s, x, 0) <=> s = x
                /\ Walk(g, s, x, 1) <=> x \in Beside(g, s)
                /\ Walk(g, s, x, 2) <=> \E c \in Beside(g, s) : x \in Beside(g, c)
        BY WalksAre
    <2>3. \A x \in Ids(g) : x \in Ball(g, seeds, 2) =>
                x \in Ball(g, seeds, 1) \/ x \in NeighborIds(g, Ball(g, seeds, 1))
        <3> SUFFICES ASSUME NEW x \in Ids(g), x \in Ball(g, seeds, 2)
                     PROVE  x \in Ball(g, seeds, 1) \/ x \in NeighborIds(g, Ball(g, seeds, 1))
            OBVIOUS
        <3>1. PICK s \in seeds : Walk(g, s, x, 0) \/ Walk(g, s, x, 1) \/ Walk(g, s, x, 2)
            BY <2>1
        <3>2. CASE Walk(g, s, x, 0) \/ Walk(g, s, x, 1)
            BY <1>0, <1>4, <2>2, <3>2
        <3>3. CASE Walk(g, s, x, 2)
            <4>1. PICK c \in Beside(g, s) : x \in Beside(g, c)
                BY <2>2, <3>3
            <4>2. c \in Ball(g, seeds, 1)
                BY <1>0, <1>4, <4>1
            <4> QED BY <1>0, <4>1, <4>2
        <3> QED BY <3>1, <3>2, <3>3
    <2>4. \A x \in Ids(g) : x \in Ball(g, seeds, 1) => x \in Ball(g, seeds, 2)
        BY <1>0, <1>4, <2>1, <2>2
    <2>5. \A x \in Ids(g) : x \in NeighborIds(g, Ball(g, seeds, 1)) => x \in Ball(g, seeds, 2)
        <3> SUFFICES ASSUME NEW x \in Ids(g), NEW c \in Ball(g, seeds, 1),
                            x \in Beside(g, c)
                     PROVE  x \in Ball(g, seeds, 2)
            BY <1>0
        <3>1. CASE c \in seeds
            BY <2>1, <2>2, <3>1
        <3>2. CASE c \in NeighborIds(g, seeds)
            <4>1. PICK s \in seeds : c \in Beside(g, s)
                BY <1>0, <3>2
            <4> QED BY <2>1, <2>2, <4>1
        <3> QED BY <1>4, <3>1, <3>2
    <2> QED BY <1>0, <1>2, <2>3, <2>4, <2>5
<1> QED BY <1>3, <1>4, <1>5

\* The nodes of a set in the order of their ids.
InIds(S) == InOrder(S, <)

LEMMA IdsSort ==
    ASSUME NEW S, IsFiniteSet(S), S \subseteq Nat
    PROVE  IsSort(InIds(S), {q \in S \X S : q[1] < q[2]}, S)
<1> DEFINE R == {q \in S \X S : q[1] < q[2]}
<1>1. \A a, b \in S : <<a, b>> \in R <=> a < b
    OBVIOUS
<1> HIDE DEF R
<1>2. Orders(R, S)
    BY <1>1 DEF Orders
<1>3. InIds(S) = ByRank(RankIn(R, S), S)
    <2>1. \A x \in S : {y \in S : y < x} = Below(R, S, x)
        BY <1>1 DEF Below
    <2>2. RankIn(R, S) = [x \in S |-> Cardinality({y \in S : y < x})]
        BY <2>1 DEF RankIn
    <2> QED BY <2>2 DEF InIds, InOrder, ByRank
<1>4. IsSort(InIds(S), R, S)
    BY <1>2, <1>3, Ordered
<1> QED BY <1>4 DEF R

\* One round admits all new neighbours, or as many as there is room for.
LEMMA AdmittedAre ==
    ASSUME NEW g, IsGraph(g), NEW hop, DOMAIN hop \subseteq Ids(g), NEW frontier,
           NEW cap \in Nat, Cardinality(DOMAIN hop) <= cap
    PROVE  LET new == NeighborIds(g, frontier) \ DOMAIN hop
               more == Admitted(g, hop, frontier, cap)
           IN  /\ more \subseteq new /\ IsFiniteSet(more)
               /\ more = new \/ Cardinality(more) = cap - Cardinality(DOMAIN hop)
               /\ Cardinality(more) <= cap - Cardinality(DOMAIN hop)
<1> DEFINE new == NeighborIds(g, frontier) \ DOMAIN hop
           room == cap - Cardinality(DOMAIN hop)
           q == InIds(new)
           l == Lesser(Cardinality(new), room)
           more == Admitted(g, hop, frontier, cap)
<1>1. new \subseteq Ids(g) /\ IsFiniteSet(new) /\ new \subseteq Nat
    <2>1. new \subseteq Ids(g)
        BY NeighborsAre
    <2> QED BY <2>1, FS_Subset DEF IsGraph
<1>2. IsFiniteSet(DOMAIN hop) /\ Cardinality(DOMAIN hop) \in Nat /\ room \in Nat
    BY FS_Subset, FS_CardinalityType DEF IsGraph
<1>3. Cardinality(new) \in Nat
    BY <1>1, FS_CardinalityType
<1>4. IsSort(q, {r \in new \X new : r[1] < r[2]}, new)
    BY <1>1, IdsSort
<1>5. more = ToSet(SubSeq(q, 1, Lesser(Len(q), room)))
    BY DEF Admitted, InIds
<1> HIDE DEF new, q, more, room
<1>6. Len(q) = Cardinality(new)
    BY <1>4 DEF IsSort
<1>7. l \in 0 .. Cardinality(new) /\ l <= room /\ (l = Cardinality(new) \/ l = room)
    BY <1>2, <1>3 DEF Lesser
<1>8. more = ToSet(SubSeq(q, 1, l))
    BY <1>5, <1>6
<1> HIDE DEF l
<1>9. /\ more \subseteq new /\ IsFiniteSet(more) /\ Cardinality(more) = l
      /\ l = Cardinality(new) => more = new
    BY <1>4, <1>7, <1>8, PrefixOfSort
<1> QED BY <1>7, <1>9 DEF new, more, room

\* What the search has seen at its end.
LEMMA HopsAre ==
    ASSUME NEW g, IsGraph(g), NEW seeds, seeds \subseteq Ids(g), NEW cap \in Nat,
           Cardinality(seeds) <= cap
    PROVE  LET hop == Hops(g, seeds, cap)
               seen == DOMAIN hop
           IN  /\ seen \subseteq Ids(g) /\ Cardinality(seen) <= cap
               /\ seeds \subseteq seen /\ seen \subseteq Ball(g, seeds, 2)
               /\ \A x \in seen : hop[x] \in 0 .. 2
               /\ \A x \in seen : \A n \in 0 .. 2 : x \in Ball(g, seeds, n) <=> hop[x] <= n
               /\ seen = Ball(g, seeds, 2) \/ Cardinality(seen) = cap
               /\ seen \subseteq Ball(g, seeds, 1) \/ Ball(g, seeds, 1) \subseteq seen
<1> DEFINE zero == [id \in seeds |-> 0]
           first == Admitted(g, zero, seeds, cap)
           near == seeds \cup first
           one == [id \in near |-> IF id \in seeds THEN 0 ELSE 1]
           second == Admitted(g, one, first, cap)
           seen == near \cup second
           hop == [id \in seen |-> IF id \in near THEN one[id] ELSE 2]
<1>0. Hops(g, seeds, cap) = hop
    BY DEF Hops, MaxHop
<1>1. DOMAIN zero = seeds /\ DOMAIN one = near /\ DOMAIN hop = seen
    OBVIOUS
<1>2. /\ IsFiniteSet(seeds) /\ Cardinality(seeds) \in Nat
    BY FS_Subset, FS_CardinalityType DEF IsGraph
<1> DEFINE ball == Ball(g, seeds, 1)
           beyond == Ball(g, seeds, 2)
<1>3. ball = seeds \cup NeighborIds(g, seeds) /\ beyond = ball \cup NeighborIds(g, ball)
    BY BallsAre
<1>4. /\ first \subseteq NeighborIds(g, seeds) \ seeds /\ IsFiniteSet(first)
      /\ \/ first = NeighborIds(g, seeds) \ seeds
         \/ Cardinality(first) = cap - Cardinality(seeds)
      /\ Cardinality(first) <= cap - Cardinality(seeds)
    <2> HIDE DEF zero
    <2> QED BY <1>1, AdmittedAre
<1>5. /\ near \subseteq ball /\ near \subseteq Ids(g) /\ IsFiniteSet(near)
      /\ Cardinality(near) = Cardinality(seeds) + Cardinality(first)
      /\ Cardinality(near) \in Nat /\ Cardinality(near) <= cap
      /\ near = ball \/ Cardinality(near) = cap
    <2> HIDE DEF first, ball
    <2>1. near \subseteq ball /\ near \subseteq Ids(g) /\ seeds \cap first = {}
        BY <1>3, <1>4, NeighborsAre
    <2>2. /\ IsFiniteSet(near) /\ Cardinality(first) \in Nat
          /\ Cardinality(near) = Cardinality(seeds) + Cardinality(first) - Cardinality({})
        BY <1>2, <1>4, <2>1, FS_Union, FS_CardinalityType
    <2>3. Cardinality({}) = 0
        BY FS_EmptySet
    <2>4. first = NeighborIds(g, seeds) \ seeds => near = ball
        BY <1>3
    <2> QED BY <1>2, <1>4, <2>1, <2>2, <2>3, <2>4
<1> HIDE DEF near
<1>6. /\ second \subseteq NeighborIds(g, first) \ near /\ IsFiniteSet(second)
      /\ \/ second = NeighborIds(g, first) \ near
         \/ Cardinality(second) = cap - Cardinality(near)
      /\ Cardinality(second) <= cap - Cardinality(near)
    <2> HIDE DEF one, first
    <2> QED BY <1>1, <1>5, AdmittedAre
<1>7. first \subseteq near /\ seeds \subseteq near /\ \A x \in near : x \in seeds \/ x \in first
    BY DEF near
<1> HIDE DEF first, second, ball, beyond
<1>8. Cardinality(near) = cap => second = {}
    BY <1>5, <1>6, FS_EmptySet, FS_CardinalityType
<1>9. /\ seen \subseteq Ids(g) /\ Cardinality(seen) <= cap /\ Cardinality(seen) \in Nat
      /\ Cardinality(seen) = Cardinality(near) + Cardinality(second)
    <2>1. seen \subseteq Ids(g) /\ near \cap second = {}
        BY <1>5, <1>6, NeighborsAre
    <2>2. IsFiniteSet(near) /\ IsFiniteSet(second) /\ Cardinality(second) \in Nat
        BY <1>5, <1>6, FS_CardinalityType
    <2>3. Cardinality(seen) = Cardinality(near) + Cardinality(second) - Cardinality({})
        BY <2>1, <2>2, FS_Union
    <2> QED BY <1>5, <1>6, <2>1, <2>2, <2>3, FS_EmptySet
<1>10. near \subseteq ball /\ ball \subseteq beyond /\ seen \subseteq beyond
    <2>1. first \subseteq ball
        BY <1>5, <1>7
    <2>2. NeighborIds(g, first) \subseteq NeighborIds(g, ball)
        BY <2>1, NeighborsAre
    <2> QED BY <1>3, <1>5, <1>6, <2>2
<1>11. second # {} => near = ball
    BY <1>5, <1>8
\* What is beside a seed is near, hence what is beyond lies beside the first.
<1>12. near = ball => NeighborIds(g, first) \ near = beyond \ ball
    <2> SUFFICES ASSUME near = ball, NEW x \in beyond \ ball PROVE x \in NeighborIds(g, first)
        BY <1>6, <1>10, <1>7, <1>3, NeighborsAre
    <2>1. PICK c \in ball : x \in Beside(g, c)
        BY <1>3, NeighborsAre
    <2>2. c \notin seeds
        BY <1>3, <2>1, NeighborsAre
    <2>3. c \in first
        BY <1>7, <2>1, <2>2
    <2> QED BY <2>1, <2>3, NeighborsAre
<1>13. seen = beyond \/ Cardinality(seen) = cap
    <2>1. CASE near = ball
        <3>1. second = beyond \ ball => seen = beyond
            BY <1>10, <2>1
        <3> QED BY <1>5, <1>6, <1>9, <1>12, <2>1, <3>1
    <2>2. CASE near # ball
        <3>1. Cardinality(near) = cap /\ second = {}
            BY <1>5, <1>8, <2>2
        <3>2. seen = near
            BY <3>1
        <3> QED BY <3>1, <3>2
    <2> QED BY <2>1, <2>2
<1>14. seen \subseteq ball \/ ball \subseteq seen
    BY <1>10, <1>11
<1>15. \A x \in seen : /\ x \in seeds => hop[x] = 0
                       /\ x \in near \ seeds => hop[x] = 1
                       /\ x \notin near => hop[x] = 2
    BY <1>7
<1>16. /\ Ball(g, seeds, 0) = seeds /\ Ball(g, seeds, 1) = ball /\ Ball(g, seeds, 2) = beyond
    BY BallsAre DEF ball, beyond
<1>17. \A x \in seen : x \in ball <=> x \in near
    BY <1>5, <1>6, <1>11
<1> HIDE DEF hop
<1>18. \A x \in seen : hop[x] \in 0 .. 2
    BY <1>15
<1>19. ASSUME NEW x \in seen, NEW n \in 0 .. 2
       PROVE  x \in Ball(g, seeds, n) <=> hop[x] <= n
    <2>1. CASE n = 0
        BY <1>7, <1>15, <1>16, <1>19, <2>1
    <2>2. CASE n = 1
        BY <1>7, <1>15, <1>16, <1>17, <1>19, <2>2
    <2>3. CASE n = 2
        BY <1>10, <1>15, <1>16, <1>18, <1>19, <2>3
    <2> QED BY <2>1, <2>2, <2>3
<1>20. seeds \subseteq seen
    BY <1>7
<1> HIDE DEF seen
<1> QED BY <1>0, <1>1, <1>9, <1>10, <1>13, <1>14, <1>16, <1>18, <1>19, <1>20

\* The nearest first, then the heaviest.
Nearer(g, hop, a, b) ==
    LET Weight(id) == KindWeight(g.nodes[id].kind)
    IN  \/ hop[a] < hop[b]
        \/ hop[a] = hop[b] /\ Weight(a) > Weight(b)
        \/ hop[a] = hop[b] /\ Weight(a) = Weight(b) /\ a < b
ByNearness(g, hop, S) == InOrder(S, LAMBDA a, b : Nearer(g, hop, a, b))

LEMMA NearnessSorts ==
    ASSUME NEW g, NEW S, IsFiniteSet(S), S \subseteq Nat,
           NEW hop, \A x \in S : hop[x] \in Nat
    PROVE  IsSort(ByNearness(g, hop, S), {q \in S \X S : Nearer(g, hop, q[1], q[2])}, S)
<1> DEFINE R == {q \in S \X S : Nearer(g, hop, q[1], q[2])}
           Weight(id) == KindWeight(g.nodes[id].kind)
<1>1. \A a, b \in S : <<a, b>> \in R <=> Nearer(g, hop, a, b)
    OBVIOUS
<1>2. \A a, b : Nearer(g, hop, a, b) <=>
            \/ hop[a] < hop[b]
            \/ hop[a] = hop[b] /\ Weight(a) > Weight(b)
            \/ hop[a] = hop[b] /\ Weight(a) = Weight(b) /\ a < b
    BY DEF Nearer
<1>3. \A a : Weight(a) \in Nat
    BY DEF KindWeight
<1> HIDE DEF R, Weight
<1>4. Orders(R, S)
    BY <1>1, <1>2, <1>3 DEF Orders
<1>5. ByNearness(g, hop, S) = ByRank(RankIn(R, S), S)
    <2>1. \A x \in S : {y \in S : Nearer(g, hop, y, x)} = Below(R, S, x)
        BY <1>1 DEF Below
    <2>2. RankIn(R, S) = [x \in S |-> Cardinality({y \in S : Nearer(g, hop, y, x)})]
        BY <2>1 DEF RankIn
    <2> QED BY <2>2 DEF ByNearness, InOrder, ByRank
<1>6. IsSort(ByNearness(g, hop, S), R, S)
    BY <1>4, <1>5, Ordered
<1> QED BY <1>6 DEF R

\* The answer of context, for seeds that fit its budget.
LEMMA ContextIs ==
    ASSUME NEW g, IsGraph(g), NEW seeds, seeds \subseteq Ids(g), NEW cap \in Nat,
           Cardinality(seeds) <= cap
    PROVE  LET nodes == ContextOf(g, seeds, cap)
               shown == ToSet(nodes)
           IN  /\ Apart(nodes) /\ Len(nodes) <= cap
               /\ seeds \subseteq shown /\ shown \subseteq Ball(g, seeds, MaxHop)
               /\ shown # Ball(g, seeds, MaxHop) => Len(nodes) = cap
               /\ \A i, j \in DOMAIN nodes : \A n \in 0 .. MaxHop :
                    i < j /\ nodes[j] \in Ball(g, seeds, n) => nodes[i] \in Ball(g, seeds, n)
               /\ shown \subseteq Ball(g, seeds, 1) \/ Ball(g, seeds, 1) \subseteq shown
<1> DEFINE hop == Hops(g, seeds, cap)
           seen == DOMAIN hop
           q == ByNearness(g, hop, seen)
           nodes == ContextOf(g, seeds, cap)
<1>1. /\ seen \subseteq Ids(g) /\ Cardinality(seen) <= cap
      /\ seeds \subseteq seen /\ seen \subseteq Ball(g, seeds, 2)
      /\ \A x \in seen : hop[x] \in 0 .. 2
      /\ \A x \in seen : \A n \in 0 .. 2 : x \in Ball(g, seeds, n) <=> hop[x] <= n
      /\ seen = Ball(g, seeds, 2) \/ Cardinality(seen) = cap
      /\ seen \subseteq Ball(g, seeds, 1) \/ Ball(g, seeds, 1) \subseteq seen
    BY HopsAre
<1>2. seen \cap Ids(g) = seen
    BY <1>1
<1>3. nodes = SubSeq(q, 1, Lesser(Len(q), cap))
    BY <1>2 DEF ContextOf, ByNearness, Nearer
<1> HIDE DEF hop, nodes
<1>4. IsFiniteSet(seen) /\ Cardinality(seen) \in Nat /\ seen \subseteq Nat
    BY <1>1, FS_Subset, FS_CardinalityType DEF IsGraph
<1>5. \A x \in seen : hop[x] \in Nat
    BY <1>1
<1>6. IsSort(q, {r \in seen \X seen : Nearer(g, hop, r[1], r[2])}, seen)
    BY <1>4, <1>5, NearnessSorts
<1> HIDE DEF q
<1>7. Len(q) = Cardinality(seen)
    BY <1>6 DEF IsSort
<1>8. nodes = SubSeq(q, 1, Cardinality(seen)) /\ Cardinality(seen) \in 0 .. Cardinality(seen)
    BY <1>1, <1>3, <1>4, <1>7 DEF Lesser
<1>9. /\ Len(nodes) = Cardinality(seen) /\ DOMAIN nodes = 1 .. Cardinality(seen)
      /\ \A i \in 1 .. Cardinality(seen) : nodes[i] = q[i]
      /\ \A i, j \in DOMAIN nodes : nodes[i] = nodes[j] => i = j
      /\ ToSet(nodes) = seen
    BY <1>6, <1>8, PrefixOfSort
<1>10. ASSUME NEW i \in DOMAIN nodes, NEW j \in DOMAIN nodes, NEW n \in 0 .. 2,
              i < j, nodes[j] \in Ball(g, seeds, n)
       PROVE  nodes[i] \in Ball(g, seeds, n)
    <2>1. nodes[i] \in seen /\ nodes[j] \in seen
        BY <1>9 DEF ToSet
    <2>2. Nearer(g, hop, nodes[i], nodes[j])
        BY <1>6, <1>9, <1>10 DEF IsSort
    <2>3. hop[nodes[i]] <= hop[nodes[j]]
        BY <1>5, <2>1, <2>2 DEF Nearer
    <2>4. hop[nodes[j]] <= n
        BY <1>1, <1>10, <2>1
    <2>5. hop[nodes[i]] <= n
        BY <1>5, <2>1, <2>3, <2>4
    <2> QED BY <1>1, <2>1, <2>5
<1> HIDE DEF seen
<1> QED BY <1>1, <1>9, <1>10 DEF Apart, MaxHop, nodes

\* The tightest definitions first.
Tighter(g, a, b) == \/ Size(g, a) < Size(g, b)
                    \/ Size(g, a) = Size(g, b) /\ a < b
ByTightness(g, S) == InOrder(S, LAMBDA a, b : Tighter(g, a, b))

LEMMA TightnessSorts ==
    ASSUME NEW g, IsGraph(g), NEW S, S \subseteq Ids(g)
    PROVE  IsSort(ByTightness(g, S), {q \in S \X S : Tighter(g, q[1], q[2])}, S)
<1> DEFINE R == {q \in S \X S : Tighter(g, q[1], q[2])}
           size(x) == Size(g, x)
<1>1. IsFiniteSet(S) /\ S \subseteq Nat
    BY FS_Subset DEF IsGraph
<1>2. \A a, b \in S : <<a, b>> \in R <=> Tighter(g, a, b)
    OBVIOUS
<1>3. \A x \in S : size(x) \in Int
    BY DEF IsGraph, Size
<1>4. \A a, b : Tighter(g, a, b) <=> size(a) < size(b) \/ (size(a) = size(b) /\ a < b)
    BY DEF Tighter
<1> HIDE DEF R, size
<1>5. Orders(R, S)
    BY <1>1, <1>2, <1>3, <1>4 DEF Orders
<1>6. ByTightness(g, S) = ByRank(RankIn(R, S), S)
    <2>1. \A x \in S : {y \in S : Tighter(g, y, x)} = Below(R, S, x)
        BY <1>2 DEF Below
    <2>2. RankIn(R, S) = [x \in S |-> Cardinality({y \in S : Tighter(g, y, x)})]
        BY <2>1 DEF RankIn
    <2> QED BY <2>2 DEF ByTightness, InOrder, ByRank
<1>7. IsSort(ByTightness(g, S), R, S)
    BY <1>1, <1>5, <1>6, Ordered
<1> QED BY <1>7 DEF R

\* The seeds of a task are nodes, and no more than asked for.
LEMMA SeedsFit ==
    ASSUME NEW g, IsGraph(g), NEW task, NEW cap \in Nat \ {0},
           NEW seeds \in ContextSeeds(g, task, cap)
    PROVE  seeds \subseteq Ids(g) /\ Cardinality(seeds) <= cap
<1>1. AtLeastOne(cap) = cap
    BY DEF AtLeastOne
<1>2. ASSUME NEW S, S \subseteq Ids(g), NEW T \in SomeOf(S, cap)
      PROVE  T \subseteq Ids(g) /\ Cardinality(T) <= cap
    <2>1. Cardinality(S) \in Nat
        BY <1>2, FS_Subset, FS_CardinalityType DEF IsGraph
    <2>2. T \subseteq S /\ Cardinality(T) = Lesser(Cardinality(S), cap)
        BY <1>1, <1>2 DEF SomeOf, kSubset
    <2> QED BY <1>2, <2>1, <2>2 DEF Lesser
<1>3. ASSUME task.words = <<>>, seeds = {}
      PROVE  seeds \subseteq Ids(g) /\ Cardinality(seeds) <= cap
    BY <1>3, FS_EmptySet
<1>4. ASSUME seeds = QueryLike(g, task.text, "any", cap)
      PROVE  seeds \subseteq Ids(g) /\ Cardinality(seeds) <= cap
    <2> DEFINE S == {id \in Like(g, task.text) : OfKind(g, id, "any")}
               q == ByTightness(g, S)
               l == Lesser(Cardinality(S), cap)
    <2>1. S \subseteq Ids(g)
        BY DEF Like
    <2>2. seeds = ToSet(FirstOf(q, cap))
        BY <1>4 DEF QueryLike, ByTightness, Tighter
    <2> HIDE DEF S
    <2>3. IsSort(q, {r \in S \X S : Tighter(g, r[1], r[2])}, S)
        BY <2>1, TightnessSorts
    <2> HIDE DEF q
    <2>4. Cardinality(S) \in Nat /\ Len(q) = Cardinality(S)
        BY <2>3 DEF IsSort
    <2>5. seeds = ToSet(SubSeq(q, 1, l)) /\ l \in 0 .. Cardinality(S) /\ l <= cap
        BY <1>1, <2>2, <2>4 DEF FirstOf, Lesser
    <2> HIDE DEF l
    <2>6. seeds \subseteq S /\ Cardinality(seeds) = l
        BY <2>3, <2>5, PrefixOfSort
    <2> QED BY <2>1, <2>5, <2>6
<1>5. /\ QueryFts(g, task.text, "any") \subseteq Ids(g) /\ AnyToken(g, task) \subseteq Ids(g)
      /\ AnyLike(g, task) \subseteq Ids(g)
    BY DEF QueryFts, AnyToken, AnyLike, Tokens, Like
<1>6. \/ task.words = <<>> /\ seeds = {}
      \/ seeds \in SomeOf(QueryFts(g, task.text, "any"), cap)
      \/ seeds = QueryLike(g, task.text, "any", cap)
      \/ seeds \in SomeOf(AnyToken(g, task), cap)
      \/ seeds \in SomeOf(AnyLike(g, task), cap)
    BY DEF ContextSeeds, Query, Tightest
<1> QED BY <1>2, <1>3, <1>4, <1>5, <1>6

Calls(g, symbol) == {e \in g.edges : e.kind = "calls" /\ Named(g, e.target, symbol)}
CallersRight(g, call, nodes) ==
    LET callers == {e.source : e \in Calls(g, call.text)}
    IN  /\ Apart(nodes) /\ ToSet(nodes) \subseteq callers
        /\ Cardinality(Calls(g, call.text)) <= call.limit => ToSet(nodes) = callers

LEMMA CallersAre ==
    ASSUME NEW g, IsGraph(g), NEW call, call.limit \in Nat
    PROVE  CallersRight(g, call, Callers(g, call.text, call.limit))
<1> DEFINE symbol == call.text
           limit == call.limit
           calls == Calls(g, symbol)
<1>1. \A e \in g.edges : e.source \in Ids(g) /\ e.target \in Ids(g)
    BY DEF IsGraph
<1>2. CallRows(g, symbol, "callers") = calls
    BY <1>1 DEF CallRows, ResolveIds, Pinned, Hydrated, Calls
<1> HIDE DEF calls
<1>3. Ends(g, symbol, "callers") = {e.source : e \in calls}
    BY <1>2 DEF Ends, Hydrated
<1>4. "callers" \in Directions /\ Callers(g, symbol, limit) = CallNodes(g, symbol, "callers", limit)
    BY DEF Directions, Callers
<1>5. LET nodes == CallNodes(g, symbol, "callers", limit)
      IN  /\ Apart(nodes) /\ ToSet(nodes) \subseteq {e.source : e \in calls}
          /\ Cardinality(calls) <= limit => ToSet(nodes) = {e.source : e \in calls}
    BY <1>2, <1>3, <1>4, CallNodesAre
<1> QED BY <1>4, <1>5 DEF CallersRight, calls

-----------------------------------------------------------------------------
(* Sources: the invariant                                                  *)

\* The files of a bundle as they are or were since the server started.
Were(bundles, name) ==
    {b.files : b \in (IF name = "p" THEN bundles
                      ELSE {IF name \in DOMAIN Others THEN Others[name] ELSE None}) \ {None}}
IsOf(were, table, r) ==
    \E f \in were : TablePath(table) \in DOMAIN f /\ f[TablePath(table)].revision = r
OnlyOne(were, table) ==
    /\ Cardinality(were) = 1
    /\ \A f \in were : /\ "graph/" \in DOMAIN f
                       /\ f["graph/"].revision = f[TablePath(table)].revision
TableOf(call) == IF call.tool = "search_docs" THEN "docs" ELSE "code"
Right(were, call, source, nodes, bodies) ==
    \A i \in DOMAIN bodies : bodies[i] # None =>
        /\ bodies[i].package = call.package
        /\ IsOf(were, TableOf(call), bodies[i].revision)
        /\ (OnlyOne(were, TableOf(call)) /\ nodes # <<>> /\ source.kind = "revision")
              => AtOnePlace(NodeOf(bodies[i]), Graphs[source.of].nodes[nodes[i]])

Asked == plan \in Plans /\ (request # None => request \in plan.menu)
ServedOfRevisions ==
    /\ IsFiniteSet(served) /\ installed \in served
    /\ \A b \in served \ {None} : \A k \in DOMAIN b.files :
          b.files[k].revision \in 0 .. MaxRevision
TablesWere == \A k \in DOMAIN tables : IsOf(Were(served, k[1]), k[2], tables[k])
FoundIn(source, nodes, were) ==
    source.kind = "revision" =>
        /\ source = Revision(source.of)
        /\ \E f \in were : source.of = f["graph/"].revision
        /\ source.of \in DOMAIN Graphs => nodes \in Seq(Ids(Graphs[source.of]))
FoundRight ==
    found # None =>
        /\ request # None /\ request.tool # "search_docs"
        /\ found = [kind |-> "nodes", source |-> found.source, budget |-> found.budget,
                    code |-> found.code, nodes |-> found.nodes, bodies |-> found.bodies]
        /\ found.bodies \in Seq(ToSet(found.bodies))
        /\ FoundIn(found.source, found.nodes, Were(served, request.package))
        /\ Right(Were(served, request.package), request, found.source, found.nodes, found.bodies)
ReplyRight ==
    reply # None /\ reply.kind = "text" =>
        Right(Were(served, reply.call.package), reply.call, reply.source, reply.nodes, reply.bodies)
ServerInv == Asked /\ ServedOfRevisions /\ TablesWere /\ FoundRight /\ ReplyRight

LEMMA ReplyIsRight == BodiesAreOfTheBundle <=> ReplyRight
<1>1. \A name : {b.files : b \in Revisions(name) \ {None}} = Were(served, name)
    BY DEF Revisions, Were, BundleOf
<1>2. \A source : source.kind = "revision" => GraphOf(source) = Graphs[source.of]
    BY DEF GraphOf, Project
<1> QED BY <1>1, <1>2 DEF BodiesAreOfTheBundle, ReplyRight, Right, IsOf, OnlyOne, TableOf

LEMMA OnlyOneIs ==
    ASSUME NEW were, IsFiniteSet(were), NEW table, OnlyOne(were, table), NEW f \in were
    PROVE  were = {f}
<1>1. were \ {f} = {}
    <2>1. IsFiniteSet(were \ {f}) /\ Cardinality(were \ {f}) = 1 - 1
        BY FS_RemoveElement DEF OnlyOne
    <2> QED BY <2>1, FS_EmptySet
<1> QED BY <1>1

LEMMA RightStays ==
    ASSUME NEW were, NEW more, were \subseteq more, IsFiniteSet(more),
           NEW call, NEW source, NEW nodes, NEW bodies, Right(were, call, source, nodes, bodies)
    PROVE  Right(more, call, source, nodes, bodies)
<1> DEFINE t == TableOf(call)
<1> SUFFICES ASSUME NEW i \in DOMAIN bodies, bodies[i] # None
             PROVE  /\ bodies[i].package = call.package
                    /\ IsOf(more, t, bodies[i].revision)
                    /\ (OnlyOne(more, t) /\ nodes # <<>> /\ source.kind = "revision")
                          => AtOnePlace(NodeOf(bodies[i]), Graphs[source.of].nodes[nodes[i]])
    BY DEF Right
<1>1. /\ bodies[i].package = call.package
      /\ IsOf(were, t, bodies[i].revision)
      /\ (OnlyOne(were, t) /\ nodes # <<>> /\ source.kind = "revision")
            => AtOnePlace(NodeOf(bodies[i]), Graphs[source.of].nodes[nodes[i]])
    BY DEF Right
<1> HIDE DEF t
<1>2. IsOf(more, t, bodies[i].revision)
    BY <1>1 DEF IsOf
<1>3. OnlyOne(more, t) => were = more
    <2> SUFFICES ASSUME OnlyOne(more, t) PROVE were = more
        OBVIOUS
    <2>1. PICK f \in were : TRUE
        BY <1>1 DEF IsOf
    <2>2. more = {f}
        BY <2>1, OnlyOneIs
    <2> QED BY <2>1, <2>2
<1> QED BY <1>1, <1>2, <1>3

LEMMA WereIsFinite ==
    ASSUME NEW bundles, IsFiniteSet(bundles), NEW name
    PROVE  IsFiniteSet(Were(bundles, name))
<1> DEFINE B == IF name = "p" THEN bundles
                ELSE {IF name \in DOMAIN Others THEN Others[name] ELSE None}
           S == B \ {None}
           f == [b \in S |-> b.files]
<1>1. IsFiniteSet(B)
    BY FS_Singleton
<1>2. IsFiniteSet(S)
    BY <1>1, FS_Difference
<1>3. f \in Surjection(S, Were(bundles, name))
    BY DEF Were, Surjection
<1> HIDE DEF f, S
<1> QED BY <1>2, <1>3, FS_Surjection

-----------------------------------------------------------------------------
(* What is read                                                            *)

LEMMA DiskIsOf ==
    ASSUME ServedOfRevisions, NEW name, NEW table, Disk(name, table) # 0
    PROVE  /\ BundleOf(name) # None /\ BundleOf(name).files \in Were(served, name)
           /\ TablePath(table) \in DOMAIN BundleOf(name).files
           /\ Disk(name, table) = BundleOf(name).files[TablePath(table)].revision
           /\ IsOf(Were(served, name), table, Disk(name, table))
<1>1. /\ BundleOf(name) # None /\ TablePath(table) \in DOMAIN BundleOf(name).files
      /\ Disk(name, table) = BundleOf(name).files[TablePath(table)].revision
    BY DEF Disk
<1>3. BundleOf(name).files \in Were(served, name)
    BY <1>1 DEF Were, BundleOf, ServedOfRevisions
<1> QED BY <1>1, <1>3 DEF IsOf

LEMMA ReadableIsOf ==
    ASSUME ServedOfRevisions, TablesWere, NEW name, NEW table,
           NEW r \in Readable(name, table), r # 0
    PROVE  IsOf(Were(served, name), table, r)
<1> DEFINE key == <<name, table>>
<1>1. r = Handle(name, table)
    BY DEF Readable
<1>2. CASE key \in DOMAIN tables
    <2>1. r = tables[key] /\ key[1] = name /\ key[2] = table
        BY <1>1, <1>2 DEF Handle, TableCacheKey
    <2> QED BY <1>2, <2>1 DEF TablesWere
<1>3. CASE key \notin DOMAIN tables
    <2>1. r = Disk(name, table)
        BY <1>1, <1>3 DEF Handle, TableCacheKey
    <2> QED BY <2>1, DiskIsOf
<1> QED BY <1>2, <1>3

LEMMA OpenedWere ==
    ASSUME ServedOfRevisions, TablesWere, NEW name, NEW table,
           NEW k \in DOMAIN Opened(name, table)
    PROVE  IsOf(Were(served, k[1]), k[2], Opened(name, table)[k])
<1> DEFINE key == <<name, table>>
<1>1. CASE key \in DOMAIN tables \/ Disk(name, table) = 0
    <2>1. Opened(name, table) = tables
        BY <1>1 DEF Opened, TableCacheKey
    <2> QED BY <2>1 DEF TablesWere
<1>2. CASE key \notin DOMAIN tables /\ Disk(name, table) # 0
    <2>1. Opened(name, table) = [l \in DOMAIN tables \cup {key} |->
                                    IF l = key THEN Disk(name, table) ELSE tables[l]]
        BY <1>2 DEF Opened, TableCacheKey
    <2>2. CASE k = key
        <3>1. k[1] = name /\ k[2] = table /\ Opened(name, table)[k] = Disk(name, table)
            BY <2>1, <2>2
        <3> QED BY <1>2, <3>1, DiskIsOf
    <2>3. CASE k # key
        <3>1. k \in DOMAIN tables /\ Opened(name, table)[k] = tables[k]
            BY <2>1, <2>3
        <3> QED BY <3>1 DEF TablesWere
    <2> QED BY <2>2, <2>3
<1> QED BY <1>1, <1>2

LEMMA SourcesAre ==
    ASSUME ServedOfRevisions, TablesWere, NEW name, NEW symbol,
           NEW body \in Sources(name, symbol), body # None
    PROVE  /\ Disk(name, "code") # 0 /\ body.revision # 0
           /\ body.package = name /\ IsOf(Were(served, name), "code", body.revision)
           /\ body.id \in RowsOf(name, symbol, body.revision)
<1>1. Disk(name, "code") # 0
    BY DEF Sources
<1>2. PICK r \in Readable(name, "code") :
            body \in IF RowsOf(name, symbol, r) = {} THEN {None}
                     ELSE {Body(name, r, id) : id \in RowsOf(name, symbol, r)}
    BY <1>1 DEF Sources
<1>3. PICK id \in RowsOf(name, symbol, r) : body = Body(name, r, id)
    BY <1>2
<1>4. r # 0
    BY <1>3 DEF RowsOf
<1>5. body.package = name /\ body.revision = r /\ body.id = id
    BY <1>3 DEF Body
<1> QED BY <1>1, <1>3, <1>4, <1>5, ReadableIsOf

\* As long as there was one bundle, of one revision, a source that is looked up
\* by the name of a node begins where the node does.
LEMMA SourcesStand ==
    ASSUME ServedOfRevisions, TablesWere,
           NEW name, OnlyOne(Were(served, name), "code"),
           NEW source, NEW nodes, source.kind = "revision", FoundIn(source, nodes, Were(served, name)),
           NEW k \in Nat, k < Len(nodes),
           NEW body \in Sources(name, GraphOf(source).nodes[nodes[k + 1]].qualified), body # None
    PROVE  AtOnePlace(NodeOf(body), Graphs[source.of].nodes[nodes[k + 1]])
<1> DEFINE i == k + 1
           symbol == GraphOf(source).nodes[nodes[i]].qualified
           r == body.revision
           g == Graphs[r]
           n == nodes[i]
<1>1. /\ Disk(name, "code") # 0 /\ r # 0 /\ IsOf(Were(served, name), "code", r)
      /\ body.id \in RowsOf(name, symbol, r)
    BY SourcesAre
<1>2. PICK f \in Were(served, name) : TablePath("code") \in DOMAIN f /\ f[TablePath("code")].revision = r
    BY <1>1 DEF IsOf
<1>3. Were(served, name) = {f} /\ "graph/" \in DOMAIN f /\ f["graph/"].revision = r
    BY <1>2, OnlyOneIs, WereIsFinite DEF OnlyOne, ServedOfRevisions
<1>4. BundleOf(name) # None /\ BundleOf(name).files = f
    BY <1>1, <1>3, DiskIsOf
<1>5. r \in DOMAIN Graphs
    <2>1. CASE name = "p"
        <3>1. PICK b \in served \ {None} : f = b.files
            BY <1>2, <2>1 DEF Were
        <3>2. r \in 0 .. MaxRevision
            BY <1>2, <3>1 DEF ServedOfRevisions
        <3>3. r \in 1 .. MaxRevision
            BY <1>1, <3>2, BundleAssumption
        <3> QED BY <3>3, ServerAssumption
    <2>2. CASE name # "p"
        <3>1. name \in DOMAIN Others /\ BundleOf(name) = Others[name]
            BY <1>4, <2>2 DEF BundleOf
        <3> QED BY <1>3, <1>4, <3>1, ServerAssumption
    <2> QED BY <2>1, <2>2
<1>6. source = Revision(r)
    BY <1>3 DEF FoundIn
<1>7. GraphOf(source) = g /\ nodes \in Seq(Ids(g))
    <2>1. source # Project /\ source.of = r
        BY <1>6 DEF Revision, Project
    <2> QED BY <1>5, <2>1 DEF FoundIn, GraphOf
<1>8. n \in Ids(g) /\ symbol = g.nodes[n].qualified
    <2>1. Len(nodes) \in Nat
        BY <1>7
    <2>2. i \in 1 .. Len(nodes)
        BY <2>1
    <2> QED BY <1>7, <2>2, ElementOfSeq
<1> HIDE DEF n, symbol, r, g
<1> DEFINE ids == ResolveIds(g, symbol)
<1>9. n \in ids
    BY <1>8 DEF ResolveIds, Named
<1>10. body.id \in IF r = 0 \/ Cardinality(ids) > 1 THEN {}
                   ELSE IF ids = {} THEN RowsNamed(r, symbol)
                   ELSE RowsAt(r, g.nodes[CHOOSE id \in ids : TRUE])
    BY <1>1, <1>3, <1>4 DEF RowsOf, IsIndexed, g
<1>11. ids = {n}
    <2>1. IsFiniteSet(ids)
        <3>1. IsGraph(g) /\ ids \subseteq Ids(g)
            BY <1>5, ServerAssumption DEF g, ResolveIds
        <3> QED BY <3>1, FS_Subset DEF IsGraph
    <2> HIDE DEF ids
    <2>2. ~ (Cardinality(ids) > 1)
        BY <1>10
    <2>3. IsFiniteSet(ids \ {n}) /\ Cardinality(ids \ {n}) = Cardinality(ids) - 1
        BY <1>9, <2>1, FS_RemoveElement
    <2>4. Cardinality(ids \ {n}) = 0
        <3>1. Cardinality(ids) \in Nat /\ Cardinality(ids \ {n}) \in Nat
            BY <2>1, <2>3, FS_CardinalityType
        <3> QED BY <2>2, <2>3, <3>1
    <2>5. ids \ {n} = {}
        BY <2>3, <2>4, FS_EmptySet
    <2> QED BY <1>9, <2>5
<1> HIDE DEF ids
<1>12. body.id \in RowsAt(r, g.nodes[n])
    BY <1>10, <1>11
<1>13. AtOnePlace(g.nodes[body.id], g.nodes[n])
    BY <1>12 DEF RowsAt, g
<1> QED BY <1>6, <1>13 DEF NodeOf, Revision, n, r, g

-----------------------------------------------------------------------------
(* The invariant is inductive                                              *)

LEMMA ServerBegins == Init => ServerInv
<1> SUFFICES ASSUME Init PROVE ServerInv
    OBVIOUS
<1>1. Asked
    BY DEF Init, InitBundle, InitServer, Asked
<1>2. ServedOfRevisions
    <2>1. served = {None} /\ installed = None
        BY DEF Init, InitBundle, InitServer
    <2> QED BY <2>1, FS_Singleton DEF ServedOfRevisions
<1>3. TablesWere
    <2>1. DOMAIN tables = {}
        BY DEF Init, InitServer
    <2> QED BY <2>1 DEF TablesWere
<1>4. FoundRight /\ ReplyRight
    BY DEF Init, InitServer, FoundRight, ReplyRight
<1> QED BY <1>1, <1>2, <1>3, <1>4 DEF ServerInv

\* A step that leaves the bundles as they are.
Quiet == plan' = plan /\ installed' = installed /\ served' = served

LEMMA NoBodies ==
    ASSUME NEW were, NEW call, NEW source, NEW nodes
    PROVE  Right(were, call, source, nodes, <<>>)
BY DEF Right

LEMMA ReplyStep ==
    ASSUME ServerInv, Quiet, TablesWere', request' = None, found' = None,
           NEW source, NEW nodes, NEW bodies, NEW seeds, NEW cap,
           reply' = Shown(source, nodes, bodies, seeds, cap),
           Right(Were(served, request.package), request, source, nodes, bodies)
    PROVE  ServerInv'
<1>1. /\ reply'.call = request /\ reply'.source = source /\ reply'.nodes = nodes
      /\ reply'.bodies = bodies
    BY DEF Shown
<1>2. ReplyRight'
    BY <1>1 DEF ReplyRight, Quiet
<1>3. Asked' /\ ServedOfRevisions'
    BY DEF ServerInv, Asked, ServedOfRevisions, Quiet
<1>4. FoundRight'
    BY DEF FoundRight
<1> QED BY <1>2, <1>3, <1>4 DEF ServerInv

LEMMA AnswerStep ==
    ASSUME ServerInv, found = None, NEW source, NEW nodes, Answer(source, nodes)
    PROVE  ServerInv'
<1>1. /\ Quiet /\ tables' = tables /\ request' = None /\ found' = None
      /\ reply' = Shown(source, nodes, <<>>, {}, 0)
    BY DEF Answer, Quiet, bundleVars
<1>2. TablesWere'
    BY <1>1 DEF ServerInv, TablesWere, Quiet
<1>3. Right(Were(served, request.package), request, source, nodes, <<>>)
    BY NoBodies
<1> QED BY <1>1, <1>2, <1>3, ReplyStep

LEMMA OpenedStep ==
    ASSUME ServerInv, Quiet, NEW name, NEW table, tables' = Opened(name, table)
    PROVE  TablesWere'
BY OpenedWere DEF ServerInv, TablesWere, Quiet

LEMMA ReadsStep ==
    ASSUME ServerInv, found = None, NEW table, NEW bodies, Reads(table, None, bodies),
           \A i \in DOMAIN bodies :
               /\ bodies[i].package = request.package
               /\ IsOf(Were(served, request.package), TableOf(request), bodies[i].revision)
    PROVE  ServerInv'
<1>1. /\ Quiet /\ tables' = Opened(request.package, table) /\ request' = None
      /\ found' = None /\ reply' = Shown(None, <<>>, bodies, {}, 0)
    BY DEF Reads, Quiet, bundleVars
<1>2. TablesWere'
    BY <1>1, OpenedStep
<1>3. Right(Were(served, request.package), request, None, <<>>, bodies)
    BY DEF Right
<1> QED BY <1>1, <1>2, <1>3, ReplyStep

LEMMA ReceiveStep ==
    ASSUME ServerInv, Receive
    PROVE  ServerInv'
<1>1. /\ Quiet /\ tables' = tables /\ found' = found /\ request = None
      /\ request' = None \/ request' \in plan.menu
      /\ reply' = None \/ \E line \in Lines : reply' = HandleMessage(line)
    BY DEF Receive, Quiet, bundleVars
<1>2. found = None
    BY <1>1 DEF ServerInv, FoundRight
<1>3. ReplyRight'
    <2>1. \A line \in Lines : HandleMessage(line) = None \/ HandleMessage(line).kind = "reply"
        BY DEF HandleMessage, Reply
    <2>2. reply' = None \/ reply'.kind = "reply"
        BY <1>1, <2>1
    <2> QED BY <2>2 DEF ReplyRight
<1>4. Asked' /\ ServedOfRevisions' /\ TablesWere'
    BY <1>1 DEF ServerInv, Asked, ServedOfRevisions, TablesWere, Quiet
<1>5. FoundRight'
    BY <1>1, <1>2 DEF FoundRight
<1> QED BY <1>3, <1>4, <1>5 DEF ServerInv

\* Refusals, and the readers of a graph that show no source.
LEMMA AnswersStep ==
    ASSUME ServerInv,
           \/ Refuse \/ ListPackages \/ SearchSymbols \/ GetImpact \/ ListFiles
           \/ DocsMetadata
    PROVE  ServerInv'
<1>1. found = None /\ \E source, nodes : Answer(source, nodes)
    BY DEF Refuse, ListPackages, SearchSymbols, GetImpact, ListFiles, DocsMetadata, Calling
<1> QED BY <1>1, AnswerStep

LEMMA ContextStep ==
    ASSUME ServerInv, GetContext
    PROVE  ServerInv'
<1>1. /\ found = None /\ Quiet /\ tables' = tables /\ request' = None /\ found' = None
      /\ \E left, seeds, cap : reply' = Shown(Source, left, <<>>, seeds, cap)
    BY DEF GetContext, Calling, Quiet, bundleVars
<1>2. TablesWere'
    BY <1>1 DEF ServerInv, TablesWere, Quiet
<1>3. PICK left, seeds, cap : reply' = Shown(Source, left, <<>>, seeds, cap)
    BY <1>1
<1>4. Right(Were(served, request.package), request, Source, left, <<>>)
    BY NoBodies
<1> QED BY <1>1, <1>2, <1>3, <1>4, ReplyStep

LEMMA ReadSymbolStep ==
    ASSUME ServerInv, ReadSymbol
    PROVE  ServerInv'
<1>1. found = None /\ request.tool = "read_symbol"
    BY DEF ReadSymbol, Calling
<1>2. PICK body \in Sources(request.package, request.text) :
            Reads("code", None, IF body = None THEN <<>> ELSE <<body>>)
    BY DEF ReadSymbol
<1> DEFINE bodies == IF body = None THEN <<>> ELSE <<body>>
<1>3. \A i \in DOMAIN bodies : bodies[i] = body /\ body # None
    OBVIOUS
<1>4. body # None =>
        /\ body.package = request.package
        /\ IsOf(Were(served, request.package), TableOf(request), body.revision)
    BY <1>1, SourcesAre DEF ServerInv, TableOf
<1> HIDE DEF bodies
<1>5. \A i \in DOMAIN bodies :
        /\ bodies[i].package = request.package
        /\ IsOf(Were(served, request.package), TableOf(request), bodies[i].revision)
    BY <1>3, <1>4
<1>6. Reads("code", None, bodies)
    BY <1>2 DEF bodies
<1> QED BY <1>1, <1>5, <1>6, ReadsStep

LEMMA ReadCodeStep ==
    ASSUME ServerInv, ReadCode
    PROVE  ServerInv'
<1>1. found = None /\ request.tool = "read_code"
    BY DEF ReadCode, Calling
<1>2. PICK r \in Readable(request.package, "code") :
            \/ Reads("code", None, <<>>)
            \/ r # 0 /\ \E id : Reads("code", None, <<Body(request.package, r, id)>>)
    BY DEF ReadCode
<1>3. CASE Reads("code", None, <<>>)
    BY <1>1, <1>3, ReadsStep
<1>4. CASE r # 0 /\ \E id : Reads("code", None, <<Body(request.package, r, id)>>)
    <2>1. PICK id : Reads("code", None, <<Body(request.package, r, id)>>)
        BY <1>4
    <2> DEFINE body == Body(request.package, r, id)
               bodies == <<body>>
    <2>2. body.package = request.package /\ body.revision = r
        BY DEF Body
    <2>3. IsOf(Were(served, request.package), TableOf(request), r)
        BY <1>1, <1>4, ReadableIsOf DEF ServerInv, TableOf
    <2> HIDE DEF body
    <2>4. \A i \in DOMAIN bodies : bodies[i] = body
        OBVIOUS
    <2>5. Reads("code", None, bodies)
        BY <2>1 DEF body
    <2> HIDE DEF bodies
    <2> QED BY <1>1, <2>2, <2>3, <2>4, <2>5, ReadsStep
<1> QED BY <1>2, <1>3, <1>4

LEMMA SearchStep ==
    ASSUME ServerInv, SearchCode \/ SearchDocs
    PROVE  ServerInv'
<1> DEFINE Hits(r, left) == [i \in DOMAIN SetToSeq(left) |->
                                Body(request.package, r, SetToSeq(left)[i])]
<1>1. PICK table \in {"code", "docs"} :
        /\ found = None /\ table = TableOf(request)
        /\ \E r \in Readable(request.package, table) :
              \/ Reads(table, None, <<>>)
              \/ r # 0 /\ \E left : Reads(table, None, Hits(r, left))
    <2>1. CASE SearchCode
        BY <2>1 DEF SearchCode, Search, Calling, TableOf
    <2>2. CASE SearchDocs
        BY <2>2 DEF SearchDocs, Search, Calling, TableOf
    <2> QED BY <2>1, <2>2
<1>2. PICK r \in Readable(request.package, table) :
            \/ Reads(table, None, <<>>)
            \/ r # 0 /\ \E left : Reads(table, None, Hits(r, left))
    BY <1>1
<1>3. CASE Reads(table, None, <<>>)
    BY <1>1, <1>3, ReadsStep
<1>4. CASE r # 0 /\ \E left : Reads(table, None, Hits(r, left))
    <2>1. PICK left : Reads(table, None, Hits(r, left))
        BY <1>4
    <2>2. \A id : Body(request.package, r, id).package = request.package
                  /\ Body(request.package, r, id).revision = r
        BY DEF Body
    <2>3. IsOf(Were(served, request.package), TableOf(request), r)
        BY <1>1, <1>4, ReadableIsOf DEF ServerInv
    <2>4. \A i \in DOMAIN Hits(r, left) :
            /\ Hits(r, left)[i].package = request.package
            /\ Hits(r, left)[i].revision = r
        BY <2>2
    <2> DEFINE bodies == Hits(r, left)
    <2> HIDE DEF Hits, bodies
    <2>5. Reads(table, None, bodies)
        BY <2>1 DEF bodies
    <2>6. \A i \in DOMAIN bodies :
            /\ bodies[i].package = request.package
            /\ IsOf(Were(served, request.package), TableOf(request), bodies[i].revision)
        BY <2>3, <2>4 DEF bodies
    <2> QED BY <1>1, <2>5, <2>6, ReadsStep
<1> QED BY <1>2, <1>3, <1>4

\* While the sources of nodes are looked up.
LEMMA FoundStep ==
    ASSUME ServerInv, Quiet, UNCHANGED <<request, reply>>, TablesWere', FoundRight'
    PROVE  ServerInv'
BY DEF ServerInv, Asked, ServedOfRevisions, ReplyRight, Quiet

LEMMA GetCallsStep ==
    ASSUME ServerInv, GetCalls
    PROVE  ServerInv'
<1> DEFINE rows == IF request.tool = "get_callers"
                   THEN Callers(GraphOf(Source), request.text, request.limit)
                   ELSE Callees(GraphOf(Source), request.text, request.limit)
           code == ResolveTable(request.package, "code")
           were == Were(served, request.package)
<1>1. /\ request # None /\ request.tool \in {"get_callers", "get_callees"} /\ Source # None
      /\ found' = [kind |-> "nodes", source |-> Source, budget |-> ByteBudget,
                   code |-> code, nodes |-> rows, bodies |-> <<>>]
      /\ Quiet /\ UNCHANGED <<tables, request, reply>>
    BY DEF GetCalls, Calling, Quiet, bundleVars
<1>2. TablesWere'
    BY <1>1 DEF ServerInv, TablesWere, Quiet
<1>3. FoundIn(Source, rows, were)
    <2> SUFFICES ASSUME Source.kind = "revision" PROVE FoundIn(Source, rows, were)
        BY DEF FoundIn
    <2> DEFINE b == BundleOf(request.package)
    <2>1. Project.kind # "revision"
        BY DEF Project
    <2>2. b # None /\ Source = Revision(b.files["graph/"].revision)
        BY <1>1, <2>1 DEF Source, ResolveCodegraphPath, IsIndexed
    <2>3. /\ Source.of = b.files["graph/"].revision /\ Source = Revision(Source.of)
          /\ Source # Project
        BY <2>2 DEF Revision, Project
    <2>4. b.files \in were
        BY <2>2 DEF ServerInv, ServedOfRevisions, Were, BundleOf
    <2>5. ASSUME Source.of \in DOMAIN Graphs PROVE rows \in Seq(Ids(Graphs[Source.of]))
        <3> DEFINE g == Graphs[Source.of]
        <3>1. GraphOf(Source) = g
            BY <2>3 DEF GraphOf
        <3>2. IsGraph(g)
            BY <2>5, ServerAssumption
        <3>3. request.limit \in Nat
            BY <1>1, ServerAssumption DEF ServerInv, Asked
        <3> HIDE DEF g
        <3>4. \A d \in Directions : CallNodes(g, request.text, d, request.limit) \in Seq(Ids(g))
            BY <3>2, <3>3, CallNodesAre
        <3>5. rows \in Seq(Ids(g))
            BY <3>1, <3>4 DEF Callers, Callees, Directions
        <3> QED BY <3>5 DEF g
    <2> HIDE DEF rows, were, b
    <2> QED BY <2>3, <2>4, <2>5 DEF FoundIn
<1>4. Right(were, request, Source, rows, <<>>)
    BY NoBodies
<1> HIDE DEF rows, code
<1>5. /\ found'.source = Source /\ found'.nodes = rows /\ found'.bodies = <<>>
      /\ found' = [kind |-> "nodes", source |-> found'.source, budget |-> found'.budget,
                   code |-> found'.code, nodes |-> found'.nodes, bodies |-> found'.bodies]
    BY <1>1
<1>6. <<>> \in Seq(ToSet(<<>>))
    OBVIOUS
<1>7. FoundRight'
    BY <1>1, <1>3, <1>4, <1>5, <1>6 DEF FoundRight, Quiet
<1> QED BY <1>1, <1>2, <1>7, FoundStep

LEMMA InlinedStep ==
    ASSUME ServerInv, Inlined
    PROVE  ServerInv'
<1>1. /\ found # None /\ Quiet /\ tables' = tables /\ request' = None /\ found' = None
      /\ reply' = Shown(found.source, found.nodes, found.bodies, {}, 0)
    BY DEF Inlined, Quiet, bundleVars
<1>2. TablesWere'
    BY <1>1 DEF ServerInv, TablesWere, Quiet
<1>3. Right(Were(served, request.package), request, found.source, found.nodes, found.bodies)
    BY <1>1 DEF ServerInv, FoundRight
<1> QED BY <1>1, <1>2, <1>3, ReplyStep

LEMMA InlineStep ==
    ASSUME ServerInv, Inline
    PROVE  ServerInv'
<1> DEFINE bodies == found.bodies
           nodes == found.nodes
           k == Len(bodies)
           name == request.package
           were == Were(served, name)
           node == GraphOf(found.source).nodes[nodes[k + 1]]
<1>1. /\ found # None /\ k < Len(nodes) /\ Quiet /\ UNCHANGED <<request, reply>>
      /\ tables' = tables \/ tables' = Opened(name, "code")
    BY DEF Inline, Quiet, bundleVars
<1>2. /\ request # None /\ request.tool # "search_docs"
      /\ found = [kind |-> "nodes", source |-> found.source, budget |-> found.budget,
                  code |-> found.code, nodes |-> nodes, bodies |-> bodies]
      /\ bodies \in Seq(ToSet(bodies))
      /\ FoundIn(found.source, nodes, were)
      /\ Right(were, request, found.source, nodes, bodies)
    BY <1>1 DEF ServerInv, FoundRight
<1>3. PICK body, budget :
            /\ body = None \/ body \in Sources(name, node.qualified)
            /\ found' = [found EXCEPT !.bodies = Append(@, body), !.budget = budget]
    <2>1. PICK b \in IF found.code THEN Sources(name, node.qualified) ELSE {None} :
             LET fits == b # None /\ Cost(b) <= found.budget
             IN  found' = [found EXCEPT
                             !.bodies = Append(@, IF fits THEN b ELSE None),
                             !.budget = IF fits THEN @ - Cost(b) ELSE @]
        BY DEF Inline
    <2> DEFINE fits == b # None /\ Cost(b) <= found.budget
               body == IF fits THEN b ELSE None
               budget == IF fits THEN found.budget - Cost(b) ELSE found.budget
    <2>2. found' = [found EXCEPT !.bodies = Append(@, body), !.budget = budget]
        BY <2>1
    <2>3. body = None \/ body \in Sources(name, node.qualified)
        BY <2>1
    <2> HIDE DEF body, budget
    <2> QED BY <2>2, <2>3
<1> DEFINE more == Append(bodies, body)
<1>4. found' = [kind |-> "nodes", source |-> found.source, budget |-> budget,
                code |-> found.code, nodes |-> nodes, bodies |-> more]
    <2>1. found' = [found EXCEPT !.bodies = more, !.budget = budget]
        BY <1>3
    <2>2. found = [kind |-> "nodes", source |-> found.source, budget |-> found.budget,
                   code |-> found.code, nodes |-> nodes, bodies |-> bodies]
        BY <1>2
    <2> HIDE DEF more, bodies, nodes
    <2> DEFINE h == [found EXCEPT !.bodies = more]
    <2>3. found' = [h EXCEPT !.budget = budget]
        BY <2>1
    <2>4. h = [kind |-> "nodes", source |-> found.source, budget |-> found.budget,
               code |-> found.code, nodes |-> nodes, bodies |-> more]
        BY <2>2
    <2> HIDE DEF h
    <2> QED BY <2>3, <2>4
<1>5. TablesWere'
    <2>1. CASE tables' = tables
        BY <1>1, <2>1 DEF ServerInv, TablesWere, Quiet
    <2>2. CASE tables' = Opened(name, "code")
        BY <1>1, <2>2, OpenedStep
    <2> QED BY <1>1, <2>1, <2>2
<1>6. /\ k \in Nat /\ DOMAIN bodies = 1 .. k
      /\ DOMAIN more = 1 .. k + 1 /\ Len(more) = k + 1 /\ more[k + 1] = body
      /\ \A i \in 1 .. k : more[i] = bodies[i]
      /\ more \in Seq(ToSet(more))
    <2> HIDE DEF bodies
    <2>1. k \in Nat /\ DOMAIN bodies = 1 .. k
        BY <1>2
    <2>2. /\ DOMAIN more = 1 .. k + 1 /\ Len(more) = k + 1 /\ more[k + 1] = body
          /\ \A i \in 1 .. k : more[i] = bodies[i]
        BY <1>2
    <2> HIDE DEF k
    <2> DEFINE X == ToSet(bodies) \cup {body}
    <2>3. more \in Seq(X)
        <3>1. bodies \in Seq(X)
            BY <1>2, SeqMonotonic
        <3> HIDE DEF X
        <3>2. body \in X
            BY DEF X
        <3> QED BY <3>1, <3>2
    <2>4. k + 1 \in Nat
        BY <2>1
    <2>5. more \in Seq(ToSet(more))
        <3> HIDE DEF more, X
        <3>1. more \in [1 .. k + 1 -> X]
            BY <2>2, <2>3, LenProperties
        <3>2. \A i \in 1 .. k + 1 : more[i] \in ToSet(more)
            BY <2>2 DEF ToSet
        <3> QED BY <2>4, <3>1, <3>2, FunctionInSeq
    <2> QED BY <2>1, <2>2, <2>5
<1> HIDE DEF more
<1>7. ASSUME body # None
      PROVE  /\ body.package = name /\ IsOf(were, "code", body.revision)
             /\ (OnlyOne(were, "code") /\ found.source.kind = "revision")
                   => AtOnePlace(NodeOf(body), Graphs[found.source.of].nodes[nodes[k + 1]])
    <2>1. body \in Sources(name, node.qualified) /\ ServedOfRevisions /\ TablesWere
        BY <1>3, <1>7 DEF ServerInv
    <2>2. body.package = name /\ IsOf(were, "code", body.revision)
        BY <1>7, <2>1, SourcesAre
    <2>3. ASSUME OnlyOne(were, "code"), found.source.kind = "revision"
          PROVE  AtOnePlace(NodeOf(body), Graphs[found.source.of].nodes[nodes[k + 1]])
        <3> DEFINE source == found.source
        <3>1. k \in Nat /\ k < Len(nodes)
            BY <1>1, <1>6
        <3>2. FoundIn(source, nodes, were) /\ source.kind = "revision"
            BY <1>2, <2>3
        <3>3. body \in Sources(name, GraphOf(source).nodes[nodes[k + 1]].qualified)
            BY <2>1
        <3> HIDE DEF bodies, nodes, k, name, node, source
        <3>4. AtOnePlace(NodeOf(body), Graphs[source.of].nodes[nodes[k + 1]])
            BY <1>7, <2>1, <2>3, <3>1, <3>2, <3>3, SourcesStand
        <3> QED BY <3>4 DEF source
    <2> QED BY <2>2, <2>3
<1>8. TableOf(request) = "code"
    BY <1>2 DEF TableOf
<1> HIDE DEF bodies, nodes, k, node, were, name
<1>9. Right(were, request, found.source, nodes, more)
    <2> SUFFICES ASSUME NEW i \in 1 .. k + 1, more[i] # None
                 PROVE  /\ more[i].package = request.package
                        /\ IsOf(were, TableOf(request), more[i].revision)
                        /\ (OnlyOne(were, TableOf(request)) /\ nodes # <<>>
                              /\ found.source.kind = "revision")
                              => AtOnePlace(NodeOf(more[i]), Graphs[found.source.of].nodes[nodes[i]])
        BY <1>6 DEF Right
    <2>1. CASE i \in 1 .. k
        <3>1. more[i] = bodies[i] /\ i \in DOMAIN bodies
            BY <1>6, <2>1
        <3> QED BY <1>2, <3>1 DEF Right
    <2>2. CASE i = k + 1
        <3>1. more[i] = body /\ body # None
            BY <1>6, <2>2
        <3> QED BY <1>7, <1>8, <2>2, <3>1 DEF name
    <2> QED BY <1>6, <2>1, <2>2
<1>10. /\ found'.source = found.source /\ found'.nodes = nodes /\ found'.bodies = more
       /\ found' = [kind |-> "nodes", source |-> found'.source, budget |-> found'.budget,
                    code |-> found'.code, nodes |-> found'.nodes, bodies |-> found'.bodies]
    BY <1>4
<1>11. were = Were(served', request'.package) /\ request' = request
    BY <1>1 DEF Quiet, were, name
<1>12. FoundRight'
    BY <1>2, <1>6, <1>9, <1>10, <1>11 DEF FoundRight
<1> QED BY <1>1, <1>5, <1>12, FoundStep

LEMMA InstalledRevisions ==
    ASSUME NEW a, Faithful(a), NEW files, files = Extracted(a), NEW key \in DOMAIN files
    PROVE  files[key].revision \in 0 .. MaxRevision
<1>1. a.entries \in Seq(Entries) /\ files = Checksums(a.entries)
    BY DEF Faithful, Extracted
<1>2. PICK i \in 1 .. Len(a.entries) : files[key] = a.entries[i].content
    BY <1>1, ChecksumsOfEntries
<1>3. a.entries[i] \in Entries
    BY <1>1, <1>2, ElementOfSeq
<1> QED BY <1>2, <1>3 DEF Entries, Contents

LEMMA ElsewhereStep ==
    ASSUME ServerInv, BundleInv', Elsewhere
    PROVE  ServerInv'
<1>1. /\ served' = served \cup {installed'} /\ served \subseteq served'
      /\ UNCHANGED <<tables, request, found, reply>>
    BY DEF Elsewhere
<1>2. plan' = plan
    BY DEF Elsewhere, NextBundle, Rewrite, Clear, Pack, Collect, Create, Finish, Kill, Sign,
           Ship, Damage, Install, Uninstall
<1>3. Asked'
    BY <1>1, <1>2 DEF ServerInv, Asked
<1>4. ServedOfRevisions'
    <2>1. IsFiniteSet(served')
        BY <1>1, FS_AddElement DEF ServerInv, ServedOfRevisions
    <2>2. ASSUME installed' # None, NEW key \in DOMAIN installed'.files
          PROVE  installed'.files[key].revision \in 0 .. MaxRevision
        <3>1. PICK a \in packed' : Faithful(a) /\ installed'.files = Extracted(a)
            BY <2>2 DEF BundleInv, InstalledAsPacked, PackedFaithful
        <3> QED BY <2>2, <3>1, InstalledRevisions
    <2> QED BY <1>1, <2>1, <2>2 DEF ServerInv, ServedOfRevisions
<1>5. \A name : Were(served, name) \subseteq Were(served', name)
    BY <1>1 DEF Were
<1>6. TablesWere'
    BY <1>1, <1>5 DEF ServerInv, TablesWere, IsOf
<1>7. \A name : IsFiniteSet(Were(served', name))
    BY <1>4, WereIsFinite DEF ServedOfRevisions
<1>8. \A name, call, source, nodes, bodies :
        Right(Were(served, name), call, source, nodes, bodies)
        => Right(Were(served', name), call, source, nodes, bodies)
    BY <1>5, <1>7, RightStays
<1>9. FoundRight'
    <2> SUFFICES ASSUME found # None PROVE FoundRight'
        BY <1>1 DEF FoundRight
    <2>1. FoundIn(found.source, found.nodes, Were(served', request.package))
        BY <1>5 DEF ServerInv, FoundRight, FoundIn
    <2> QED BY <1>1, <1>8, <2>1 DEF ServerInv, FoundRight
<1>10. ReplyRight'
    BY <1>1, <1>8 DEF ServerInv, ReplyRight
<1> QED BY <1>3, <1>4, <1>6, <1>9, <1>10 DEF ServerInv

LEMMA RestartStep ==
    ASSUME ServerInv, Restart
    PROVE  ServerInv'
<1>1. /\ plan' = plan /\ installed' = installed /\ served' = {installed}
      /\ tables' = <<>> /\ request' = None /\ found' = None /\ reply' = None
    BY DEF Restart, bundleVars
<1>2. ServedOfRevisions'
    BY <1>1, FS_Singleton DEF ServerInv, ServedOfRevisions
<1>3. TablesWere'
    <2>1. DOMAIN tables' = {}
        BY <1>1
    <2> QED BY <2>1 DEF TablesWere
<1> QED BY <1>1, <1>2, <1>3 DEF ServerInv, Asked, FoundRight, ReplyRight

LEMMA IdleStep ==
    ASSUME ServerInv, Quiet, UNCHANGED <<tables, request, found, reply>>
    PROVE  ServerInv'
BY DEF ServerInv, Asked, ServedOfRevisions, TablesWere, FoundRight, ReplyRight, Quiet

LEMMA ServerNext ==
    ASSUME ServerInv, BundleInv', [Next]_vars
    PROVE  ServerInv'
<1>1. CASE Receive
    BY <1>1, ReceiveStep
<1>2. CASE \/ Refuse \/ ListPackages \/ SearchSymbols \/ GetImpact \/ ListFiles
           \/ DocsMetadata
    BY <1>2, AnswersStep
<1>3. CASE GetContext
    BY <1>3, ContextStep
<1>4. CASE GetCalls
    BY <1>4, GetCallsStep
<1>5. CASE Inline
    BY <1>5, InlineStep
<1>6. CASE Inlined
    BY <1>6, InlinedStep
<1>7. CASE ReadSymbol
    BY <1>7, ReadSymbolStep
<1>8. CASE ReadCode
    BY <1>8, ReadCodeStep
<1>9. CASE SearchCode \/ SearchDocs
    BY <1>9, SearchStep
<1>10. CASE \E name \in plan.locals : Register(name)
    <2>1. Quiet /\ UNCHANGED <<tables, request, found, reply>>
        BY <1>10 DEF Register, Quiet, bundleVars
    <2> QED BY <2>1, IdleStep
<1>11. CASE Restart
    BY <1>11, RestartStep
<1>12. CASE Elsewhere
    BY <1>12, ElsewhereStep
<1>13. CASE UNCHANGED vars
    <2>1. Quiet /\ UNCHANGED <<tables, request, found, reply>>
        BY <1>13 DEF vars, bundleVars, serverVars, Quiet
    <2> QED BY <2>1, IdleStep
<1> QED BY <1>1, <1>2, <1>3, <1>4, <1>5, <1>6, <1>7, <1>8, <1>9, <1>10, <1>11, <1>12, <1>13
        DEF Next

(* The sources that are answered are of the bundle that was asked about,   *)
(* and while there was one of it each begins where its node begins: with   *)
(* tables that stay open while bundles are installed, removed and replaced *)
(* and callers whose sources are looked up one after another (mcp.rs,      *)
(* lance.rs).                                                              *)
THEOREM BodiesStayOfTheBundle == Spec => []BodiesAreOfTheBundle
<1>1. Init => ServerInv
    BY ServerBegins
<1>2. ServerInv /\ BundleInv' /\ [Next]_vars => ServerInv'
    BY ServerNext
<1>3. ServerInv => BodiesAreOfTheBundle
    BY ReplyIsRight DEF ServerInv
<1> QED BY <1>1, <1>2, <1>3, BundleHolds, PTL DEF Spec

-----------------------------------------------------------------------------
(* What is answered                                                        *)

GraphIn(p, source) == IF source = Project THEN p.project ELSE Graphs[source.of]
ImpactRight(g, call, nodes) ==
    LET all == Dependents(g, call.text, call.depth)
    IN  /\ Apart(nodes) /\ ToSet(nodes) \subseteq all
        /\ Cardinality(all) <= ImpactLimit => ToSet(nodes) = all
ContextRight(g, seeds, cap, nodes) ==
    LET shown == ToSet(nodes)
    IN  /\ Apart(nodes) /\ Len(nodes) <= cap
        /\ seeds \subseteq shown /\ shown \subseteq Ball(g, seeds, MaxHop)
        /\ shown # Ball(g, seeds, MaxHop) => Len(nodes) = cap
        /\ \A i, j \in DOMAIN nodes : \A n \in 0 .. MaxHop :
             i < j /\ nodes[j] \in Ball(g, seeds, n) => nodes[i] \in Ball(g, seeds, n)
        /\ shown \subseteq Ball(g, seeds, 1) \/ Ball(g, seeds, 1) \subseteq shown
RightAnswer(p, r) ==
    r # None /\ r.kind = "text" /\ r.source # None =>
        LET g == GraphIn(p, r.source)
        IN  /\ r.call.tool = "get_callers" => CallersRight(g, r.call, r.nodes)
            /\ r.call.tool = "get_impact" => ImpactRight(g, r.call, r.nodes)
            /\ r.call.tool = "get_context" /\ ~ p.reranker =>
                  ContextRight(g, r.seeds, r.cap, r.nodes)

LEMMA AnswersAreRight == AnswersFollowTheGraph <=> RightAnswer(plan, reply)
<1>1. CallersAreApart <=>
        (Text_("get_callers") /\ reply.source # None
            => CallersRight(GraphIn(plan, reply.source), reply.call, reply.nodes))
    BY DEF CallersAreApart, CallersRight, GraphOf, GraphIn, Calls
<1>2. ImpactIsWhole <=>
        (Text_("get_impact") /\ reply.source # None
            => ImpactRight(GraphIn(plan, reply.source), reply.call, reply.nodes))
    BY DEF ImpactIsWhole, ImpactRight, GraphOf, GraphIn
<1>3. ContextIsNear <=>
        (Text_("get_context") /\ reply.source # None /\ ~ plan.reranker
            => ContextRight(GraphIn(plan, reply.source), reply.seeds, reply.cap, reply.nodes))
    BY DEF ContextIsNear, ContextRight, GraphOf, GraphIn, Ball
<1> QED BY <1>1, <1>2, <1>3 DEF AnswersFollowTheGraph, RightAnswer, Text_

\* The nodes whose sources are looked up are those that will be answered.
FoundCallers ==
    found # None =>
        /\ request # None /\ request.tool \in {"get_callers", "get_callees"}
        /\ found = [kind |-> "nodes", source |-> found.source, budget |-> found.budget,
                    code |-> found.code, nodes |-> found.nodes, bodies |-> found.bodies]
        /\ request.tool = "get_callers"
              => CallersRight(GraphIn(plan, found.source), request, found.nodes)
AnswerInv == Asked /\ FoundCallers /\ RightAnswer(plan, reply)

LEMMA SourcesAreGraphs ==
    ASSUME plan \in Plans, BundleInv, PackedWasThere, NEW name,
           ResolveCodegraphPath(name) # None
    PROVE  IsGraph(GraphIn(plan, ResolveCodegraphPath(name)))
<1>1. CASE name \in snapshot
    <2>1. ResolveCodegraphPath(name) = Project /\ plan.project # None
        BY <1>1 DEF ResolveCodegraphPath
    <2> QED BY <2>1, ServerAssumption DEF GraphIn
<1>2. CASE name \notin snapshot
    <2> DEFINE r == BundleOf(name).files["graph/"].revision
    <2>1. /\ BundleOf(name) # None /\ "graph/" \in DOMAIN BundleOf(name).files
          /\ ResolveCodegraphPath(name) = Revision(r)
        BY <1>2 DEF ResolveCodegraphPath, IsIndexed
    <2>2. r \in DOMAIN Graphs
        <3>1. CASE name = "p"
            <4>1. BundleOf(name) = installed /\ installed # None
                BY <2>1, <3>1 DEF BundleOf
            <4>2. "graph/" \in DOMAIN installed.files /\ r # 0
                BY <2>1, <4>1, InstalledGraphWasThere
            <4>3. PICK a \in packed : Faithful(a) /\ installed.files = Extracted(a)
                BY <4>1 DEF BundleInv, InstalledAsPacked, PackedFaithful
            <4>4. r \in 0 .. MaxRevision
                BY <4>1, <4>2, <4>3, InstalledRevisions
            <4>5. r \in 1 .. MaxRevision
                BY <4>2, <4>4, BundleAssumption
            <4> QED BY <4>5, ServerAssumption
        <3>2. CASE name # "p"
            <4>1. name \in DOMAIN Others /\ BundleOf(name) = Others[name]
                BY <2>1, <3>2 DEF BundleOf
            <4> QED BY <2>1, <4>1, ServerAssumption
        <3> QED BY <3>1, <3>2
    <2>3. IsGraph(Graphs[r])
        BY <2>2, ServerAssumption
    <2>4. Revision(r) # Project /\ Revision(r).of = r
        BY DEF Revision, Project
    <2> HIDE DEF r
    <2> QED BY <2>1, <2>3, <2>4 DEF GraphIn
<1> QED BY <1>1, <1>2

LEMMA OtherAnswer ==
    ASSUME NEW p, NEW r,
           \/ r = None \/ r.kind # "text" \/ r.source = None
           \/ r.call.tool \notin {"get_callers", "get_impact", "get_context"}
    PROVE  RightAnswer(p, r)
BY DEF RightAnswer

LEMMA AnsweredStep ==
    ASSUME AnswerInv, plan' = plan, request' = None, found' = None,
           RightAnswer(plan, reply')
    PROVE  AnswerInv'
BY DEF AnswerInv, Asked, FoundCallers

LEMMA GraphToolsStep ==
    ASSUME AnswerInv, BundleInv, PackedWasThere, GetImpact \/ GetContext \/ GetCalls
    PROVE  AnswerInv'
<1> DEFINE g == GraphOf(Source)
<1>1. /\ plan' = plan /\ request # None /\ request \in plan.menu /\ plan \in Plans
      /\ Source # None /\ found = None
    BY DEF GetImpact, GetContext, GetCalls, Answer, Calling, bundleVars, AnswerInv, Asked
<1>2. g = GraphIn(plan, Source) /\ IsGraph(g)
    BY <1>1, SourcesAreGraphs DEF Source, GraphOf, GraphIn
<1> HIDE DEF g
<1>3. CASE GetImpact
    <2> DEFINE nodes == Impact(g, request.text, request.depth)
    <2>1. /\ reply' = [kind |-> "text", call |-> request, source |-> Source, nodes |-> nodes,
                       bodies |-> <<>>, seeds |-> {}, cap |-> 0]
          /\ request' = None /\ found' = None /\ request.tool = "get_impact"
        BY <1>1, <1>3 DEF GetImpact, Answer, Shown, Calling, g
    <2>2. request.depth \in Nat
        BY <1>1, <2>1, ServerAssumption
    <2>3. ImpactRight(g, request, nodes)
        BY <1>2, <2>2, ImpactIs DEF ImpactRight
    <2> HIDE DEF nodes
    <2>4. RightAnswer(plan, reply')
        BY <1>2, <2>1, <2>3 DEF RightAnswer
    <2> QED BY <1>1, <2>1, <2>4, AnsweredStep
<1>4. CASE GetContext
    <2> DEFINE cap == AtLeastOne(ContextCap(request.limit))
    <2>1. PICK seeds \in ContextSeeds(g, request.task, cap) :
            \E left \in RerankedContext(g, ContextOf(g, seeds, cap), request.limit) :
               reply' = Shown(Source, left, <<>>, seeds, cap)
        BY <1>4 DEF GetContext, g
    <2>2. PICK left \in RerankedContext(g, ContextOf(g, seeds, cap), request.limit) :
               reply' = Shown(Source, left, <<>>, seeds, cap)
        BY <2>1
    <2>3. request' = None /\ found' = None /\ request.tool = "get_context"
        BY <1>1, <1>4 DEF GetContext, Calling
    <2>4. cap \in Nat \ {0}
        <3>1. request.limit \in Nat
            BY <1>1, <2>3, ServerAssumption
        <3>2. FetchLimit(request.limit) \in Nat
            BY <3>1, ServerAssumption DEF FetchLimit
        <3>3. ContextCap(request.limit) \in Nat
            BY <3>1, <3>2 DEF ContextCap
        <3> QED BY <3>3 DEF AtLeastOne
    <2> HIDE DEF cap
    <2>5. ~ plan.reranker => ContextRight(g, seeds, cap, left)
        <3> SUFFICES ASSUME ~ plan.reranker PROVE ContextRight(g, seeds, cap, left)
            OBVIOUS
        <3>1. left = ContextOf(g, seeds, cap)
            BY <2>2 DEF RerankedContext
        <3>2. seeds \subseteq Ids(g) /\ Cardinality(seeds) <= cap
            BY <1>2, <2>1, <2>4, SeedsFit
        <3> QED BY <1>2, <2>4, <3>1, <3>2, ContextIs DEF ContextRight
    <2>6. reply' = [kind |-> "text", call |-> request, source |-> Source, nodes |-> left,
                    bodies |-> <<>>, seeds |-> seeds, cap |-> cap]
        BY <2>2 DEF Shown
    <2>7. RightAnswer(plan, reply')
        BY <1>2, <2>3, <2>5, <2>6 DEF RightAnswer
    <2> QED BY <1>1, <2>3, <2>7, AnsweredStep
<1>5. CASE GetCalls
    <2> DEFINE nodes == IF request.tool = "get_callers"
                        THEN Callers(g, request.text, request.limit)
                        ELSE Callees(g, request.text, request.limit)
    <2>1. /\ found' = [kind |-> "nodes", source |-> Source, budget |-> ByteBudget,
                       code |-> ResolveTable(request.package, "code"),
                       nodes |-> nodes, bodies |-> <<>>]
          /\ request' = request /\ reply' = reply
          /\ request.tool \in {"get_callers", "get_callees"}
        BY <1>5 DEF GetCalls, Calling, g
    <2>2. request.limit \in Nat
        BY <1>1, <2>1, ServerAssumption
    <2>3. request.tool = "get_callers" => CallersRight(g, request, nodes)
        <3> SUFFICES ASSUME request.tool = "get_callers" PROVE CallersRight(g, request, nodes)
            OBVIOUS
        <3>1. nodes = Callers(g, request.text, request.limit)
            OBVIOUS
        <3> HIDE DEF nodes
        <3> QED BY <1>2, <2>2, <3>1, CallersAre
    <2> HIDE DEF nodes
    <2>4. FoundCallers'
        <3>1. found'.source = Source /\ found'.nodes = nodes
            BY <2>1
        <3>2. found' = [kind |-> "nodes", source |-> found'.source, budget |-> found'.budget,
                        code |-> found'.code, nodes |-> found'.nodes, bodies |-> found'.bodies]
            BY <2>1
        <3> QED BY <1>1, <1>2, <2>1, <2>3, <3>1, <3>2 DEF FoundCallers
    <2> QED BY <1>1, <2>1, <2>4 DEF AnswerInv, Asked
<1> QED BY <1>3, <1>4, <1>5

LEMMA OtherToolsStep ==
    ASSUME AnswerInv,
           \/ Refuse \/ ListPackages \/ SearchSymbols \/ ListFiles \/ DocsMetadata
           \/ ReadSymbol \/ ReadCode \/ SearchCode \/ SearchDocs
    PROVE  AnswerInv'
<1>1. /\ plan' = plan /\ request' = None /\ found' = None /\ request # None
    BY DEF Refuse, ListPackages, SearchSymbols, ListFiles, DocsMetadata, Answer, ReadSymbol,
           ReadCode, SearchCode, SearchDocs, Search, Reads, Calling, bundleVars
<1>2. reply'.source = None \/ (reply'.call = request /\ request.tool \in {"search_symbols", "list_files"})
    <2>1. CASE Refuse \/ ListPackages \/ DocsMetadata
        BY <2>1 DEF Refuse, ListPackages, DocsMetadata, Answer, Shown
    <2>2. CASE SearchSymbols \/ ListFiles
        BY <2>2 DEF SearchSymbols, ListFiles, Answer, Shown, Calling
    <2>3. CASE ReadSymbol \/ ReadCode \/ SearchCode \/ SearchDocs
        <3>1. ASSUME NEW table, NEW bodies, Reads(table, None, bodies)
              PROVE  reply'.source = None
            BY <3>1 DEF Reads, Shown
        <3> QED BY <2>3, <3>1 DEF ReadSymbol, ReadCode, SearchCode, SearchDocs, Search
    <2> QED BY <2>1, <2>2, <2>3
<1>3. RightAnswer(plan, reply')
    BY <1>2, OtherAnswer
<1> QED BY <1>1, <1>3, AnsweredStep

LEMMA BodiesStep ==
    ASSUME AnswerInv, Inline \/ Inlined
    PROVE  AnswerInv'
<1>1. /\ request # None /\ request.tool \in {"get_callers", "get_callees"}
      /\ found = [kind |-> "nodes", source |-> found.source, budget |-> found.budget,
                  code |-> found.code, nodes |-> found.nodes, bodies |-> found.bodies]
      /\ request.tool = "get_callers"
            => CallersRight(GraphIn(plan, found.source), request, found.nodes)
    BY DEF AnswerInv, FoundCallers, Inline, Inlined
<1>2. CASE Inline
    <2>1. plan' = plan /\ request' = request /\ reply' = reply
        BY <1>2 DEF Inline, bundleVars
    <2>2. \E bodies, budget : found' = [found EXCEPT !.bodies = bodies, !.budget = budget]
        BY <1>2 DEF Inline
    <2>3. PICK bodies, budget : found' = [found EXCEPT !.bodies = bodies, !.budget = budget]
        BY <2>2
    <2>4. found' = [kind |-> "nodes", source |-> found.source, budget |-> budget,
                    code |-> found.code, nodes |-> found.nodes, bodies |-> bodies]
        <3> DEFINE some == [found EXCEPT !.bodies = bodies]
        <3>1. some = [kind |-> "nodes", source |-> found.source, budget |-> found.budget,
                      code |-> found.code, nodes |-> found.nodes, bodies |-> bodies]
            BY <1>1
        <3>2. found' = [some EXCEPT !.budget = budget]
            BY <2>3
        <3> HIDE DEF some
        <3> QED BY <3>1, <3>2
    <2>5. FoundCallers'
        <3>1. /\ found'.source = found.source /\ found'.nodes = found.nodes
              /\ found' = [kind |-> "nodes", source |-> found'.source, budget |-> found'.budget,
                           code |-> found'.code, nodes |-> found'.nodes, bodies |-> found'.bodies]
            BY <2>4
        <3> QED BY <1>1, <2>1, <3>1 DEF FoundCallers
    <2> QED BY <2>1, <2>5 DEF AnswerInv, Asked
<1>3. CASE Inlined
    <2>1. /\ reply' = [kind |-> "text", call |-> request, source |-> found.source,
                       nodes |-> found.nodes, bodies |-> found.bodies, seeds |-> {}, cap |-> 0]
          /\ plan' = plan /\ request' = None /\ found' = None
        BY <1>3 DEF Inlined, Shown, bundleVars
    <2>2. RightAnswer(plan, reply')
        BY <1>1, <2>1 DEF RightAnswer
    <2> QED BY <2>1, <2>2, AnsweredStep
<1> QED BY <1>2, <1>3

LEMMA AnswerNext ==
    ASSUME AnswerInv, BundleInv, PackedWasThere, [Next]_vars
    PROVE  AnswerInv'
<1>1. CASE Receive
    <2>1. found' = None /\ plan' = plan /\ plan \in Plans
        BY <1>1 DEF Receive, bundleVars, AnswerInv, FoundCallers, Asked
    <2>2. /\ request' = None \/ request' \in plan.menu
          /\ reply' = None \/ reply'.kind = "reply"
        BY <1>1 DEF Receive, HandleMessage, Reply
    <2>3. RightAnswer(plan, reply')
        BY <2>2, OtherAnswer
    <2> QED BY <2>1, <2>2, <2>3 DEF AnswerInv, Asked, FoundCallers
<1>2. CASE GetImpact \/ GetContext \/ GetCalls
    BY <1>2, GraphToolsStep
<1>3. CASE \/ Refuse \/ ListPackages \/ SearchSymbols \/ ListFiles \/ DocsMetadata
           \/ ReadSymbol \/ ReadCode \/ SearchCode \/ SearchDocs
    BY <1>3, OtherToolsStep
<1>4. CASE Inline \/ Inlined
    BY <1>4, BodiesStep
<1>5. CASE Restart
    <2>1. plan' = plan /\ request' = None /\ found' = None /\ reply' = None
        BY <1>5 DEF Restart, bundleVars
    <2> QED BY <2>1, OtherAnswer, AnsweredStep
<1>6. CASE plan' = plan /\ UNCHANGED <<request, found, reply>>
    BY <1>6 DEF AnswerInv, Asked, FoundCallers
<1>7. CASE \E name \in plan.locals : Register(name)
    BY <1>6, <1>7 DEF Register, bundleVars
<1>8. CASE Elsewhere
    <2>1. plan' = plan
        BY <1>8 DEF Elsewhere, NextBundle, Rewrite, Clear, Pack, Collect, Create, Finish,
                    Kill, Sign, Ship, Damage, Install, Uninstall
    <2> QED BY <1>6, <1>8, <2>1 DEF Elsewhere
<1>9. CASE UNCHANGED vars
    BY <1>6, <1>9 DEF vars, bundleVars, serverVars
<1> QED BY <1>1, <1>2, <1>3, <1>4, <1>5, <1>7, <1>8, <1>9 DEF Next

(* The callers that are answered call the symbol and stand once each; an   *)
(* impact is what depends on the symbol in up to so many steps, all of it  *)
(* when the limit allows; a context has its seeds and what is near them,   *)
(* the nearest first, and leaves out a node only when it is full: in the   *)
(* graph of the bundle or of the project that was asked about, whatever    *)
(* is installed or removed meanwhile (lib.rs, index.rs and mcp.rs).        *)
THEOREM AnswersStayWithTheGraph == Spec => []AnswersFollowTheGraph
<1>1. Init => AnswerInv
    BY OtherAnswer DEF Init, InitBundle, InitServer, AnswerInv, Asked, FoundCallers
<1>2. AnswerInv /\ BundleInv /\ PackedWasThere /\ [Next]_vars => AnswerInv'
    BY AnswerNext
<1>3. AnswerInv => AnswersFollowTheGraph
    BY AnswersAreRight DEF AnswerInv
<1> QED BY <1>1, <1>2, <1>3, BundleHolds, WasThereHolds, PTL DEF Spec
=============================================================================
