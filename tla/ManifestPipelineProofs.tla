------------------------ MODULE ManifestPipelineProofs ------------------------
(***************************************************************************)
(* Proofs about ManifestPipeline, for any number of applications and any   *)
(* manifests: what the merge writes, what the manager accepts of it at any *)
(* time, and what it starts; and about the JSON reader, for texts of any   *)
(* length.                                                                 *)
(***************************************************************************)
EXTENDS ManifestPipeline, WellFoundedInduction, FiniteSetTheorems, SequenceTheorems, TLAPS

-----------------------------------------------------------------------------
(* Lists and names *)

LEMMA Least ==
    ASSUME NEW S \in SUBSET Nat, S # {}
    PROVE  \E i \in S : \A j \in S : i <= j
<1> DEFINE Lesser == {pair \in Nat \X Nat : pair[1] < pair[2]}
<1>1. IsWellFoundedOn(Lesser, Nat)
  BY NatLessThanWellFounded DEF OpToRel
<1>2. \A i, j \in Nat : <<j, i>> \notin Lesser => i <= j
  OBVIOUS
<1> HIDE DEF Lesser
<1>3. PICK i \in S : \A j \in S : ~ (<<j, i>> \in Lesser)
  BY <1>1, WFMin
<1> QED
  BY <1>2, <1>3

LEMMA Greatest ==
    ASSUME NEW n \in Nat, NEW S \in SUBSET (1..n), S # {}
    PROVE  \E i \in S : \A j \in S : j <= i
<1> DEFINE T == {n - i : i \in S}
<1>1. T \in SUBSET Nat /\ T # {}
  <2>1. \A i \in S : i \in 1..n
    OBVIOUS
  <2>2. \A i \in 1..n : n - i \in Nat
    OBVIOUS
  <2>3. PICK i \in S : TRUE
    OBVIOUS
  <2>4. n - i \in T
    BY <2>3
  <2> QED
    BY <2>1, <2>2, <2>4
<1>2. PICK t \in T : \A u \in T : t <= u
  BY <1>1, Least
<1>3. PICK i \in S : t = n - i
  OBVIOUS
<1>4. \A j \in S : n - i <= n - j
  BY <1>2, <1>3
<1>5. \A j \in S : j <= i
  BY <1>4
<1> QED
  BY <1>5

LEMMA ListDomain ==
    ASSUME NEW s, IsList(s)
    PROVE  Len(s) \in Nat /\ DOMAIN s = 1..Len(s) /\ \A i \in DOMAIN s : s[i] \in ToSet(s)
BY DEF IsList, ToSet

LEMMA AppendToList ==
    ASSUME NEW s, NEW e, IsList(s)
    PROVE  IsList(Append(s, e)) /\ ToSet(Append(s, e)) = ToSet(s) \cup {e}
<1> DEFINE a == Append(s, e)
<1>1. s \in Seq(ToSet(s) \cup {e}) /\ a \in Seq(ToSet(s) \cup {e})
  BY DEF IsList
<1>2. /\ Len(s) \in Nat /\ DOMAIN s = 1..Len(s)
      /\ Len(a) = Len(s) + 1 /\ DOMAIN a = 1..(Len(s) + 1)
      /\ a[Len(s) + 1] = e /\ \A i \in 1..Len(s) : a[i] = s[i]
  BY <1>1
<1>3. ToSet(a) = ToSet(s) \cup {e}
  <2>1. ToSet(a) \subseteq ToSet(s) \cup {e}
    BY <1>2 DEF ToSet
  <2>2. \A i \in DOMAIN s : s[i] \in ToSet(a)
    <3> SUFFICES ASSUME NEW i \in DOMAIN s PROVE \E j \in DOMAIN a : a[j] = s[i]
      BY DEF ToSet
    <3>1. i \in DOMAIN a /\ a[i] = s[i]
      BY <1>2
    <3> QED
      BY <3>1
  <2>3. e \in ToSet(a)
    <3>1. Len(s) + 1 \in DOMAIN a
      BY <1>2
    <3> QED
      BY <1>2, <3>1 DEF ToSet
  <2> QED
    BY <2>1, <2>2, <2>3 DEF ToSet
<1> QED
  BY <1>1, <1>3 DEF IsList

LEMMA AppendedEntries ==
    ASSUME NEW s, NEW e, IsList(s)
    PROVE  /\ DOMAIN Append(s, e) = 1..(Len(s) + 1)
           /\ Append(s, e)[Len(s) + 1] = e
           /\ \A i \in DOMAIN s : Append(s, e)[i] = s[i]
<1>1. s \in Seq(ToSet(s) \cup {e})
  BY DEF IsList
<1> QED
  BY <1>1

LEMMA AppendToNamedOnce ==
    ASSUME NEW s, NEW e, IsList(s), NamedOnce(s), \A f \in ToSet(s) : f.shortName # e.shortName
    PROVE  NamedOnce(Append(s, e))
<1> DEFINE a == Append(s, e)
<1>1. s \in Seq(ToSet(s) \cup {e})
  BY DEF IsList
<1>2. /\ Len(s) \in Nat /\ DOMAIN s = 1..Len(s) /\ DOMAIN a = 1..(Len(s) + 1)
      /\ a[Len(s) + 1] = e /\ \A i \in 1..Len(s) : a[i] = s[i] /\ s[i] \in ToSet(s)
  BY <1>1, ListDomain
<1> SUFFICES ASSUME NEW i \in DOMAIN a, NEW j \in DOMAIN a, a[i].shortName = a[j].shortName
             PROVE  i = j
  BY DEF NamedOnce
<1> HIDE DEF a
<1> QED
  BY <1>2 DEF NamedOnce

\* Who looks for a name in a list that has it finds an entry of that name.
LEMMA FirstIsNamed ==
    ASSUME NEW items, NEW name, IsList(items), Named(items, name) # {}
    PROVE  First(items, name) \in ToSet(items) /\ First(items, name).shortName = name
<1>1. Named(items, name) \in SUBSET Nat
  BY ListDomain DEF Named
<1>2. \E i \in Named(items, name) : \A j \in Named(items, name) : i <= j
  BY <1>1, Least
<1> DEFINE k == CHOOSE i \in Named(items, name) : \A j \in Named(items, name) : i <= j
<1>3. k \in Named(items, name)
  BY <1>2
<1>4. First(items, name) = items[k]
  BY DEF First
<1> HIDE DEF k
<1> QED
  BY <1>3, <1>4, ListDomain DEF Named

LEMMA ExistingIsNamed ==
    ASSUME NEW items, NEW name, IsList(items), Named(items, name) # {}
    PROVE  Existing(items, name) \in ToSet(items)
<1>1. Len(items) \in Nat /\ Named(items, name) \in SUBSET (1..Len(items))
  BY ListDomain DEF Named
<1>2. \E i \in Named(items, name) : \A j \in Named(items, name) : j <= i
  BY <1>1, Greatest
<1> DEFINE k == CHOOSE i \in Named(items, name) : \A j \in Named(items, name) : j <= i
<1>3. k \in Named(items, name)
  BY <1>2
<1>4. Existing(items, name) = items[k]
  BY DEF Existing
<1> HIDE DEF k
<1> QED
  BY <1>3, <1>4, ListDomain DEF Named

\* In a list whose names agree, an entry is what its name stands for.
LEMMA EntryIsFirst ==
    ASSUME NEW items, NEW entry \in ToSet(items), IsList(items), NamesAgree(items)
    PROVE  /\ Named(items, entry.shortName) # {}
           /\ First(items, entry.shortName) = entry
<1>1. Named(items, entry.shortName) # {}
  BY DEF ToSet, Named
<1> QED
  BY <1>1, FirstIsNamed DEF NamesAgree

-----------------------------------------------------------------------------
(* The steps of the merge *)

LEMMA CategoryNames ==
    /\ Categories[1] = "processes" /\ Categories[2] = "executables"
    /\ Categories[3] = "startupConfigs"
    /\ ToSet(Categories) = {"processes", "executables", "startupConfigs"}
    /\ \A c \in 1..3 : Categories[c] \in ToSet(Categories)
<1>1. DOMAIN Categories = 1..3
  BY DEF Categories
<1>2. Categories[1] = "processes" /\ Categories[2] = "executables" /\ Categories[3] = "startupConfigs"
  BY DEF Categories
<1>3. 1..3 = {1, 2, 3}
  OBVIOUS
<1> QED
  BY <1>1, <1>2, <1>3 DEF ToSet

LEMMA AppIsConverted ==
    ASSUME WellFormed(world), NEW a \in DOMAIN world.apps
    PROVE  /\ a \in Nat /\ a >= 1 /\ a <= Len(world.apps)
           /\ Regular(world.apps[a])
           /\ \A c \in 1..3 : IsList(world.apps[a][Categories[c]])
           /\ \A p \in ToSet(world.apps[a].processes) :
                Member(p, "configs") => StatesListed(p.configs)
<1>1. /\ world.apps[a] \in ToSet(world.apps) /\ a \in Nat /\ a >= 1 /\ a <= Len(world.apps)
  BY ListDomain DEF WellFormed
<1>2. \A c \in ToSet(Categories) : IsList(world.apps[a][c])
  BY <1>1 DEF WellFormed
<1>3. \A c \in 1..3 : IsList(world.apps[a][Categories[c]])
  BY <1>2, CategoryNames
<1> QED
  BY <1>1, <1>3 DEF WellFormed

\* What holds of the build and of the file, whatever the manager does.
FileInv == PositionInv /\ MergedInv /\ WrittenInv

LEMMA SameWorld ==
    ASSUME UNCHANGED world
    PROVE  /\ \A a, c, i : JsonEntry(a, c, i)' = JsonEntry(a, c, i)
           /\ \A c, e : OfWorld(c, e)' <=> OfWorld(c, e)
BY DEF JsonEntry, OfWorld

LEMMA FileInit == Init => FileInv
<1> SUFFICES ASSUME Init PROVE FileInv
  OBVIOUS
<1>1. WellFormed(world)
  BY WorldAssumption DEF Init
<1>2. PositionInv
  <2>1. Len(world.apps) \in Nat
    BY <1>1, ListDomain DEF WellFormed
  <2>2. /\ app = 1 /\ category = 1 /\ position = 1
        /\ merged = world.platform /\ build = "load"
    BY Zenon DEF Init
  <2>3. app \in 1..(Len(world.apps) + 1) /\ category \in 1..3 /\ position \in Nat \ {0}
    BY <2>1, <2>2
  <2>4. IsManifest(merged)
    BY <1>1, <2>2 DEF WellFormed
  <2> QED
    BY <1>1, <2>2, <2>3, <2>4 DEF PositionInv
<1>3. MergedInv /\ WrittenInv
  BY DEF Init, MergedInv, WrittenInv
<1> QED
  BY <1>2, <1>3 DEF FileInv

\* The manager changes nothing of the build, and loads the file as it is.
LEMMA ManagerStep ==
    ASSUME FileInv, UNCHANGED <<world, mergeVars, out>>, loaded' \in {loaded, out}
    PROVE  FileInv'
<1>0. UNCHANGED <<build, app, category, position, merged>>
  BY DEF mergeVars
<1>1. PositionInv'
  BY <1>0 DEF FileInv, PositionInv
<1>2. MergedInv'
  BY <1>0, SameWorld DEF FileInv, MergedInv, Passed
<1>3. WrittenInv'
  BY <1>0 DEF FileInv, WrittenInv
<1> QED
  BY <1>1, <1>2, <1>3 DEF FileInv

\* A step of the build that goes on from one label to the next, without an entry.
LEMMA LabelStep ==
    ASSUME FileInv, UNCHANGED <<world, app, category, position, merged, loaded>>,
           build \notin {"load", "done"}, build' # "load",
           build' \notin {"merge", "failed"} => app = Len(world.apps) + 1,
           build' \in {"write", "dump", "done"} => ReferencesResolve(merged),
           build' # "failed" => build # "failed",
           (out' \in {out, Cut} /\ build' # "done") \/ (build' = "done" /\ out' = Whole(merged))
    PROVE  FileInv'
<1>1. PositionInv'
  BY DEF FileInv, PositionInv
<1>2. MergedInv'
  BY SameWorld DEF FileInv, MergedInv, Passed
<1>3. WrittenInv'
  BY DEF FileInv, WrittenInv
<1> QED
  BY <1>1, <1>2, <1>3 DEF FileInv

\* Looking at one entry.
LEMMA EntryStep == ASSUME FileInv, AddEntry PROVE FileInv'
<1> DEFINE k == Categories[category]
<1>1. /\ app \in DOMAIN world.apps /\ Len(world.apps) \in Nat
      /\ category \in 1..3 /\ position \in DOMAIN Items
      /\ k \in ToSet(Categories) /\ IsManifest(merged) /\ IsList(Known)
  <2>1. WellFormed(world) /\ IsManifest(merged) /\ category \in 1..3 /\ position \in Nat \ {0}
    BY DEF FileInv, PositionInv
  <2>2. IsList(world.apps) /\ k \in ToSet(Categories)
    BY <2>1, CategoryNames DEF WellFormed
  <2>3. app \in DOMAIN world.apps /\ Len(world.apps) \in Nat
    BY <2>2, ListDomain DEF AddEntry, Here, FileInv, PositionInv
  <2>4. IsList(Items)
    BY <2>1, <2>3, AppIsConverted DEF Items
  <2>5. position \in DOMAIN Items
    BY <2>1, <2>4, ListDomain DEF AddEntry, Here
  <2> QED
    BY <2>1, <2>2, <2>3, <2>5 DEF IsManifest, Known
<1>2. /\ build = "merge" /\ build' = "merge" /\ position' = position + 1
      /\ UNCHANGED <<world, app, category, out, loaded>>
  BY DEF AddEntry, Goto, managerVars
<1>3. /\ ~Incomplete
      /\ Named(Known, Incoming.shortName) # {} => Existing(Known, Incoming.shortName) = Incoming
  BY DEF AddEntry, Conflicts
<1>4. /\ IsManifest(merged')
      /\ \A c \in ToSet(Categories) : ToSet(merged[c]) \subseteq ToSet(merged'[c])
      /\ \A c \in ToSet(Categories) : \A e \in ToSet(merged'[c]) :
            e \in ToSet(merged[c]) \/ (c = k /\ e = Incoming)
      /\ Incoming \in ToSet(merged'[k])
      /\ \A c \in ToSet(Categories) : NamesAgree(merged[c]) => NamesAgree(merged'[c])
      /\ \A c \in ToSet(Categories) : NamedOnce(merged[c]) => NamedOnce(merged'[c])
  <2>1. CASE Named(Known, Incoming.shortName) # {}
    <3>1. merged' = merged
      BY <2>1 DEF AddEntry
    <3>2. Incoming \in ToSet(Known)
      BY <1>1, <1>3, <2>1, ExistingIsNamed
    <3> QED
      BY <1>1, <3>1, <3>2 DEF Known
  <2>2. CASE Named(Known, Incoming.shortName) = {}
    <3>1. merged' = [merged EXCEPT ![k] = Append(Known, Incoming)]
      BY <2>2 DEF AddEntry, Known
    <3>2. /\ k \in DOMAIN merged /\ DOMAIN merged' = DOMAIN merged
          /\ merged'[k] = Append(Known, Incoming)
          /\ \A c \in DOMAIN merged : c # k => merged'[c] = merged[c]
          /\ merged' = [c \in DOMAIN merged' |-> merged'[c]]
      BY <1>1, <3>1 DEF IsManifest, Member
    <3>3. IsList(merged'[k]) /\ ToSet(merged'[k]) = ToSet(Known) \cup {Incoming}
      BY <1>1, <3>2, AppendToList
    <3>4. IsManifest(merged')
      BY <1>1, <3>2, <3>3 DEF IsManifest, Member
    <3>5. \A e \in ToSet(Known) : e.shortName # Incoming.shortName
      BY <1>1, <2>2 DEF Named, ToSet
    <3>6. NamesAgree(Known) => NamesAgree(merged'[k])
      BY <3>3, <3>5 DEF NamesAgree
    <3>7. \A c \in ToSet(Categories) : c \in DOMAIN merged
      BY <1>1 DEF IsManifest, Member
    <3>8. NamedOnce(Known) => NamedOnce(merged'[k])
      BY <1>1, <3>2, <3>5, AppendToNamedOnce
    <3> QED
      BY <3>2, <3>3, <3>4, <3>6, <3>7, <3>8 DEF Known
  <2> QED
    BY <2>1, <2>2
<1>5. PositionInv'
  BY <1>1, <1>2, <1>4 DEF FileInv, PositionInv
<1>6. MergedInv'
  <2>1. /\ NamesAgree(merged'.executables) /\ NamesAgree(merged'.startupConfigs)
        /\ world.platform.processes = <<>> => NamedOnce(merged'.processes)
    BY <1>2, <1>4, CategoryNames DEF FileInv, MergedInv
  <2>2. ASSUME NEW a \in DOMAIN world.apps, NEW c \in 1..3,
               NEW i \in DOMAIN world.apps[a][Categories[c]], Passed(a, c, i)'
        PROVE  JsonEntry(a, c, i) \in ToSet(merged'[Categories[c]])
    <3>1. i \in Nat
      <4>1. IsList(world.apps[a][Categories[c]])
        BY AppIsConverted DEF FileInv, PositionInv
      <4> QED
        BY <4>1, ListDomain
    <3>2. CASE Passed(a, c, i)
      BY <1>2, <1>4, <3>2, CategoryNames DEF FileInv, MergedInv
    <3>3. CASE a = app /\ c = category /\ i = position
      BY <1>4, <3>3 DEF Incoming
    <3>4. Passed(a, c, i) \/ (a = app /\ c = category /\ i = position)
      BY <1>2, <2>2, <3>1 DEF Passed, FileInv, PositionInv
    <3> QED
      BY <3>2, <3>3, <3>4
  <2>3. \A c \in 1..3 : ToSet(world.platform[Categories[c]]) \subseteq ToSet(merged'[Categories[c]])
    BY <1>2, <1>4, CategoryNames DEF FileInv, MergedInv
  <2>4. ASSUME NEW c \in 1..3, NEW e \in ToSet(merged'[Categories[c]])
        PROVE  OfWorld(c, e)
    <3>1. CASE e \in ToSet(merged[Categories[c]])
      BY <1>2, <3>1 DEF FileInv, MergedInv
    <3>2. CASE Categories[c] = k /\ e = Incoming
      <4>1. c = category
        BY <1>1, <3>2, CategoryNames
      <4>2. category = 1 => Items = world.apps[app].processes
        BY CategoryNames DEF Items
      <4> QED
        BY <1>1, <1>3, <3>2, <4>1, <4>2 DEF OfWorld, Incoming, Items, Incomplete
    <3> QED
      BY <1>4, <3>1, <3>2, CategoryNames
  <2> QED
    BY <1>2, <2>1, <2>2, <2>3, <2>4, SameWorld DEF MergedInv
<1>7. WrittenInv'
  BY <1>2 DEF FileInv, WrittenInv
<1> QED
  BY <1>5, <1>6, <1>7 DEF FileInv

\* Going on to the next list of entries: all entries of this one were passed.
LEMMA CategoryStep == ASSUME FileInv, NextCategory PROVE FileInv'
<1>1. /\ app \in 1..Len(world.apps) /\ Len(world.apps) \in Nat
      /\ category \in 1..3 /\ IsList(Items) /\ position > Len(Items) /\ position \in Nat
  <2>1. WellFormed(world) /\ category \in 1..3
    BY DEF FileInv, PositionInv
  <2>3. Len(world.apps) \in Nat /\ DOMAIN world.apps = 1..Len(world.apps)
    BY <2>1, ListDomain DEF WellFormed
  <2>4. app \in 1..Len(world.apps)
    BY <2>3 DEF NextCategory, FileInv, PositionInv
  <2>5. IsList(Items)
    BY <2>1, <2>3, <2>4, AppIsConverted DEF Items
  <2> QED
    BY <2>1, <2>3, <2>4, <2>5 DEF NextCategory, FileInv, PositionInv
<1>2. /\ build = "merge" /\ build' = "merge" /\ position' = 1
      /\ UNCHANGED <<world, merged, out, loaded>>
      /\ category' = IF category = 3 THEN 1 ELSE category + 1
      /\ app' = IF category = 3 THEN app + 1 ELSE app
  BY DEF NextCategory, Goto, managerVars
<1>3. PositionInv'
  BY <1>1, <1>2 DEF FileInv, PositionInv
<1>4. MergedInv'
  <2>1. ASSUME NEW a \in DOMAIN world.apps, NEW c \in 1..3,
               NEW i \in DOMAIN world.apps[a][Categories[c]], Passed(a, c, i)'
        PROVE  Passed(a, c, i)
    <3>1. a \in Nat /\ IsList(world.apps[a][Categories[c]])
      BY AppIsConverted DEF FileInv, PositionInv
    <3>2. i \in Nat /\ i >= 1 /\ i <= Len(world.apps[a][Categories[c]])
      BY <3>1, ListDomain
    <3>3. a < app \/ (a = app /\ c <= category)
      BY <1>1, <1>2, <2>1, <3>1, <3>2 DEF Passed
    <3>4. a = app /\ c = category => i < position
      BY <1>1, <3>2, ListDomain DEF Items
    <3> QED
      BY <1>1, <3>3, <3>4 DEF Passed
  <2> QED
    BY <1>2, <2>1, SameWorld DEF FileInv, MergedInv
<1>5. WrittenInv'
  BY <1>2 DEF FileInv, WrittenInv
<1> QED
  BY <1>3, <1>4, <1>5 DEF FileInv

\* The platform's manifest is the first, and nothing was passed yet.
LEMMA LoadStep == ASSUME FileInv, LoadPlatform PROVE FileInv'
<1>1. /\ build = "load" /\ build' = IF PlatformAgrees THEN "merge" ELSE "failed"
      /\ UNCHANGED <<world, app, category, position, merged, out, loaded>>
      /\ <<app, category, position>> = <<1, 1, 1>> /\ merged = world.platform
  BY DEF LoadPlatform, managerVars, FileInv, PositionInv
<1>2. PositionInv'
  BY <1>1 DEF FileInv, PositionInv
<1>3. MergedInv'
  <2>1. ASSUME NEW a \in DOMAIN world.apps, NEW c \in 1..3,
               NEW i \in DOMAIN world.apps[a][Categories[c]]
        PROVE  ~Passed(a, c, i)'
    <3>1. IsList(world.apps[a][Categories[c]]) /\ a >= 1 /\ a \in Nat
      BY AppIsConverted DEF FileInv, PositionInv
    <3>2. i >= 1 /\ i \in Nat
      BY <3>1, ListDomain
    <3> QED
      BY <1>1, <3>1, <3>2 DEF Passed
  <2>2. world.platform.processes = <<>> => NamedOnce(merged'.processes)
    BY <1>1 DEF NamedOnce
  <2>3. \A c \in 1..3 : \A e \in ToSet(merged'[Categories[c]]) : OfWorld(c, e)
    BY <1>1 DEF OfWorld
  <2> QED
    BY <1>1, <2>1, <2>2, <2>3, SameWorld DEF MergedInv, PlatformAgrees
<1>4. WrittenInv'
  BY <1>1 DEF FileInv, WrittenInv
<1> QED
  BY <1>2, <1>3, <1>4 DEF FileInv

LEMMA FileStep == FileInv /\ [Next]_vars => FileInv'
<1> SUFFICES ASSUME FileInv, [Next]_vars PROVE FileInv'
  OBVIOUS
<1>1. CASE LoadPlatform \/ AddEntry \/ NextCategory
  BY <1>1, LoadStep, EntryStep, CategoryStep
<1>2. CASE EntryFails
  BY <1>2, LabelStep DEF EntryFails, Goto, managerVars
<1>3. CASE Validate
  <2>1. app = Len(world.apps) + 1
    <3>1. Len(world.apps) \in Nat /\ app \in 1..(Len(world.apps) + 1)
      BY ListDomain DEF FileInv, PositionInv, WellFormed
    <3> QED
      BY <1>3, <3>1 DEF Validate
  <2> QED
    BY <1>3, <2>1, LabelStep DEF Validate, Goto, managerVars
<1>4. CASE OpenOutput
  BY <1>4, LabelStep DEF OpenOutput, managerVars, FileInv, PositionInv, WrittenInv
<1>5. CASE DumpOutput
  BY <1>5, LabelStep DEF DumpOutput, managerVars, FileInv, PositionInv, WrittenInv
<1>6. CASE ManagerNext
  BY <1>6, ManagerStep DEF ManagerNext, LoadMachineManifest, ReadForeign, LoadProcesses,
     LoadPlatformConfig, StartProcess, PassProcess, StartNext, Started, StartThenRun, EnterLoop
<1>7. CASE UNCHANGED vars
  BY <1>7, ManagerStep DEF vars, managerVars
<1> QED
  BY <1>1, <1>2, <1>3, <1>4, <1>5, <1>6, <1>7 DEF Next, MergeNext

-----------------------------------------------------------------------------
(* What the manager has read *)

LEMMA FreshIsMerged ==
    ASSUME FileInv, Fresh(loaded)
    PROVE  /\ build = "done" /\ loaded = Whole(merged) /\ out = loaded
           /\ loaded.manifest = merged /\ loaded.status = "whole"
           /\ \A c \in 1..3 : IsList(merged[Categories[c]])
           /\ \A a \in DOMAIN world.apps, c \in 1..3 :
                \A i \in DOMAIN world.apps[a][Categories[c]] :
                    JsonEntry(a, c, i) \in ToSet(merged[Categories[c]])
<1>1. build = "done" /\ loaded = Whole(merged) /\ out = loaded
  BY DEF FileInv, WrittenInv, Fresh, Absent, Cut
<1>2. loaded.manifest = merged /\ loaded.status = "whole"
  BY <1>1 DEF Whole
<1>3. \A c \in 1..3 : IsList(merged[Categories[c]])
  BY CategoryNames DEF FileInv, PositionInv, IsManifest
<1>4. ASSUME NEW a \in DOMAIN world.apps, NEW c \in 1..3,
             NEW i \in DOMAIN world.apps[a][Categories[c]]
      PROVE  JsonEntry(a, c, i) \in ToSet(merged[Categories[c]])
  <2>1. app = Len(world.apps) + 1
    BY <1>1 DEF FileInv, PositionInv
  <2>2. Passed(a, c, i)
    BY <2>1, AppIsConverted DEF Passed, FileInv, PositionInv
  <2> QED
    BY <1>1, <2>2 DEF FileInv, MergedInv
<1> QED
  BY <1>1, <1>2, <1>3, <1>4

LEMMA StepStays ==
    ASSUME [Next]_vars
    PROVE  /\ world' = world
           /\ MergeNext \/ UNCHANGED vars =>
                UNCHANGED <<em, loaded, settings, machine_state, turn, started>>
<1>1. MergeNext \/ UNCHANGED vars => UNCHANGED <<world, managerVars>>
  BY DEF MergeNext, LoadPlatform, EntryFails, AddEntry, NextCategory, Validate,
     OpenOutput, DumpOutput, vars
<1>2. ManagerNext => UNCHANGED world
  BY DEF ManagerNext, LoadMachineManifest, ReadForeign, LoadProcesses, LoadPlatformConfig,
     StartProcess, PassProcess, StartNext, Started, StartThenRun, EnterLoop
<1> QED
  BY <1>1, <1>2 DEF Next, managerVars

LEMMA LoadedInit == Init => LoadedInv
BY DEF Init, LoadedInv, Fresh, Absent

LEMMA LoadedStep == FileInv /\ LoadedInv /\ [Next]_vars => LoadedInv'
<1> SUFFICES ASSUME FileInv, LoadedInv, [Next]_vars PROVE LoadedInv'
  OBVIOUS
<1>0. world' = world
  BY StepStays
<1>1. CASE MergeNext \/ UNCHANGED vars
  <2>1. UNCHANGED <<em, loaded, started, turn>>
    BY <1>1, StepStays
  <2> QED
    BY <1>0, <2>1 DEF LoadedInv, Fresh, ProcessesLoad, SettingsLoad
<1>2. CASE LoadMachineManifest \/ ReadForeign
  <2>1. /\ em = "off" /\ em' \in {"off", "processes", "failed"}
        /\ UNCHANGED <<loaded, started, turn>>
    BY <1>2 DEF LoadMachineManifest, ReadForeign, EmGoto
  <2> QED
    BY <2>1 DEF LoadedInv, Fresh, Absent
<1>3. CASE LoadProcesses
  <2>1. /\ em = "processes" /\ em' = IF ProcessesLoad(out) THEN "settings" ELSE "failed"
        /\ loaded' = out /\ UNCHANGED <<started, turn>>
    BY <1>3 DEF LoadProcesses, EmGoto
  <2>2. ProcessesLoad(loaded)' = ProcessesLoad(loaded')
    OBVIOUS
  <2> QED
    BY <2>1, <2>2 DEF LoadedInv
<1>4. CASE LoadPlatformConfig
  <2>1. /\ em = "settings" /\ em' = IF SettingsLoad(out) THEN "start" ELSE "failed"
        /\ UNCHANGED <<loaded, started, turn>>
    BY <1>4 DEF LoadPlatformConfig, EmGoto
  <2>2. /\ ProcessesLoad(loaded)' <=> ProcessesLoad(loaded)
        /\ SettingsLoad(loaded)' <=> SettingsLoad(loaded)
        /\ Fresh(loaded)' <=> Fresh(loaded)
    BY <1>0, <2>1 DEF ProcessesLoad, SettingsLoad, Fresh
  <2> QED
    BY <2>1, <2>2, FreshIsMerged DEF LoadedInv
<1>5. CASE StartProcess \/ PassProcess \/ StartThenRun \/ EnterLoop
  <2>1. em = "start" /\ em' \in {"start", "loop"} /\ UNCHANGED loaded
    BY <1>5 DEF StartProcess, PassProcess, StartNext, Started, StartThenRun, EnterLoop, EmGoto
  <2> QED
    BY <2>1 DEF LoadedInv, ProcessesLoad
<1> QED
  BY <1>1, <1>2, <1>3, <1>4, <1>5 DEF Next, ManagerNext

\* A manifest that loads has no process of the platform, for these have no path.
LEMMA LoadedNamesOnce ==
    ASSUME FileInv, LoadedInv, Fresh(loaded), em \in {"start", "loop"}
    PROVE  NamedOnce(merged.processes) /\ IsList(merged.processes)
<1>1. ProcessesLoad(loaded) /\ loaded.manifest = merged /\ build = "done"
  BY FreshIsMerged DEF LoadedInv
<1>2. \A p \in ToSet(merged.processes) : Member(p, "executablePath")
  BY <1>1 DEF ProcessesLoad, ProcessLoads, Has, Member
<1>3. ToSet(world.platform.processes) \subseteq ToSet(merged.processes)
  BY <1>1, CategoryNames DEF FileInv, MergedInv
<1>4. ToSet(world.platform.processes) = {} /\ IsList(world.platform.processes)
  BY <1>2, <1>3, CategoryNames DEF FileInv, PositionInv, WellFormed, IsManifest
<1>5. world.platform.processes = <<>>
  BY <1>4 DEF IsList
<1> QED
  BY <1>1, <1>5, FreshIsMerged, CategoryNames DEF FileInv, MergedInv

-----------------------------------------------------------------------------
(* What the manager has started *)

LEMMA MachineInit == Init => MachineInv
BY DEF Init, MachineInv

LEMMA MachineStep == LoadedInv /\ MachineInv /\ [Next]_vars => MachineInv'
<1> SUFFICES ASSUME LoadedInv, MachineInv, [Next]_vars PROVE MachineInv'
  OBVIOUS
<1>0. Initial' = Initial
  BY StepStays DEF Initial
<1>1. CASE MergeNext \/ UNCHANGED vars
  BY <1>0, <1>1, StepStays DEF MachineInv
<1>2. CASE LoadMachineManifest
  BY <1>0, <1>2 DEF LoadMachineManifest, EmGoto, MachineInv, Initial
<1>3. CASE ReadForeign \/ LoadProcesses
  BY <1>0, <1>3 DEF ReadForeign, LoadProcesses, EmGoto, MachineInv
<1>4. CASE LoadPlatformConfig
  <2>1. /\ em = "settings" /\ em' \in {"start", "failed"}
        /\ UNCHANGED <<machine_state, started, turn>>
    BY <1>4 DEF LoadPlatformConfig, EmGoto
  <2>2. started = <<>> /\ turn = 1 /\ machine_state = Initial
    BY <2>1 DEF LoadedInv, MachineInv
  <2>3. IsList(started)
    BY <2>2 DEF IsList
  <2> QED
    BY <1>0, <2>1, <2>2, <2>3 DEF MachineInv
<1>5. CASE StartProcess
  <2>1. /\ em = "start" /\ em' = "start" /\ turn' = turn + 1 /\ UNCHANGED machine_state
        /\ IsList(started) /\ turn \in Nat \ {0}
    BY <1>5 DEF StartProcess, StartNext, EmGoto, MachineInv
  <2>2. IsList(started')
    BY <1>5, <2>1, AppendToList DEF StartProcess
  <2>3. turn' \in Nat \ {0}
    BY <2>1
  <2> QED
    BY <1>0, <2>1, <2>2, <2>3 DEF MachineInv
<1>6. CASE PassProcess
  <2>1. /\ em = "start" /\ em' = "start" /\ turn' = turn + 1
        /\ UNCHANGED <<machine_state, started>>
        /\ IsList(started) /\ turn \in Nat \ {0}
    BY <1>6 DEF PassProcess, StartNext, EmGoto, MachineInv
  <2>2. turn' \in Nat \ {0}
    BY <2>1
  <2> QED
    BY <1>0, <2>1, <2>2 DEF MachineInv
<1>7. CASE StartThenRun \/ EnterLoop
  BY <1>0, <1>7 DEF StartThenRun, EnterLoop, Started, EmGoto, MachineInv
<1> QED
  BY <1>1, <1>2, <1>3, <1>4, <1>5, <1>6, <1>7 DEF Next, ManagerNext

LEMMA StartedInit == Init => StartedInv
BY DEF Init, StartedInv

\* What the loop over the processes sees while it runs.
LEMMA LoopSees ==
    ASSUME FileInv, LoadedInv, MachineInv, Fresh(loaded), em \in {"start", "loop"}
    PROVE  /\ IsList(loaded.manifest.processes) /\ NamedOnce(loaded.manifest.processes)
           /\ DOMAIN loaded.manifest.processes = 1..Len(loaded.manifest.processes)
           /\ Len(loaded.manifest.processes) \in Nat
           /\ machine_state = Initial \/ (Initial = "Startup" /\ machine_state = "Running")
           /\ IsList(started) /\ Len(started) \in Nat /\ DOMAIN started = 1..Len(started)
           /\ turn \in Nat \ {0}
<1>1. /\ IsList(loaded.manifest.processes) /\ NamedOnce(loaded.manifest.processes)
  BY LoadedNamesOnce, FreshIsMerged
<1>2. /\ machine_state = Initial \/ (Initial = "Startup" /\ machine_state = "Running")
      /\ IsList(started) /\ turn \in Nat \ {0}
  BY DEF MachineInv
<1> QED
  BY <1>1, <1>2, ListDomain

\* Starting one more process, the one that the loop has come to.
LEMMA StartStep ==
    ASSUME FileInv, LoadedInv, MachineInv, StartedInv, StartProcess, Fresh(loaded)
    PROVE  StartedInv'
<1> DEFINE processes == loaded.manifest.processes
           new == Record(turn, machine_state)
           last == Len(started) + 1
<1>1. /\ em = "start" /\ em' = "start" /\ turn <= Len(processes)
      /\ HasMatchingStartupConfig(processes[turn], machine_state)
      /\ turn' = turn + 1 /\ started' = Append(started, new)
      /\ UNCHANGED <<world, loaded, machine_state>>
  BY DEF StartProcess, StartNext, EmGoto, Record
<1>2. /\ NamedOnce(processes) /\ DOMAIN processes = 1..Len(processes)
      /\ Len(processes) \in Nat /\ turn \in Nat \ {0} /\ turn \in DOMAIN processes
      /\ machine_state = Initial \/ (Initial = "Startup" /\ machine_state = "Running")
      /\ IsList(started) /\ Len(started) \in Nat /\ DOMAIN started = 1..Len(started)
  BY <1>1, LoopSees
<1>3. /\ DOMAIN started' = 1..last /\ started'[last] = new
      /\ \A k \in DOMAIN started : started'[k] = started[k]
      /\ ToSet(started') = ToSet(started) \cup {new}
  BY <1>1, <1>2, AppendToList, AppendedEntries
<1>4. new.process = processes[turn].shortName /\ new.state = machine_state
  BY DEF Record, StartRecord
<1>5. /\ \A i, state : Record(i, state)' = Record(i, state)
      /\ Initial' = Initial
  BY <1>1 DEF Record, Initial
<1>6. \A i \in DOMAIN processes : \A state :
        Due(i, state)' <=> Due(i, state) \/ (i = turn /\ state = machine_state)
  <2> SUFFICES ASSUME NEW i \in DOMAIN processes, NEW state
               PROVE  Due(i, state)' <=> Due(i, state) \/ (i = turn /\ state = machine_state)
    OBVIOUS
  <2>1. i \in Nat
    BY <1>2
  <2>2. Past(i, state)' <=> Past(i, state) \/ (i = turn /\ state = machine_state)
    BY <1>1, <1>2, <1>5, <2>1 DEF Past
  <2> QED
    BY <1>1, <2>2 DEF Due
<1>7. ~Due(turn, machine_state)
  BY <1>2 DEF Due, Past
<1>8. ASSUME NEW k \in DOMAIN started'
      PROVE  \E i \in DOMAIN processes :
                Due(i, started[k].state)' /\ started'[k] = Record(i, started'[k].state)
  <2>1. CASE k \in DOMAIN started
    BY <1>1, <1>3, <1>6, <2>1 DEF StartedInv
  <2>2. CASE k = last
    BY <1>2, <1>3, <1>4, <1>6, <2>2
  <2> QED
    BY <1>2, <1>3, <2>1, <2>2
<1>9. ASSUME NEW i \in DOMAIN processes, NEW state \in {Initial, machine_state},
             Due(i, state)'
      PROVE  Record(i, state) \in ToSet(started')
  BY <1>1, <1>3, <1>6, <1>9 DEF StartedInv
<1>10. ASSUME NEW k \in DOMAIN started,
              started[k].process = new.process, started[k].state = new.state
       PROVE  FALSE
  <2>1. PICK i \in DOMAIN processes :
            Due(i, started[k].state) /\ started[k] = Record(i, started[k].state)
    BY <1>1 DEF StartedInv
  <2>2. processes[i].shortName = processes[turn].shortName
    BY <1>4, <1>10, <2>1 DEF Record, StartRecord
  <2>3. i = turn
    BY <1>2, <2>2 DEF NamedOnce
  <2> QED
    BY <1>4, <1>7, <1>10, <2>1, <2>3
<1>11. ASSUME NEW k \in DOMAIN started', NEW l \in DOMAIN started',
              started'[k].process = started'[l].process, started'[k].state = started'[l].state
       PROVE  k = l
  <2>1. CASE k \in DOMAIN started /\ l \in DOMAIN started
    BY <1>1, <1>3, <1>11, <2>1 DEF StartedInv
  <2>2. CASE k = last \/ l = last
    BY <1>2, <1>3, <1>10, <1>11, <2>2
  <2> QED
    BY <1>2, <1>3, <2>1, <2>2
<1> HIDE DEF new, last
<1>12. loaded' = loaded /\ machine_state' = machine_state /\ em' = "start"
  BY <1>1
<1> QED
  BY <1>5, <1>8, <1>9, <1>11, <1>12 DEF StartedInv

\* Passing over the process that the loop has come to.
LEMMA PassStep ==
    ASSUME FileInv, LoadedInv, MachineInv, StartedInv, PassProcess, Fresh(loaded)
    PROVE  StartedInv'
<1> DEFINE processes == loaded.manifest.processes
<1>1. /\ em = "start" /\ em' = "start"
      /\ ~HasMatchingStartupConfig(processes[turn], machine_state)
      /\ turn' = turn + 1 /\ UNCHANGED <<world, loaded, machine_state, started>>
  BY DEF PassProcess, StartNext, EmGoto
<1>2. /\ DOMAIN processes = 1..Len(processes) /\ Len(processes) \in Nat /\ turn \in Nat \ {0}
  BY <1>1, LoopSees
<1>3. /\ \A i, state : Record(i, state)' = Record(i, state)
      /\ Initial' = Initial
  BY <1>1 DEF Record, Initial
<1>4. \A i \in DOMAIN processes : \A state : Due(i, state)' <=> Due(i, state)
  <2> SUFFICES ASSUME NEW i \in DOMAIN processes, NEW state
               PROVE  Due(i, state)' <=> Due(i, state)
    OBVIOUS
  <2>1. i \in Nat
    BY <1>2
  <2>2. Past(i, state)' <=> Past(i, state) \/ (i = turn /\ state = machine_state)
    BY <1>1, <1>2, <1>3, <2>1 DEF Past
  <2> QED
    BY <1>1, <2>2 DEF Due
<1> QED
  BY <1>1, <1>3, <1>4 DEF StartedInv

\* The end of the loop, in the first state of the machine or in the last.
LEMMA EndStep ==
    ASSUME FileInv, LoadedInv, MachineInv, StartedInv, StartThenRun \/ EnterLoop,
           Fresh(loaded)
    PROVE  StartedInv'
<1> DEFINE processes == loaded.manifest.processes
<1>1. /\ em = "start" /\ turn > Len(processes) /\ UNCHANGED <<world, loaded, started>>
      /\ \/ em' = "start" /\ machine_state = "Startup" /\ machine_state' = "Running" /\ turn' = 1
         \/ em' = "loop" /\ UNCHANGED <<machine_state, turn>>
  BY DEF StartThenRun, EnterLoop, Started, EmGoto
<1>2. /\ DOMAIN processes = 1..Len(processes) /\ Len(processes) \in Nat /\ turn \in Nat \ {0}
      /\ machine_state = Initial \/ (Initial = "Startup" /\ machine_state = "Running")
  BY <1>1, LoopSees
<1>3. /\ \A i, state : Record(i, state)' = Record(i, state)
      /\ Initial' = Initial
  BY <1>1 DEF Record, Initial
<1>4. \A i \in DOMAIN processes : \A state : Due(i, state)' <=> Due(i, state)
  <2> SUFFICES ASSUME NEW i \in DOMAIN processes, NEW state
               PROVE  Due(i, state)' <=> Due(i, state)
    OBVIOUS
  <2>1. i \in Nat /\ i >= 1 /\ i <= Len(processes)
    BY <1>2
  <2>2. Past(i, state)' <=> Past(i, state)
    BY <1>1, <1>2, <1>3, <2>1 DEF Past
  <2> QED
    BY <1>1, <2>2 DEF Due
<1>5. ASSUME NEW i \in DOMAIN processes, NEW state \in {Initial, machine_state'},
             Due(i, state)
      PROVE  Record(i, state) \in ToSet(started)
  <2>1. state \in {Initial, machine_state}
    BY <1>1, <1>2, <1>5 DEF Due, Past
  <2> QED
    BY <1>1, <1>5, <2>1 DEF StartedInv
<1>6. \A k, l \in DOMAIN started :
        started[k].process = started[l].process /\ started[k].state = started[l].state => k = l
  BY <1>1 DEF StartedInv
<1>7. \A k \in DOMAIN started : \E i \in DOMAIN processes :
        Due(i, started[k].state) /\ started[k] = Record(i, started[k].state)
  BY <1>1 DEF StartedInv
<1>8. em' = "loop" => turn' > Len(processes)
  BY <1>1
<1>9. loaded' = loaded /\ started' = started
  BY <1>1
<1> QED
  BY <1>3, <1>4, <1>5, <1>6, <1>7, <1>8, <1>9 DEF StartedInv

LEMMA StartedStep ==
    FileInv /\ LoadedInv /\ MachineInv /\ StartedInv /\ [Next]_vars => StartedInv'
<1> SUFFICES ASSUME FileInv, LoadedInv, MachineInv, StartedInv, [Next]_vars
             PROVE  StartedInv'
  OBVIOUS
<1>0. world' = world
  BY StepStays
<1>1. CASE MergeNext \/ UNCHANGED vars
  <2>1. UNCHANGED <<em, loaded, machine_state, turn, started>>
    BY <1>1, StepStays
  <2>2. /\ \A i, state : Record(i, state)' = Record(i, state)
        /\ \A i, state : Due(i, state)' <=> Due(i, state)
        /\ Initial' = Initial /\ (Fresh(loaded)' <=> Fresh(loaded))
    BY <1>0, <2>1 DEF Record, Due, Past, Initial, Fresh
  <2> QED
    BY <2>1, <2>2 DEF StartedInv
<1>2. CASE LoadMachineManifest \/ ReadForeign \/ LoadProcesses
  BY <1>2 DEF LoadMachineManifest, ReadForeign, LoadProcesses, EmGoto, StartedInv
<1>3. CASE LoadPlatformConfig
  <2>1. /\ em = "settings" /\ em' \in {"start", "failed"}
        /\ UNCHANGED <<loaded, machine_state, started, turn>>
        /\ started = <<>> /\ turn = 1 /\ machine_state = Initial
    BY <1>3 DEF LoadPlatformConfig, EmGoto, LoadedInv, MachineInv
  <2>2. Fresh(loaded)' => Fresh(loaded)
    BY <1>0, <2>1 DEF Fresh
  <2>3. ASSUME Fresh(loaded), NEW i \in DOMAIN loaded.manifest.processes, NEW state
        PROVE  ~Due(i, state)'
    <3>1. IsList(loaded.manifest.processes)
      BY <2>3, FreshIsMerged, CategoryNames
    <3>2. i \in Nat /\ i >= 1
      BY <3>1, ListDomain
    <3> QED
      BY <1>0, <2>1, <3>2 DEF Due, Past, Initial
  <2>4. DOMAIN started = {}
    BY <2>1
  <2> QED
    BY <2>1, <2>2, <2>3, <2>4 DEF StartedInv
<1>4. CASE StartProcess \/ PassProcess \/ StartThenRun \/ EnterLoop
  <2>1. loaded' = loaded
    BY <1>4 DEF StartProcess, PassProcess, StartNext, Started, StartThenRun, EnterLoop
  <2>2. CASE Fresh(loaded)
    BY <1>4, <2>2, StartStep, PassStep, EndStep
  <2>3. CASE ~Fresh(loaded)
    BY <1>0, <2>1, <2>3 DEF StartedInv, Fresh
  <2> QED
    BY <2>2, <2>3
<1> QED
  BY <1>1, <1>2, <1>3, <1>4 DEF Next, ManagerNext

-----------------------------------------------------------------------------
(* The theorems *)

\* The inductive invariant holds in every reachable state.
THEOREM Invariance == Spec => []IInv
<1>1. IInv <=> FileInv /\ LoadedInv /\ MachineInv /\ StartedInv
  BY DEF IInv, FileInv
<1> QED
  BY <1>1, FileInit, FileStep, LoadedInit, LoadedStep, MachineInit, MachineStep,
     StartedInit, StartedStep, PTL DEF Spec

\* Whatever the applications define, the manifest that was written defines.
THEOREM NothingIsRedefined == Spec => []DefinitionsKeepMeaning
<1>1. IInv => DefinitionsKeepMeaning
  <2> SUFFICES ASSUME IInv, Fresh(out),
                      NEW a \in DOMAIN world.apps, NEW c \in {2, 3},
                      NEW i \in DOMAIN world.apps[a][Categories[c]]
               PROVE  LET entry == JsonEntry(a, c, i)
                      IN /\ Named(out.manifest[Categories[c]], entry.shortName) # {}
                         /\ First(out.manifest[Categories[c]], entry.shortName) = entry
    BY DEF DefinitionsKeepMeaning
  <2>1. build = "done" /\ out = Whole(merged) /\ out.manifest = merged
    BY DEF IInv, WrittenInv, Fresh, Whole, Cut, Absent
  <2>2. Passed(a, c, i)
    <3>1. IsList(world.apps) /\ app = Len(world.apps) + 1
      BY <2>1 DEF IInv, PositionInv, WellFormed
    <3> QED
      BY <3>1, ListDomain DEF Passed
  <2>3. JsonEntry(a, c, i) \in ToSet(merged[Categories[c]])
    BY <2>1, <2>2 DEF IInv, MergedInv
  <2>4. IsList(merged[Categories[c]]) /\ NamesAgree(merged[Categories[c]])
    BY <2>1, CategoryNames DEF IInv, PositionInv, IsManifest, MergedInv
  <2> QED
    BY <2>1, <2>3, <2>4, EntryIsFirst
<1> QED
  BY <1>1, Invariance, PTL

-----------------------------------------------------------------------------
(* What the conversion makes of an entry *)

LEMMA ProcessEntry ==
    ASSUME NEW a, NEW i, NEW p, p = world.apps[a].processes[i],
           Member(p, "shortName"), Member(p, "executableName"),
           NEW e, e = JsonEntry(a, 1, i)
    PROVE  /\ Has(e, {"shortName", "executableName", "executablePath",
                      "stateDependentStartupConfigs"})
           /\ e.shortName = p.shortName /\ e.executableName = p.executableName
           /\ e.executablePath = <<a, p.executableName>>
           /\ e.stateDependentStartupConfigs = StateDependentConfigs(world.apps[a], p)
<1> DEFINE object == ProcessObject(world.apps[a], p)
<1>1. e = Located(a, object)
  BY CategoryNames DEF JsonEntry, Converted
<1>2. /\ DOMAIN object = (DOMAIN p \ {"configs"}) \cup {"stateDependentStartupConfigs"}
      /\ object.shortName = p.shortName /\ object.executableName = p.executableName
      /\ object.stateDependentStartupConfigs = StateDependentConfigs(world.apps[a], p)
  BY DEF ProcessObject, Member
<1> HIDE DEF object
<1> QED
  BY <1>1, <1>2 DEF Located, Member, Has

LEMMA ExecutableEntry ==
    ASSUME NEW a, NEW i
    PROVE  JsonEntry(a, 2, i) = world.apps[a].executables[i]
BY CategoryNames DEF JsonEntry, Converted

LEMMA ConfigEntry ==
    ASSUME NEW a, NEW i, NEW c, c = world.apps[a].startupConfigs[i],
           Member(c, "shortName"), Member(c, "processArguments"),
           NEW e, e = JsonEntry(a, 3, i)
    PROVE  /\ Has(e, {"shortName", "processArguments"})
           /\ e.shortName = c.shortName /\ e.processArguments = c.processArguments
<1>1. e = [k \in DOMAIN c \ {"package"} |-> c[k]]
  BY CategoryNames DEF JsonEntry, Converted
<1> QED
  BY <1>1 DEF Member, Has

\* Of its own or of another process of the document, each of its configurations has a list
\* of states.
LEMMA StatesAreListed ==
    ASSUME WellFormed(world), NEW a \in DOMAIN world.apps,
           NEW p \in ToSet(world.apps[a].processes)
    PROVE  StatesListed(StateDependentConfigs(world.apps[a], p))
<1> DEFINE all == world.apps[a].processes
           with == {i \in DOMAIN all : Member(all[i], "configs")}
<1>1. IsList(all)
  BY AppIsConverted, CategoryNames
<1>2. CASE Member(p, "configs")
  BY <1>2, AppIsConverted DEF StateDependentConfigs
<1>3. CASE ~Member(p, "configs") /\ with = {}
  BY <1>3 DEF StateDependentConfigs, StatesListed, ToSet
<1>4. CASE ~Member(p, "configs") /\ with # {}
  <2>1. with \in SUBSET Nat
    BY <1>1, ListDomain
  <2>2. \E i \in with : \A j \in with : i <= j
    BY <1>4, <2>1, Least
  <2> DEFINE k == CHOOSE i \in with : \A j \in with : i <= j
  <2>3. k \in with
    BY <2>2
  <2>4. StateDependentConfigs(world.apps[a], p) = all[k].configs
    BY <1>4 DEF StateDependentConfigs
  <2> HIDE DEF k
  <2>5. Member(all[k], "configs") /\ all[k] \in ToSet(all)
    BY <1>1, <2>3, ListDomain
  <2> QED
    BY <2>4, <2>5, AppIsConverted
<1> QED
  BY <1>2, <1>3, <1>4

-----------------------------------------------------------------------------
\* A written manifest is refused for a member that an ARXML left out or for its settings,
\* and for nothing that the merge did or the conversion lost.
THEOREM WrittenLoads == Spec => []WrittenManifestLoads
<1>1. IInv => WrittenManifestLoads
  <2> SUFFICES ASSUME IInv, em = "failed", Fresh(loaded), SettingsLoad(loaded),
                      \A p \in ToSet(loaded.manifest.processes) :
                        /\ Member(p, "executablePath")
                        /\ \A d \in ToSet(p.stateDependentStartupConfigs) :
                            Member(d, "startupConfigRef"),
                      \A e \in ToSet(loaded.manifest.executables) :
                        Member(e, "reportingBehavior"),
                      \A c \in ToSet(loaded.manifest.startupConfigs) :
                        Member(c, "terminationBehavior")
               PROVE  FALSE
    BY DEF WrittenManifestLoads
  <2>1. FileInv /\ LoadedInv
    BY DEF IInv, FileInv
  <2>2. /\ build = "done" /\ loaded.manifest = merged /\ loaded.status = "whole"
        /\ IsList(merged.processes) /\ IsList(merged.executables) /\ IsList(merged.startupConfigs)
    BY <2>1, FreshIsMerged, CategoryNames
  <2>3. WellFormed(world)
    BY <2>1 DEF FileInv, PositionInv
  <2>4. \A c \in ToSet(merged.startupConfigs) : Has(c, {"processArguments", "terminationBehavior"})
    <3> SUFFICES ASSUME NEW c \in ToSet(merged.startupConfigs)
                 PROVE  Member(c, "processArguments")
      BY <2>2 DEF Has, Member
    <3>1. OfWorld(3, c)
      BY <2>1, <2>2, CategoryNames DEF FileInv, MergedInv
    <3>2. CASE c \in ToSet(world.platform.startupConfigs)
      BY <2>3, <3>2 DEF WellFormed, Regular
    <3>3. ASSUME NEW a \in DOMAIN world.apps, NEW i \in DOMAIN world.apps[a].startupConfigs,
                 c = JsonEntry(a, 3, i)
          PROVE  Member(c, "processArguments")
      <4> DEFINE element == world.apps[a].startupConfigs[i]
      <4>1. element \in ToSet(world.apps[a].startupConfigs)
        BY <2>3, AppIsConverted, ListDomain, CategoryNames
      <4>2. Member(element, "shortName") /\ Member(element, "processArguments")
        BY <2>3, <4>1, AppIsConverted, CategoryNames DEF Regular
      <4> QED
        BY <3>3, <4>2, ConfigEntry DEF Has, Member
    <3> QED
      BY <3>1, <3>2, <3>3, CategoryNames DEF OfWorld
  <2>5. ASSUME NEW p \in ToSet(merged.processes)
        PROVE  ProcessLoads(merged, p)
    <3>1. OfWorld(1, p) /\ p \notin ToSet(world.platform.processes)
      BY <2>1, <2>2, <2>3, CategoryNames DEF FileInv, MergedInv, WellFormed
    <3>0. PICK a \in DOMAIN world.apps : \E i \in DOMAIN world.apps[a].processes :
             p = JsonEntry(a, 1, i) /\ Member(world.apps[a].processes[i], "executableName")
      BY <3>1, CategoryNames DEF OfWorld
    <3>2. PICK i \in DOMAIN world.apps[a].processes :
             p = JsonEntry(a, 1, i) /\ Member(world.apps[a].processes[i], "executableName")
      BY <3>0
    <3> DEFINE element == world.apps[a].processes[i]
    <3>3. element \in ToSet(world.apps[a].processes)
      BY <2>3, AppIsConverted, ListDomain, CategoryNames
    <3>4. Member(element, "shortName")
      BY <2>3, <3>3, AppIsConverted, CategoryNames DEF Regular
    <3>5. /\ Has(p, {"executableName", "executablePath", "stateDependentStartupConfigs"})
          /\ p.stateDependentStartupConfigs = StateDependentConfigs(world.apps[a], element)
      BY <3>2, <3>4, ProcessEntry DEF Has
    <3>6. ReportingLoads(merged, p.executableName)
      BY <2>2, FirstIsNamed DEF ReportingLoads
    <3>7. ASSUME NEW d \in ToSet(p.stateDependentStartupConfigs)
          PROVE  ConfigLoads(merged, d)
      <4>1. Member(d, "functionGroupStates")
        BY <2>3, <3>3, <3>5, StatesAreListed DEF StatesListed
      <4>2. Member(d, "startupConfigRef")
        BY <2>2
      <4>3. Named(merged.startupConfigs, d.startupConfigRef.name) # {}
        BY <2>1, <2>2, <3>5, <4>2 DEF FileInv, WrittenInv, ReferencesResolve, Has, Member
      <4>4. First(merged.startupConfigs, d.startupConfigRef.name) \in ToSet(merged.startupConfigs)
        BY <2>2, <4>3, FirstIsNamed
      <4> QED
        BY <2>4, <4>1, <4>2, <4>3, <4>4 DEF ConfigLoads, Has, Member
    <3> QED
      BY <3>5, <3>6, <3>7 DEF ProcessLoads
  <2>6. ProcessesLoad(loaded)
    BY <2>2, <2>5 DEF ProcessesLoad
  <2> QED
    BY <2>1, <2>6 DEF LoadedInv
<1> QED
  BY <1>1, Invariance, PTL

-----------------------------------------------------------------------------
(* What becomes of a process whose ARXML is complete in itself *)

\* The manager finds for a reference what the same ARXML defines.
LEMMA ReferenceIsDeclared ==
    ASSUME FileInv, Fresh(loaded), NEW a \in DOMAIN world.apps, NEW ref,
           At(world.apps[a], ref) # {}
    PROVE  LET c == CHOOSE c \in At(world.apps[a], ref) : TRUE
           IN First(loaded.manifest.startupConfigs, ref.name).processArguments = c.processArguments
<1> DEFINE c == CHOOSE c \in At(world.apps[a], ref) : TRUE
<1>1. c \in At(world.apps[a], ref)
  OBVIOUS
<1> HIDE DEF c
<1>2. PICK i \in DOMAIN world.apps[a].startupConfigs : c = world.apps[a].startupConfigs[i]
  BY <1>1 DEF At, ToSet
<1>3. WellFormed(world) /\ c \in ToSet(world.apps[a].startupConfigs) /\ c.shortName = ref.name
  BY <1>1 DEF At, FileInv, PositionInv
<1>4. Member(c, "shortName") /\ Member(c, "processArguments")
  BY <1>3, AppIsConverted, CategoryNames DEF Regular
<1> DEFINE e == JsonEntry(a, 3, i)
<1>5. e.shortName = ref.name /\ e.processArguments = c.processArguments
  BY <1>2, <1>3, <1>4, ConfigEntry
<1>6. /\ loaded.manifest = merged /\ IsList(merged.startupConfigs)
      /\ e \in ToSet(merged.startupConfigs) /\ NamesAgree(merged.startupConfigs)
  BY FreshIsMerged, CategoryNames DEF FileInv, MergedInv
<1> HIDE DEF e
<1>7. First(merged.startupConfigs, ref.name) = e
  BY <1>5, <1>6, EntryIsFirst
<1> QED
  BY <1>5, <1>6, <1>7 DEF c

\* The same for the executable of a process.
LEMMA ExecutableIsDeclared ==
    ASSUME FileInv, Fresh(loaded), NEW a \in DOMAIN world.apps,
           NEW e \in ToSet(world.apps[a].executables)
    PROVE  ReportingBehavior(loaded.manifest, e.shortName) = e.reportingBehavior
<1>1. PICK i \in DOMAIN world.apps[a].executables : e = world.apps[a].executables[i]
  BY DEF ToSet
<1>2. /\ loaded.manifest = merged /\ IsList(merged.executables)
      /\ JsonEntry(a, 2, i) \in ToSet(merged.executables) /\ NamesAgree(merged.executables)
  BY FreshIsMerged, CategoryNames DEF FileInv, MergedInv
<1>3. JsonEntry(a, 2, i) = e
  BY <1>1, ExecutableEntry
<1> QED
  BY <1>2, <1>3, EntryIsFirst DEF ReportingBehavior

LEMMA ArgumentsAreDeclared ==
    ASSUME FileInv, Fresh(loaded), NEW a \in DOMAIN world.apps,
           NEW p, SelfContained(world.apps[a], p),
           NEW e, e.stateDependentStartupConfigs = p.configs, NEW state
    PROVE  ArgumentsFor(loaded.manifest, e, state) = DeclaredArguments(world.apps[a], p, state)
<1> DEFINE Found(d) == First(loaded.manifest.startupConfigs, d.startupConfigRef.name)
           Meant(d) == CHOOSE c \in At(world.apps[a], d.startupConfigRef) : TRUE
           Lists(d, c) == FlattenSeq([j \in DOMAIN Matches(d, state) |-> c.processArguments])
<1>1. ASSUME NEW i \in DOMAIN p.configs
      PROVE  Lists(p.configs[i], Found(p.configs[i])) = Lists(p.configs[i], Meant(p.configs[i]))
  <2>1. At(world.apps[a], p.configs[i].startupConfigRef) # {}
    BY DEF SelfContained, ToSet
  <2>2. Found(p.configs[i]).processArguments = Meant(p.configs[i]).processArguments
    BY <2>1, ReferenceIsDeclared
  <2> QED
    BY <2>2
<1>2. ArgumentsFor(loaded.manifest, e, state) =
        FlattenSeq([i \in DOMAIN p.configs |-> Lists(p.configs[i], Found(p.configs[i]))])
  BY DEF ArgumentsFor
<1>3. DeclaredArguments(world.apps[a], p, state) =
        FlattenSeq([i \in DOMAIN p.configs |-> Lists(p.configs[i], Meant(p.configs[i]))])
  BY DEF DeclaredArguments
<1> HIDE DEF Lists, Found, Meant
<1>4. [i \in DOMAIN p.configs |-> Lists(p.configs[i], Found(p.configs[i]))] =
        [i \in DOMAIN p.configs |-> Lists(p.configs[i], Meant(p.configs[i]))]
  BY <1>1
<1> QED
  BY <1>2, <1>3, <1>4

\* A process whose ARXML is complete is started where that ARXML says, once, as it says.
THEOREM StartsAreDeclared == Spec => []StartedAsDeclared
<1>1. IInv => StartedAsDeclared
  <2> SUFFICES ASSUME IInv, Fresh(loaded), NEW a \in DOMAIN world.apps,
                      NEW p \in ToSet(world.apps[a].processes),
                      SelfContained(world.apps[a], p)
               PROVE  LET Starts(state) == {k \in DOMAIN started :
                                /\ started[k].process = p.shortName
                                /\ started[k].state = state}
                      IN /\ \A state \in Visited :
                              DeclaredIn(p, state) <=> Cardinality(Starts(state)) = 1
                         /\ \A k \in DOMAIN started : started[k].process = p.shortName =>
                              /\ DeclaredIn(p, started[k].state)
                              /\ started[k].arguments =
                                    DeclaredArguments(world.apps[a], p, started[k].state)
                              /\ started[k].path = <<a, p.executableName>>
                              /\ \E e \in ToSet(world.apps[a].executables) :
                                    /\ e.shortName = p.executableName
                                    /\ e.reportingBehavior = started[k].reporting
    BY DEF StartedAsDeclared
  <2> DEFINE Starts(state) == {k \in DOMAIN started : /\ started[k].process = p.shortName
                                                     /\ started[k].state = state}
             processes == loaded.manifest.processes
  <2>1. FileInv /\ LoadedInv /\ MachineInv /\ StartedInv /\ WellFormed(world)
    BY DEF IInv, FileInv, PositionInv
  <2>2. CASE em \notin {"start", "loop"}
    <3>1. started = <<>> /\ Visited = {}
      BY <2>1, <2>2 DEF LoadedInv, Visited
    <3>2. DOMAIN started = {}
      BY <3>1
    <3> QED
      BY <3>1, <3>2
  <2>3. CASE em \in {"start", "loop"}
    <3>1. /\ NamedOnce(processes) /\ DOMAIN processes = 1..Len(processes)
          /\ Len(processes) \in Nat /\ turn \in Nat \ {0}
          /\ machine_state = Initial \/ (Initial = "Startup" /\ machine_state = "Running")
          /\ IsList(started)
      BY <2>1, <2>3, LoopSees
    <3>2. PICK n \in DOMAIN world.apps[a].processes : p = world.apps[a].processes[n]
      BY DEF ToSet
    <3> DEFINE entry == JsonEntry(a, 1, n)
    <3>3. /\ entry.shortName = p.shortName /\ entry.executableName = p.executableName
          /\ entry.executablePath = <<a, p.executableName>>
          /\ entry.stateDependentStartupConfigs = p.configs
      <4>1. Member(p, "shortName") /\ Member(p, "executableName") /\ Member(p, "configs")
        BY <2>1, AppIsConverted, CategoryNames DEF Regular, SelfContained, Has, Member
      <4>2. StateDependentConfigs(world.apps[a], p) = p.configs
        BY <4>1 DEF StateDependentConfigs
      <4> QED
        BY <3>2, <4>1, <4>2, ProcessEntry
    <3>4. entry \in ToSet(processes)
      BY <2>1, CategoryNames, FreshIsMerged
    <3> HIDE DEF entry
    <3>5. PICK i \in DOMAIN processes : entry = processes[i]
      BY <3>4 DEF ToSet
    <3>6. \A state : HasMatchingStartupConfig(processes[i], state) <=> DeclaredIn(p, state)
      BY <3>3, <3>5 DEF HasMatchingStartupConfig, DeclaredIn
    <3>7. ASSUME NEW k \in DOMAIN started, started[k].process = p.shortName
          PROVE  Due(i, started[k].state) /\ started[k] = Record(i, started[k].state)
      <4>1. PICK m \in DOMAIN processes :
               Due(m, started[k].state) /\ started[k] = Record(m, started[k].state)
        BY <2>1, <2>3 DEF StartedInv
      <4>2. processes[m].shortName = processes[i].shortName
        BY <3>3, <3>5, <3>7, <4>1 DEF Record, StartRecord
      <4> QED
        BY <3>1, <4>1, <4>2 DEF NamedOnce
    <3>8. ASSUME NEW k \in DOMAIN started, started[k].process = p.shortName
          PROVE  DeclaredIn(p, started[k].state)
      BY <3>6, <3>7, <3>8 DEF Due
    <3>9. ASSUME NEW k \in DOMAIN started, started[k].process = p.shortName
          PROVE  /\ started[k].arguments = DeclaredArguments(world.apps[a], p, started[k].state)
                 /\ started[k].path = <<a, p.executableName>>
                 /\ \E e \in ToSet(world.apps[a].executables) :
                       /\ e.shortName = p.executableName
                       /\ e.reportingBehavior = started[k].reporting
      <4>1. /\ started[k].arguments = ArgumentsFor(loaded.manifest, entry, started[k].state)
            /\ started[k].path = entry.executablePath
            /\ started[k].reporting = ReportingBehavior(loaded.manifest, entry.executableName)
        BY <3>5, <3>7, <3>9 DEF Record, StartRecord
      <4>2. started[k].arguments = DeclaredArguments(world.apps[a], p, started[k].state)
        BY <2>1, <3>3, <4>1, ArgumentsAreDeclared
      <4>3. PICK e \in ToSet(world.apps[a].executables) : e.shortName = p.executableName
        BY DEF SelfContained
      <4> QED
        BY <2>1, <3>3, <4>1, <4>2, <4>3, ExecutableIsDeclared
    <3>10. ASSUME NEW state \in Visited
           PROVE  DeclaredIn(p, state) <=> Cardinality(Starts(state)) = 1
      <4>1. CASE DeclaredIn(p, state)
        <5>1. Due(i, state) /\ state \in {Initial, machine_state}
          <6>1. em = "loop" /\ state \in {Initial, machine_state}
            BY <3>10 DEF Visited
          <6>2. i < turn
            BY <2>1, <3>1, <6>1 DEF StartedInv
          <6> QED
            BY <3>1, <3>6, <4>1, <6>1, <6>2 DEF Due, Past
        <5>2. Record(i, state) \in ToSet(started)
          BY <2>1, <2>3, <5>1 DEF StartedInv
        <5>3. PICK k \in DOMAIN started : started[k] = Record(i, state)
          BY <5>2 DEF ToSet
        <5>4. k \in Starts(state)
          BY <3>3, <3>5, <5>3 DEF Record, StartRecord
        <5>5. Starts(state) = {k}
          BY <2>1, <2>3, <5>4 DEF StartedInv
        <5> QED
          BY <4>1, <5>5, FS_Singleton
      <4>2. CASE ~DeclaredIn(p, state)
        <5>1. Starts(state) = {}
          BY <3>8, <4>2
        <5> QED
          BY <4>2, <5>1, FS_EmptySet
      <4> QED
        BY <4>1, <4>2
    <3> QED
      BY <3>8, <3>9, <3>10
  <2> QED
    BY <2>2, <2>3
<1> QED
  BY <1>1, Invariance, PTL

-----------------------------------------------------------------------------
(* The words of a text, however they are spelled                           *)

\* The first place without a digit is between the start and the end of the word.
LEMMA DigitsEndIs ==
    ASSUME NEW s, Len(s) \in Nat, NEW i \in 1..(Len(s) + 1)
    PROVE  /\ DigitsEnd(s, i) \in i..(Len(s) + 1)
           /\ \A k \in i..(DigitsEnd(s, i) - 1) : s[k] \in Digits
           /\ ~HasAt(s, DigitsEnd(s, i), Digits)
<1> DEFINE S == {j \in i..(Len(s) + 1) : ~HasAt(s, j, Digits)}
<1>1. S \in SUBSET Nat
  OBVIOUS
<1>2. Len(s) + 1 \in S
  BY DEF HasAt
<1>3. PICK j \in S : \A k \in S : j <= k
  BY <1>1, <1>2, Least
<1>4. ASSUME NEW k \in i..(j - 1) PROVE s[k] \in Digits
  <2>1. k \in i..(Len(s) + 1) /\ k \notin S
    BY <1>3
  <2> QED
    BY <2>1 DEF HasAt
<1>5. \E m \in i..(Len(s) + 1) : (\A k \in i..(m - 1) : s[k] \in Digits) /\ ~HasAt(s, m, Digits)
  BY <1>3, <1>4
<1> QED
  BY <1>5 DEF DigitsEnd

\* It is the only such place.
LEMMA DigitsEndThere ==
    ASSUME NEW s, Len(s) \in Nat, NEW i \in 1..(Len(s) + 1), NEW j \in i..(Len(s) + 1),
           \A k \in i..(j - 1) : s[k] \in Digits, ~HasAt(s, j, Digits)
    PROVE  DigitsEnd(s, i) = j
<1> DEFINE m == DigitsEnd(s, i)
<1>1. /\ m \in i..(Len(s) + 1) /\ ~HasAt(s, m, Digits)
      /\ \A k \in i..(m - 1) : s[k] \in Digits
  BY DigitsEndIs
<1> HIDE DEF m
<1>2. ~ (m < j)
  <2> SUFFICES ASSUME m < j PROVE FALSE
    OBVIOUS
  <2>1. m \in i..(j - 1) /\ m <= Len(s)
    BY <1>1
  <2> QED
    BY <1>1, <2>1 DEF HasAt
<1>3. ~ (j < m)
  <2> SUFFICES ASSUME j < m PROVE FALSE
    OBVIOUS
  <2>1. j \in i..(m - 1) /\ j <= Len(s)
    BY <1>1
  <2> QED
    BY <1>1, <2>1 DEF HasAt
<1> QED
  BY <1>1, <1>2, <1>3 DEF m

LEMMA SpellingIs ==
    ASSUME NEW w \in Words
    PROVE  Len(Spelling[w]) \in Nat /\ Spelling[w] # <<>>
<1>1. Spelling[w] \in (Seq(Characters) \ {<<>>}) \cup Literals
  BY WordsAssumption
<1>2. CASE Spelling[w] \in Literals
  BY <1>2 DEF Literals
<1>3. CASE Spelling[w] \in Seq(Characters) \ {<<>>}
  BY <1>3
<1> QED
  BY <1>1, <1>2, <1>3

\* What the number of a word has to be for the reader, in terms of where its parts end.
LEMMA ReadsNumberIs ==
    ASSUME NEW s, NEW first, NEW point, NEW exponent,
           first = Skip(s, 1, {"-"}), point = DigitsEnd(s, first),
           exponent = IF HasAt(s, point, {"."}) THEN DigitsEnd(s, point + 1) ELSE point
    PROVE  ReadsNumber(s) <=>
              /\ HasAt(s, 1, {"-"} \cup Digits)
              /\ (IF HasAt(s, exponent, {"e"})
                  THEN DigitsEnd(s, Skip(s, exponent + 1, {"+", "-"})) ELSE exponent) = Len(s) + 1
              /\ \E i \in first..(exponent - 1) : s[i] \in Digits
BY DEF ReadsNumber

\* A number that JSON has comes to its end in the reader.
LEMMA JsonNumberIsRead ==
    ASSUME NEW s, Len(s) \in Nat, IsJsonNumber(s)
    PROVE  ReadsNumber(s)
<1> DEFINE Ends(exponent) ==
             \/ exponent = Len(s) + 1
             \/ /\ HasAt(s, exponent, {"e"})
                /\ \E digits \in (exponent + 1)..(exponent + 2) :
                      /\ AreDigits(s, digits, Len(s) + 1)
                      /\ digits = exponent + 2 => s[exponent + 1] \in {"+", "-"}
<1>1. PICK first \in 1..2, point \in 1..(Len(s) + 1), exponent \in 1..(Len(s) + 1) :
        /\ first = 2 => s[1] = "-"
        /\ AreDigits(s, first, point) /\ (s[first] = "0" => point = first + 1)
        /\ \/ exponent = point
           \/ HasAt(s, point, {"."}) /\ AreDigits(s, point + 1, exponent)
        /\ Ends(exponent)
  BY DEF IsJsonNumber
<1>2. first < point /\ point <= exponent /\ exponent <= Len(s) + 1 /\ Len(s) >= 1
  BY <1>1 DEF AreDigits
<1>3. ~HasAt(s, exponent, Digits) /\ ~HasAt(s, exponent, {"."})
  BY <1>1 DEF HasAt, Digits
<1>4. s[first] \in Digits /\ \A k \in first..(point - 1) : s[k] \in Digits
  BY <1>1, <1>2 DEF AreDigits
<1>5. first = Skip(s, 1, {"-"})
  BY <1>1, <1>2, <1>4 DEF Skip, HasAt, Digits
<1>6. HasAt(s, 1, {"-"} \cup Digits)
  BY <1>1, <1>2, <1>4 DEF HasAt
<1>7. ~HasAt(s, point, Digits)
  BY <1>1, <1>3 DEF HasAt, Digits
<1>8. point = DigitsEnd(s, first)
  BY <1>1, <1>2, <1>4, <1>7, DigitsEndThere
<1>9. exponent = IF HasAt(s, point, {"."}) THEN DigitsEnd(s, point + 1) ELSE point
  <2>1. CASE exponent = point
    BY <1>3, <2>1
  <2>2. CASE HasAt(s, point, {"."}) /\ AreDigits(s, point + 1, exponent)
    <3>1. /\ point + 1 \in 1..(Len(s) + 1) /\ exponent \in (point + 1)..(Len(s) + 1)
          /\ \A k \in (point + 1)..(exponent - 1) : s[k] \in Digits
      BY <1>2, <2>2 DEF AreDigits
    <3> QED
      BY <1>3, <2>2, <3>1, DigitsEndThere
  <2> QED
    BY <1>1, <2>1, <2>2
<1>10. (IF HasAt(s, exponent, {"e"})
        THEN DigitsEnd(s, Skip(s, exponent + 1, {"+", "-"})) ELSE exponent) = Len(s) + 1
  <2>1. CASE exponent = Len(s) + 1
    BY <2>1 DEF HasAt
  <2>2. CASE exponent # Len(s) + 1
    <3>1. PICK digits \in (exponent + 1)..(exponent + 2) :
            /\ AreDigits(s, digits, Len(s) + 1)
            /\ digits = exponent + 2 => s[exponent + 1] \in {"+", "-"}
      BY <1>1, <2>2
    <3>2. digits < Len(s) + 1 /\ \A k \in digits..Len(s) : s[k] \in Digits
      BY <3>1 DEF AreDigits
    <3>3. s[digits] \in Digits
      BY <3>2
    <3>4. Skip(s, exponent + 1, {"+", "-"}) = digits
      BY <3>1, <3>2, <3>3 DEF Skip, HasAt, Digits
    <3>5. /\ digits \in 1..(Len(s) + 1) /\ Len(s) + 1 \in digits..(Len(s) + 1)
          /\ ~HasAt(s, Len(s) + 1, Digits) /\ \A k \in digits..((Len(s) + 1) - 1) : s[k] \in Digits
      BY <3>2 DEF HasAt
    <3>6. DigitsEnd(s, digits) = Len(s) + 1
      BY <3>5, DigitsEndThere
    <3> QED
      BY <1>1, <2>2, <3>4, <3>6
  <2> QED
    BY <2>1, <2>2
<1>11. \E i \in first..(exponent - 1) : s[i] \in Digits
  BY <1>2, <1>4
<1> QED
  BY <1>5, <1>6, <1>8, <1>9, <1>10, <1>11, ReadsNumberIs

\* Neither zeros in front nor a point, an exponent or a sign without digits after it.
Strict(s) ==
    /\ \A i \in 1..2 : HasAt(s, i, {"0"}) /\ (i = 2 => s[1] = "-") => ~HasAt(s, i + 1, Digits)
    /\ \A i \in 1..Len(s) : s[i] \in {"-", "+", "."} => HasAt(s, i + 1, Digits)
    /\ \A i \in 1..Len(s) : s[i] = "e" => HasAt(s, i + 1, Digits \cup {"+", "-"})

\* A number that the reader takes is JSON's when it is strict.
LEMMA ReadNumberIsJson ==
    ASSUME NEW s, Len(s) \in Nat, ReadsNumber(s), Strict(s)
    PROVE  IsJsonNumber(s)
<1> DEFINE first == Skip(s, 1, {"-"})
           point == DigitsEnd(s, first)
           exponent == IF HasAt(s, point, {"."}) THEN DigitsEnd(s, point + 1) ELSE point
           end == IF HasAt(s, exponent, {"e"})
                  THEN DigitsEnd(s, Skip(s, exponent + 1, {"+", "-"})) ELSE exponent
<1>1. HasAt(s, 1, {"-"} \cup Digits) /\ end = Len(s) + 1
  BY DEF ReadsNumber
<1>2. first \in 1..2 /\ first <= Len(s) /\ s[first] \in Digits /\ (first = 2 => s[1] = "-")
  BY <1>1 DEF Skip, HasAt, Digits, Strict
<1> HIDE DEF first
<1>3. /\ point \in first..(Len(s) + 1) /\ ~HasAt(s, point, Digits)
      /\ \A k \in first..(point - 1) : s[k] \in Digits
  BY <1>2, DigitsEndIs
<1> HIDE DEF point
<1>4. AreDigits(s, first, point)
  BY <1>2, <1>3 DEF AreDigits, HasAt
<1>5. ASSUME s[first] = "0" PROVE point = first + 1
  <2>1. ~HasAt(s, first + 1, Digits)
    BY <1>2, <1>5 DEF Strict, HasAt
  <2> SUFFICES ASSUME point > first + 1 PROVE FALSE
    BY <1>4, <1>3, <1>2 DEF AreDigits
  <2>2. first + 1 \in first..(point - 1) /\ first + 1 <= Len(s)
    BY <1>2, <1>3
  <2> QED
    BY <1>3, <2>1, <2>2 DEF HasAt
<1>6. /\ exponent \in point..(Len(s) + 1) /\ ~HasAt(s, exponent, Digits)
      /\ \/ exponent = point
         \/ HasAt(s, point, {"."}) /\ AreDigits(s, point + 1, exponent)
  <2>1. CASE ~HasAt(s, point, {"."})
    BY <1>3, <2>1
  <2>2. CASE HasAt(s, point, {"."})
    <3>1. HasAt(s, point + 1, Digits) /\ point + 1 \in 1..(Len(s) + 1)
      BY <1>2, <1>3, <2>2 DEF Strict, HasAt
    <3>2. /\ exponent \in (point + 1)..(Len(s) + 1) /\ ~HasAt(s, exponent, Digits)
          /\ \A k \in (point + 1)..(exponent - 1) : s[k] \in Digits
      BY <2>2, <3>1, DigitsEndIs
    <3> HIDE DEF exponent
    <3>3. AreDigits(s, point + 1, exponent)
      BY <3>1, <3>2 DEF AreDigits, HasAt
    <3> QED
      BY <1>2, <1>3, <2>2, <3>2, <3>3
  <2> QED
    BY <2>1, <2>2
<1> HIDE DEF exponent
<1>7. \/ exponent = Len(s) + 1
      \/ /\ HasAt(s, exponent, {"e"})
         /\ \E digits \in (exponent + 1)..(exponent + 2) :
               /\ AreDigits(s, digits, Len(s) + 1)
               /\ digits = exponent + 2 => s[exponent + 1] \in {"+", "-"}
  <2>1. CASE ~HasAt(s, exponent, {"e"})
    BY <1>1, <2>1
  <2>2. CASE HasAt(s, exponent, {"e"})
    <3> DEFINE digits == Skip(s, exponent + 1, {"+", "-"})
    <3>1. exponent \in 1..Len(s) /\ HasAt(s, exponent + 1, Digits \cup {"+", "-"})
      BY <1>2, <1>3, <1>6, <2>2 DEF Strict, HasAt
    <3>2. /\ digits \in (exponent + 1)..(exponent + 2) /\ HasAt(s, digits, Digits)
          /\ digits = exponent + 2 => s[exponent + 1] \in {"+", "-"}
      <4>1. CASE HasAt(s, exponent + 1, {"+", "-"})
        <5>1. HasAt(s, (exponent + 1) + 1, Digits)
          BY <3>1, <4>1 DEF Strict, HasAt
        <5> QED
          BY <3>1, <4>1, <5>1 DEF Skip, HasAt
      <4>2. CASE ~HasAt(s, exponent + 1, {"+", "-"})
        BY <3>1, <4>2 DEF Skip, HasAt
      <4> QED
        BY <4>1, <4>2
    <3>3. DigitsEnd(s, digits) = Len(s) + 1
      BY <1>1, <2>2
    <3> HIDE DEF digits
    <3>4. digits \in 1..(Len(s) + 1) /\ digits < Len(s) + 1
      BY <3>1, <3>2 DEF HasAt
    <3>5. AreDigits(s, digits, Len(s) + 1)
      BY <3>3, <3>4, DigitsEndIs DEF AreDigits
    <3> QED
      BY <2>2, <3>2, <3>5
  <2> QED
    BY <2>1, <2>2
<1>8. point \in 1..(Len(s) + 1) /\ exponent \in 1..(Len(s) + 1)
  BY <1>2, <1>3, <1>6
<1> QED
  BY <1>2, <1>4, <1>5, <1>6, <1>7, <1>8 DEF IsJsonNumber

\* A word that the reader takes is JSON's, but for its leniences.
LEMMA ReadIsJson ==
    ASSUME NEW w \in ReaderStrings \cup ReaderScalars
    PROVE  OfJson(w) \/ Lenient(w)
<1> DEFINE s == Spelling[w]
<1>0. w \in Words /\ Len(s) \in Nat /\ DOMAIN s = 1..Len(s)
  <2>1. w \in Words
    BY DEF ReaderStrings, ReaderScalars
  <2>2. s \in Seq(Characters) \cup Literals
    BY <2>1, WordsAssumption
  <2> HIDE DEF s
  <2>3. CASE s \in Literals
    BY <2>1, <2>3 DEF Literals
  <2>4. CASE s \in Seq(Characters)
    BY <2>1, <2>4
  <2> QED
    BY <2>1, <2>2, <2>3, <2>4
<1> SUFFICES ASSUME ~Lenient(w) PROVE OfJson(w)
  OBVIOUS
<1>1. CASE w \in ReaderStrings
  <2>1. ReadsString(s)
    BY <1>1 DEF ReaderStrings
  <2>2. s[1] = "quote" /\ Quoted(s) /\ \A i \in Escaped(s) : s[i] \in Escapes
    BY <2>1 DEF ReadsString, Quoted
  <2>3. \A i \in DOMAIN s : s[i] # "control"
    BY <2>2 DEF Lenient
  <2>4. IsJsonString(s)
    BY <2>2, <2>3 DEF IsJsonString
  <2> QED
    BY <1>0, <2>4 DEF OfJson, JsonStrings
<1>2. CASE s \in Literals
  BY <1>0, <1>2 DEF OfJson, JsonScalars
<1>3. CASE w \in ReaderScalars /\ s \notin Literals
  <2>1. ReadsNumber(s)
    BY <1>3 DEF ReaderScalars
  <2>2. Strict(s)
    BY <1>0 DEF Lenient, Strict
  <2> HIDE DEF s
  <2>3. IsJsonNumber(s)
    BY <1>0, <2>1, <2>2, ReadNumberIsJson
  <2> QED
    BY <1>0, <2>3 DEF OfJson, JsonScalars, s
<1> QED
  BY <1>1, <1>2, <1>3

\* A word of the grammar is one that the reader takes, or does not support.
LEMMA ReadOrUnsupported ==
    /\ \A w \in Strings : w \in ReaderStrings \/ w \in {x \in Words : Unsupported(x)}
    /\ \A w \in Scalars : w \in ReaderScalars \/ w \in {x \in Words : Unsupported(x)}
<1>1. ASSUME NEW w \in JsonStrings, w \notin ReaderStrings PROVE w \in {x \in Words : Unsupported(x)}
  <2> DEFINE s == Spelling[w]
  <2>1. w \in Words /\ IsJsonString(s) /\ ~ReadsString(s)
    BY <1>1 DEF JsonStrings, ReaderStrings
  <2>2. Quoted(s) /\ s[1] = "quote"
    BY <2>1 DEF IsJsonString, Quoted
  <2>3. PICK i \in Escaped(s) : s[i] \notin Escapes
    BY <2>1, <2>2 DEF ReadsString
  <2>4. s[i] = "u"
    BY <2>1, <2>3 DEF IsJsonString
  <2> QED
    BY <2>1, <2>2, <2>4 DEF Unsupported
<1>2. ASSUME NEW w \in JsonScalars, w \notin ReaderScalars PROVE w \in {x \in Words : Unsupported(x)}
  <2>1. w \in Words /\ Spelling[w] \notin Literals /\ IsJsonNumber(Spelling[w])
    BY <1>2 DEF JsonScalars, ReaderScalars
  <2>2. ReadsNumber(Spelling[w])
    BY <2>1, SpellingIs, JsonNumberIsRead
  <2>3. w \in OutOfRange
    BY <1>2, <2>1, <2>2 DEF ReaderScalars
  <2> QED
    BY <2>1, <2>3 DEF Unsupported
<1> QED
  BY <1>1, <1>2 DEF Strings, Scalars

-----------------------------------------------------------------------------
(* The JSON reader.  The rules of the grammar are a recursive definition,  *)
(* which is first shown to have a solution; what they derive is then found *)
(* at places of one text, so that no text is put together any more.        *)

\* A rule of the grammar looks at what is shorter only.
LEMMA RulesLookBelow ==
    ASSUME NEW f, NEW g, NEW n \in Nat, \A k \in 0..(n - 1) : f[k] = g[k]
    PROVE  RulesOf(f, n) = RulesOf(g, n)
<1>0. CASE n = 0
  BY <1>0 DEF RulesOf
<1>1. CASE n > 0
  <2>1. n >= 2 => f[n - 2] = g[n - 2]
    OBVIOUS
  <2>2. ValuesOf(f, n) = ValuesOf(g, n)
    <3>1. CASE n >= 3
      <4>1. /\ ValuesOf(f, n) = Arrays(f[n - 2].items) \cup Objects(f[n - 2].members)
            /\ ValuesOf(g, n) = Arrays(g[n - 2].items) \cup Objects(g[n - 2].members)
        BY <3>1 DEF ValuesOf
      <4> QED
        BY <2>1, <3>1, <4>1
    <3>2. CASE n = 1 \/ n = 2
      BY <3>2 DEF ValuesOf
    <3> QED
      BY <1>1, <3>1, <3>2
  <2>3. ItemsOf(f, n) = ItemsOf(g, n)
    <3> DEFINE F(k) == MoreItems(f[n - 1 - k].items, f[k].values)
               G(k) == MoreItems(g[n - 1 - k].items, g[k].values)
    <3>1. \A k \in 1..(n - 1) : f[n - 1 - k] = g[n - 1 - k] /\ f[k] = g[k]
      OBVIOUS
    <3>2. \A k \in 1..(n - 1) : F(k) = G(k)
      BY <3>1
    <3>3. /\ ItemsOf(f, n) = OneItem(ValuesOf(f, n)) \cup UNION {F(k) : k \in 1..(n - 1)}
          /\ ItemsOf(g, n) = OneItem(ValuesOf(g, n)) \cup UNION {G(k) : k \in 1..(n - 1)}
      BY DEF ItemsOf
    <3> HIDE DEF F, G
    <3>4. UNION {F(k) : k \in 1..(n - 1)} = UNION {G(k) : k \in 1..(n - 1)}
      BY <3>2
    <3> QED
      BY <2>2, <3>3, <3>4
  <2>4. MembersOf(f, n) = MembersOf(g, n)
    <3> DEFINE F(k) == MoreMembers(f[n - 3 - k].members, f[k].values)
               G(k) == MoreMembers(g[n - 3 - k].members, g[k].values)
    <3>0. CASE n < 3
      BY <3>0 DEF MembersOf
    <3>1. CASE n >= 3
      <4>1. \A k \in 1..(n - 3) : f[n - 3 - k] = g[n - 3 - k] /\ f[k] = g[k]
        OBVIOUS
      <4>2. \A k \in 1..(n - 3) : F(k) = G(k)
        BY <4>1
      <4>3. /\ MembersOf(f, n) = OneMember(f[n - 2].values) \cup UNION {F(k) : k \in 1..(n - 3)}
            /\ MembersOf(g, n) = OneMember(g[n - 2].values) \cup UNION {G(k) : k \in 1..(n - 3)}
        BY <3>1 DEF MembersOf
      <4> HIDE DEF F, G
      <4>4. UNION {F(k) : k \in 1..(n - 3)} = UNION {G(k) : k \in 1..(n - 3)}
        BY <4>2
      <4> QED
        BY <2>1, <3>1, <4>3, <4>4
    <3> QED
      BY <3>0, <3>1
  <2> QED
    BY <2>2, <2>3, <2>4 DEF RulesOf
<1> QED
  BY <1>0, <1>1

\* The recursive definition of the grammar has a solution.
LEMMA JsonUnfolds == JsonOf = [n \in 0..MaxTokens |-> RulesOf(JsonOf, n)]
<1> DEFINE UpTo(g, m) == g = [n \in 0..m |-> RulesOf(g, n)]
           Bad == {m \in Nat : ~ \E g : UpTo(g, m)}
<1>1. ASSUME Bad # {} PROVE FALSE
  <2>1. PICK m \in Bad : \A j \in Bad : m <= j
    BY <1>1, Least
  <2>2. PICK g : m > 0 => UpTo(g, m - 1)
    <3>1. CASE m = 0
      BY <3>1
    <3>2. CASE m > 0
      <4>1. m - 1 \in Nat /\ m - 1 \notin Bad
        BY <2>1, <3>2
      <4> QED
        BY <4>1
    <3> QED
      BY <3>1, <3>2
  <2> DEFINE h == [n \in 0..m |-> RulesOf(g, n)]
  <2>3. ASSUME NEW n \in 0..m PROVE RulesOf(h, n) = RulesOf(g, n)
    <3>1. ASSUME NEW k \in 0..(n - 1) PROVE h[k] = g[k]
      <4>1. m > 0 /\ k \in 0..(m - 1) /\ k \in 0..m
        OBVIOUS
      <4>2. g[k] = RulesOf(g, k)
        BY <2>2, <4>1
      <4> QED
        BY <4>1, <4>2
    <3> HIDE DEF h
    <3> QED
      BY <3>1, RulesLookBelow
  <2>4. h = [n \in 0..m |-> RulesOf(h, n)]
    BY <2>3
  <2> HIDE DEF h
  <2> QED
    BY <2>1, <2>4
<1>2. MaxTokens \notin Bad
  BY <1>1
<1> HIDE DEF Bad
<1>3. \E g : g = [n \in 0..MaxTokens |-> RulesOf(g, n)]
  BY <1>2, ParserAssumption DEF Bad
<1> QED
  BY <1>3 DEF JsonOf

\* The tokens of a text between two places.
Part(tokens, i, j) == SubSeq(tokens, i + 1, j)

LEMMA PartProperties ==
    ASSUME NEW t \in Seq(Tokens), NEW i \in Nat, NEW j \in Nat, i <= j, j <= Len(t)
    PROVE  /\ Part(t, i, j) \in Seq(Tokens) /\ Len(Part(t, i, j)) = j - i
           /\ \A k \in 1..(j - i) : Part(t, i, j)[k] = t[i + k]
<1>1. \A k \in (i + 1)..j : t[k] \in Tokens
  BY ElementOfSeq
<1>2. \A k \in 1..(j - i) : (i + 1) + k - 1 = i + k
  OBVIOUS
<1>3. i + 1 <= j \/ j - i = 0
  OBVIOUS
<1>4. /\ SubSeq(t, i + 1, j) \in Seq(Tokens)
      /\ Len(SubSeq(t, i + 1, j)) = IF i + 1 <= j THEN j - (i + 1) + 1 ELSE 0
      /\ \A k \in 1..(j - (i + 1) + 1) : SubSeq(t, i + 1, j)[k] = t[(i + 1) + k - 1]
  BY <1>1, SubSeqProperties
<1>5. j - (i + 1) + 1 = j - i
  OBVIOUS
<1> QED
  BY <1>2, <1>3, <1>4, <1>5 DEF Part

LEMMA PartOfOne ==
    ASSUME NEW t \in Seq(Tokens), NEW i \in Nat, i + 1 <= Len(t)
    PROVE  Part(t, i, i + 1) = <<t[i + 1]>>
<1>0. i + 1 \in Nat /\ i <= i + 1 /\ (i + 1) - i = 1 /\ 1 \in 1..1
  OBVIOUS
<1> DEFINE p == Part(t, i, i + 1)
<1>1. p \in Seq(Tokens) /\ Len(p) = (i + 1) - i /\ \A k \in 1..((i + 1) - i) : p[k] = t[i + k]
  BY <1>0, PartProperties
<1> HIDE DEF p
<1>2. Len(p) = 1 /\ p[1] = t[i + 1]
  BY <1>0, <1>1
<1>3. t[i + 1] \in Tokens
  BY ElementOfSeq
<1>4. <<t[i + 1]>> \in Seq(Tokens) /\ Len(<<t[i + 1]>>) = 1
  BY <1>3
<1> QED
  BY <1>1, <1>2, <1>4, SeqEqual DEF p

LEMMA Glue ==
    ASSUME NEW t \in Seq(Tokens), NEW i \in Nat, NEW k \in Nat, NEW j \in Nat,
           i <= k, k <= j, j <= Len(t)
    PROVE  Part(t, i, k) \o Part(t, k, j) = Part(t, i, j)
<1>1. i + 1 \in 1..(Len(t) + 1) /\ k \in (i + 1) - 1..Len(t) /\ j \in k..Len(t)
  OBVIOUS
<1> QED
  BY <1>1, ConcatAdjacentSubSeq DEF Part

\* The part of t between two places is a and then b.
IsTwo(t, i, j, a, b) ==
    /\ t \in Seq(Tokens) /\ a \in Seq(Tokens) /\ b \in Seq(Tokens)
    /\ i \in Nat /\ j \in Nat /\ i <= j /\ j <= Len(t)
    /\ Part(t, i, j) = a \o b

\* Then each of them is a part of t.
LEMMA Split ==
    ASSUME NEW t, NEW i, NEW j, NEW a, NEW b, IsTwo(t, i, j, a, b)
    PROVE  /\ i + Len(a) \in Nat /\ i + Len(a) <= j /\ i + Len(a) + Len(b) = j
           /\ a = Part(t, i, i + Len(a)) /\ b = Part(t, i + Len(a), j)
           /\ \A n \in 1..Len(a) : a[n] = t[i + n]
           /\ \A n \in 1..Len(b) : b[n] = t[i + Len(a) + n]
<1> DEFINE all == a \o b
           k == i + Len(a)
<1>a. /\ t \in Seq(Tokens) /\ a \in Seq(Tokens) /\ b \in Seq(Tokens)
      /\ i \in Nat /\ j \in Nat /\ i <= j /\ j <= Len(t)
  BY DEF IsTwo
<1> USE <1>a
<1>0. all = Part(t, i, j)
  BY DEF IsTwo
<1>1. /\ Len(Part(t, i, j)) = j - i /\ \A n \in 1..(j - i) : Part(t, i, j)[n] = t[i + n]
  BY PartProperties
<1>2. /\ Len(all) = Len(a) + Len(b)
      /\ \A n \in 1..(Len(a) + Len(b)) : all[n] = IF n <= Len(a) THEN a[n] ELSE b[n - Len(a)]
  <2>1. Len(all) = Len(a) + Len(b)
    OBVIOUS
  <2>2. ASSUME NEW n \in 1..(Len(a) + Len(b))
        PROVE  all[n] = IF n <= Len(a) THEN a[n] ELSE b[n - Len(a)]
    OBVIOUS
  <2> QED
    BY <2>1, <2>2
<1>3. Len(a) \in Nat /\ Len(b) \in Nat
  BY LenProperties
<1> HIDE DEF all
<1>4. Len(a) + Len(b) = j - i
  BY <1>0, <1>1, <1>2
<1>5. k \in Nat /\ i <= k /\ k <= j /\ k <= Len(t) /\ k - i = Len(a) /\ j - k = Len(b)
  BY <1>3, <1>4, LenProperties
<1>6. \A n \in 1..Len(a) : a[n] = t[i + n]
  BY <1>0, <1>1, <1>2, <1>3, <1>4
<1>7. \A n \in 1..Len(b) : b[n] = t[k + n]
  <2> SUFFICES ASSUME NEW n \in 1..Len(b) PROVE b[n] = t[k + n]
    OBVIOUS
  <2> DEFINE m == Len(a) + n
  <2>1. m \in 1..(j - i) /\ m \in 1..(Len(a) + Len(b)) /\ ~(m <= Len(a)) /\ m - Len(a) = n
    BY <1>3, <1>4
  <2>2. i + m = k + n
    BY <1>3
  <2> HIDE DEF m
  <2> QED
    BY <1>0, <1>1, <1>2, <2>1, <2>2
<1> HIDE DEF k
<1>8. a = Part(t, i, k)
  <2>1. /\ Part(t, i, k) \in Seq(Tokens) /\ Len(Part(t, i, k)) = k - i
        /\ \A n \in 1..(k - i) : Part(t, i, k)[n] = t[i + n]
    BY <1>5, PartProperties
  <2>2. Len(a) = Len(Part(t, i, k)) /\ \A n \in 1..Len(a) : a[n] = Part(t, i, k)[n]
    BY <1>5, <1>6, <2>1
  <2> QED
    BY <2>1, <2>2, SeqEqual
<1>9. b = Part(t, k, j)
  <2>1. /\ Part(t, k, j) \in Seq(Tokens) /\ Len(Part(t, k, j)) = j - k
        /\ \A n \in 1..(j - k) : Part(t, k, j)[n] = t[k + n]
    BY <1>5, PartProperties
  <2>2. Len(b) = Len(Part(t, k, j)) /\ \A n \in 1..Len(b) : b[n] = Part(t, k, j)[n]
    BY <1>5, <1>7, <2>1
  <2> QED
    BY <2>1, <2>2, SeqEqual
<1> QED
  BY <1>3, <1>4, <1>5, <1>6, <1>7, <1>8, <1>9 DEF k

LEMMA TokensAre == /\ Strings \subseteq Tokens /\ Scalars \subseteq Tokens
                   /\ {"lbrace", "rbrace", "lbracket", "rbracket", "colon", "comma"} \subseteq Tokens
BY DEF Tokens, Punctuation, Strings, Scalars, JsonStrings, ReaderStrings, JsonScalars, ReaderScalars

LEMMA ReadIsDerived == ReaderStrings \subseteq Strings /\ ReaderScalars \subseteq Scalars
BY DEF Strings, Scalars

LEMMA RulesUnfold ==
    ASSUME NEW n \in 1..MaxTokens
    PROVE  /\ JsonOf[n].values = ValuesOf(JsonOf, n)
           /\ JsonOf[n].items = ItemsOf(JsonOf, n)
           /\ JsonOf[n].members = MembersOf(JsonOf, n)
<1>1. n \in 0..MaxTokens /\ n # 0
  BY ParserAssumption
<1>2. JsonOf[n] = RulesOf(JsonOf, n)
  BY <1>1, JsonUnfolds
<1> QED
  BY <1>1, <1>2 DEF RulesOf

LEMMA NothingIsEmpty ==
    JsonOf[0].values = {} /\ JsonOf[0].items = {} /\ JsonOf[0].members = {}
<1>1. 0 \in 0..MaxTokens
  BY ParserAssumption
<1> QED
  BY <1>1, JsonUnfolds DEF RulesOf

\* The rules of the grammar; each derives texts of n tokens.
Rules == {"values", "items", "members"}
Fits(d, n) == d = Derived(d.text, d.value) /\ d.text \in Seq(Tokens) /\ Len(d.text) = n

LEMMA DerivedIs ==
    ASSUME NEW x, NEW v
    PROVE  /\ Derived(x, v).text = x /\ Derived(x, v).value = v
           /\ x \in Seq(Tokens) => Fits(Derived(x, v), Len(x))
BY DEF Derived, Fits

LEMMA Concat3 ==
    ASSUME NEW a \in Seq(Tokens), NEW b \in Seq(Tokens), NEW c \in Seq(Tokens)
    PROVE  a \o b \o c \in Seq(Tokens) /\ Len(a \o b \o c) = Len(a) + Len(b) + Len(c)
OBVIOUS

LEMMA FewTokens ==
    /\ \A x \in Tokens : <<x>> \in Seq(Tokens) /\ Len(<<x>>) = 1
    /\ \A x, y \in Tokens : <<x, y>> \in Seq(Tokens) /\ Len(<<x, y>>) = 2
    /\ \A x, y, z \in Tokens : <<x, y, z>> \in Seq(Tokens) /\ Len(<<x, y, z>>) = 3
OBVIOUS

LEMMA Marks ==
    /\ \A x \in {"lbrace", "rbrace", "lbracket", "rbracket", "colon", "comma"} \cup Strings \cup Scalars :
         <<x>> \in Seq(Tokens) /\ Len(<<x>>) = 1
    /\ <<"lbrace", "rbrace">> \in Seq(Tokens) /\ Len(<<"lbrace", "rbrace">>) = 2
    /\ <<"lbracket", "rbracket">> \in Seq(Tokens) /\ Len(<<"lbracket", "rbracket">>) = 2
    /\ \A key \in Strings : /\ <<key, "colon">> \in Seq(Tokens) /\ Len(<<key, "colon">>) = 2
                            /\ <<"comma", key, "colon">> \in Seq(Tokens) /\ Len(<<"comma", key, "colon">>) = 3
BY TokensAre, FewTokens

LEMMA MoreItemsAre ==
    ASSUME NEW e, NEW items, NEW values
    PROVE  e \in MoreItems(items, values) <=>
             \E x \in items, y \in values :
                e = Derived(x.text \o <<"comma">> \o y.text, Append(x.value, y.value))
<1> DEFINE F(x, y) == Derived(x.text \o <<"comma">> \o y.text, Append(x.value, y.value))
<1>1. MoreItems(items, values) = {F(p[1], p[2]) : p \in Pairs(items, values)}
  BY DEF MoreItems
<1>2. \A p \in Pairs(items, values) : p[1] \in items /\ p[2] \in values
  BY DEF Pairs
<1>3. \A x \in items, y \in values :
        <<x, y>> \in Pairs(items, values) /\ <<x, y>>[1] = x /\ <<x, y>>[2] = y
  BY DEF Pairs
<1> HIDE DEF F
<1>4. ASSUME e \in MoreItems(items, values) PROVE \E x \in items, y \in values : e = F(x, y)
  <2>1. PICK p \in Pairs(items, values) : e = F(p[1], p[2])
    BY <1>1, <1>4
  <2> QED
    BY <1>2, <2>1
<1>5. ASSUME NEW x \in items, NEW y \in values, e = F(x, y) PROVE e \in MoreItems(items, values)
  <2> DEFINE p == <<x, y>>
  <2>1. p \in Pairs(items, values) /\ p[1] = x /\ p[2] = y
    BY <1>3
  <2> HIDE DEF p
  <2>2. e = F(p[1], p[2])
    BY <1>5, <2>1
  <2> QED
    BY <1>1, <2>1, <2>2
<1> QED
  BY <1>4, <1>5 DEF F

LEMMA OneMemberIs ==
    ASSUME NEW e, NEW values
    PROVE  e \in OneMember(values) <=>
             \E key \in Strings, y \in values :
                e = Derived(<<key, "colon">> \o y.text, {<<key, y.value>>})
<1> DEFINE F(key, y) == Derived(<<key, "colon">> \o y.text, {<<key, y.value>>})
<1>1. OneMember(values) = {F(p[1], p[2]) : p \in Pairs(Strings, values)}
  BY DEF OneMember
<1>2. \A p \in Pairs(Strings, values) : p[1] \in Strings /\ p[2] \in values
  BY DEF Pairs
<1>3. \A x \in Strings, y \in values :
        <<x, y>> \in Pairs(Strings, values) /\ <<x, y>>[1] = x /\ <<x, y>>[2] = y
  BY DEF Pairs
<1> HIDE DEF F
<1>4. ASSUME e \in OneMember(values) PROVE \E key \in Strings, y \in values : e = F(key, y)
  <2>1. PICK p \in Pairs(Strings, values) : e = F(p[1], p[2])
    BY <1>1, <1>4
  <2> QED
    BY <1>2, <2>1
<1>5. ASSUME NEW x \in Strings, NEW y \in values, e = F(x, y) PROVE e \in OneMember(values)
  <2> DEFINE p == <<x, y>>
  <2>1. p \in Pairs(Strings, values) /\ p[1] = x /\ p[2] = y
    BY <1>3
  <2> HIDE DEF p
  <2>2. e = F(p[1], p[2])
    BY <1>5, <2>1
  <2> QED
    BY <1>1, <2>1, <2>2
<1> QED
  BY <1>4, <1>5 DEF F

\* The texts that go on from members with one more.
OneMore(x, key, y) ==
    {Derived(x.text \o <<"comma", key, "colon">> \o y.text, m) : m \in Additions(x.value, key, y.value)}

LEMMA MoreMembersAre ==
    ASSUME NEW e, NEW members, NEW values
    PROVE  e \in MoreMembers(members, values) <=>
             \E x \in members, key \in Strings, y \in values : e \in OneMore(x, key, y)
<1> DEFINE S == Pairs(members, Pairs(Strings, values))
<1>1. MoreMembers(members, values) = UNION {OneMore(p[1], p[2][1], p[2][2]) : p \in S}
  BY DEF MoreMembers, OneMore
<1>2. \A p \in S : p[1] \in members /\ p[2][1] \in Strings /\ p[2][2] \in values
  BY DEF Pairs
<1>3. ASSUME NEW x \in members, NEW key \in Strings, NEW y \in values
      PROVE  \E p \in S : p[1] = x /\ p[2][1] = key /\ p[2][2] = y
  <2>1. <<key, y>> \in Pairs(Strings, values)
    BY DEF Pairs
  <2> DEFINE inner == <<key, y>>
             outer == <<x, inner>>
  <2>2. inner[1] = key /\ inner[2] = y
    OBVIOUS
  <2> HIDE DEF inner
  <2>3. outer \in S /\ outer[1] = x /\ outer[2] = inner
    BY <2>1 DEF Pairs, inner
  <2> QED
    BY <2>2, <2>3
<1> HIDE DEF S
<1> QED
  BY <1>1, <1>2, <1>3

\* The reader keeps the first of two members of one name.
LEMMA EmplaceAdds ==
    ASSUME NEW members, NEW key, NEW value
    PROVE  Emplace(members, key, value) \in Additions(members, key, value)
<1>1. CASE \E m \in members : m[1] = key
  BY <1>1 DEF Emplace, Additions
<1>2. CASE ~ \E m \in members : m[1] = key
  <2>1. {m \in members : m[1] # key} = members
    BY <1>2
  <2> QED
    BY <1>2, <2>1 DEF Emplace, Additions
<1> QED
  BY <1>1, <1>2

\* A text that is derived has its length.
LEMMA DerivedFits ==
    ASSUME NEW n \in 0..MaxTokens, NEW rule \in Rules, NEW d \in JsonOf[n][rule]
    PROVE  Fits(d, n)
<1> DEFINE Good(m) == \A r \in Rules : \A e \in JsonOf[m][r] : Fits(e, m)
           Bad == {m \in 0..MaxTokens : ~Good(m)}
<1>1. ASSUME Bad # {} PROVE FALSE
  <2>1. Bad \in SUBSET Nat
    BY ParserAssumption
  <2>2. PICK m \in Bad : \A k \in Bad : m <= k
    BY <1>1, <2>1, Least
  <2>3. m \in 0..MaxTokens /\ ~Good(m) /\ \A k \in 0..(m - 1) : Good(k)
    BY <2>2, ParserAssumption
  <2> HIDE DEF Bad
  <2>4. m # 0
    BY <2>3, NothingIsEmpty DEF Rules
  <2>5. m \in 1..MaxTokens /\ m \in Nat
    BY <2>3, <2>4, ParserAssumption
  <2>6. \A k \in 0..(m - 1) : \A r \in Rules : \A e \in JsonOf[k][r] : Fits(e, k)
    BY <2>3
  <2> HIDE DEF Good
  <2>7. ASSUME NEW e \in ValuesOf(JsonOf, m) PROVE Fits(e, m)
    <3>1. CASE m = 1
      <4>1. PICK x \in Strings \cup Scalars : e = Derived(<<x>>, Scalar(x))
        BY <2>7, <3>1 DEF ValuesOf, Singles
      <4>2. <<x>> \in Seq(Tokens) /\ Len(<<x>>) = 1
        BY Marks
      <4> QED
        BY <3>1, <4>1, <4>2, DerivedIs, Zenon
    <3>2. CASE m = 2
      <4>1. e \in Empties
        BY <2>7, <3>2 DEF ValuesOf
      <4>2. CASE e = Derived(<<"lbrace", "rbrace">>, Object({}))
        BY <3>2, <4>2, Marks, DerivedIs, Zenon
      <4>3. CASE e = Derived(<<"lbracket", "rbracket">>, Array(<<>>))
        BY <3>2, <4>3, Marks, DerivedIs, Zenon
      <4> QED
        BY <4>1, <4>2, <4>3, Zenon DEF Empties
    <3>3. CASE m >= 3
      <4>1. e \in Arrays(JsonOf[m - 2].items) \/ e \in Objects(JsonOf[m - 2].members)
        BY <2>7, <3>3 DEF ValuesOf
      <4>2. m - 2 \in 0..(m - 1)
        BY <3>3, <2>5
      <4>3. ASSUME NEW x \in JsonOf[m - 2].items,
                   e = Derived(<<"lbracket">> \o x.text \o <<"rbracket">>, Array(x.value))
            PROVE  Fits(e, m)
        <5>1. x.text \in Seq(Tokens) /\ Len(x.text) = m - 2
          BY <2>6, <4>2 DEF Rules, Fits
        <5>2. <<"lbracket">> \in Seq(Tokens) /\ <<"rbracket">> \in Seq(Tokens)
              /\ Len(<<"lbracket">>) = 1 /\ Len(<<"rbracket">>) = 1
          BY Marks
        <5>3. /\ <<"lbracket">> \o x.text \o <<"rbracket">> \in Seq(Tokens)
              /\ Len(<<"lbracket">> \o x.text \o <<"rbracket">>) = Len(<<"lbracket">>) + Len(x.text) + Len(<<"rbracket">>)
          BY <5>1, <5>2, Concat3
        <5>4. Len(<<"lbracket">>) + Len(x.text) + Len(<<"rbracket">>) = m
          <6>1. 1 + (m - 2) + 1 = m
            BY <2>5
          <6> QED
            BY <5>1, <5>2, <6>1, Zenon
        <5> QED
          BY <4>3, <5>3, <5>4, DerivedIs, Zenon
      <4>4. ASSUME NEW x \in JsonOf[m - 2].members,
                   e = Derived(<<"lbrace">> \o x.text \o <<"rbrace">>, Object(x.value))
            PROVE  Fits(e, m)
        <5>1. x.text \in Seq(Tokens) /\ Len(x.text) = m - 2
          BY <2>6, <4>2 DEF Rules, Fits
        <5>2. <<"lbrace">> \in Seq(Tokens) /\ <<"rbrace">> \in Seq(Tokens)
              /\ Len(<<"lbrace">>) = 1 /\ Len(<<"rbrace">>) = 1
          BY Marks
        <5>3. /\ <<"lbrace">> \o x.text \o <<"rbrace">> \in Seq(Tokens)
              /\ Len(<<"lbrace">> \o x.text \o <<"rbrace">>) = Len(<<"lbrace">>) + Len(x.text) + Len(<<"rbrace">>)
          BY <5>1, <5>2, Concat3
        <5>4. Len(<<"lbrace">>) + Len(x.text) + Len(<<"rbrace">>) = m
          <6>1. 1 + (m - 2) + 1 = m
            BY <2>5
          <6> QED
            BY <5>1, <5>2, <6>1, Zenon
        <5> QED
          BY <4>4, <5>3, <5>4, DerivedIs, Zenon
      <4> QED
        BY <4>1, <4>3, <4>4 DEF Arrays, Objects
    <3> QED
      BY <2>5, <3>1, <3>2, <3>3
  <2>8. ASSUME NEW e \in ItemsOf(JsonOf, m) PROVE Fits(e, m)
    <3>1. CASE e \in OneItem(ValuesOf(JsonOf, m))
      BY <2>7, <3>1 DEF OneItem, Fits, Derived
    <3>2. ASSUME NEW k \in 1..(m - 1),
                 e \in MoreItems(JsonOf[m - 1 - k].items, JsonOf[k].values)
          PROVE  Fits(e, m)
      <4> DEFINE items == JsonOf[m - 1 - k].items
                 values == JsonOf[k].values
      <4>0. e \in MoreItems(items, values)
        BY <3>2
      <4> HIDE DEF items, values
      <4>1. PICK x \in items, y \in values :
               e = Derived(x.text \o <<"comma">> \o y.text, Append(x.value, y.value))
        BY <4>0, MoreItemsAre
      <4>2. m - 1 - k \in 0..(m - 1) /\ k \in 0..(m - 1)
        BY <2>5
      <4>3. /\ x.text \in Seq(Tokens) /\ Len(x.text) = m - 1 - k
            /\ y.text \in Seq(Tokens) /\ Len(y.text) = k
        BY <2>6, <4>2 DEF Rules, Fits, items, values
      <4>4. <<"comma">> \in Seq(Tokens) /\ Len(<<"comma">>) = 1
        BY Marks
      <4>5. /\ x.text \o <<"comma">> \o y.text \in Seq(Tokens)
            /\ Len(x.text \o <<"comma">> \o y.text) = Len(x.text) + Len(<<"comma">>) + Len(y.text)
        BY <4>3, <4>4, Concat3
      <4>6. Len(x.text) + Len(<<"comma">>) + Len(y.text) = m
        <5>1. (m - 1 - k) + 1 + k = m
          BY <2>5
        <5> QED
          BY <4>3, <4>4, <5>1, Zenon
      <4> QED
        BY <4>1, <4>5, <4>6, DerivedIs, Zenon
    <3> QED
      BY <2>8, <3>1, <3>2 DEF ItemsOf
  <2>9. ASSUME NEW e \in MembersOf(JsonOf, m) PROVE Fits(e, m)
    <3>0. m >= 3
      BY <2>9, <2>5 DEF MembersOf
    <3>1. CASE e \in OneMember(JsonOf[m - 2].values)
      <4>1. PICK key \in Strings, y \in JsonOf[m - 2].values :
               e = Derived(<<key, "colon">> \o y.text, {<<key, y.value>>})
        BY <3>1, OneMemberIs
      <4>2. y.text \in Seq(Tokens) /\ Len(y.text) = m - 2
        BY <2>5, <2>6, <3>0 DEF Rules, Fits
      <4>3. /\ <<key, "colon">> \o y.text \in Seq(Tokens)
            /\ Len(<<key, "colon">> \o y.text) = 2 + (m - 2)
        <5>1. <<key, "colon">> \in Seq(Tokens) /\ Len(<<key, "colon">>) = 2
          BY Marks
        <5> QED
          BY <4>2, <5>1, ConcatProperties
      <4>4. 2 + (m - 2) = m
        BY <2>5
      <4> QED
        BY <4>1, <4>3, <4>4, DerivedIs, Zenon
    <3>2. ASSUME NEW k \in 1..(m - 3),
                 e \in MoreMembers(JsonOf[m - 3 - k].members, JsonOf[k].values)
          PROVE  Fits(e, m)
      <4> DEFINE members == JsonOf[m - 3 - k].members
                 values == JsonOf[k].values
      <4>0. e \in MoreMembers(members, values)
        BY <3>2
      <4> HIDE DEF members, values
      <4>a. PICK x \in members, key \in Strings, y \in values : e \in OneMore(x, key, y)
        BY <4>0, MoreMembersAre
      <4>1. PICK v : e = Derived(x.text \o <<"comma", key, "colon">> \o y.text, v)
        BY <4>a DEF OneMore
      <4>2. m - 3 - k \in 0..(m - 1) /\ k \in 0..(m - 1)
        BY <2>5
      <4>3. /\ x.text \in Seq(Tokens) /\ Len(x.text) = m - 3 - k
            /\ y.text \in Seq(Tokens) /\ Len(y.text) = k
        BY <2>6, <4>2 DEF Rules, Fits, members, values
      <4>4. <<"comma", key, "colon">> \in Seq(Tokens) /\ Len(<<"comma", key, "colon">>) = 3
        BY Marks
      <4>5. /\ x.text \o <<"comma", key, "colon">> \o y.text \in Seq(Tokens)
            /\ Len(x.text \o <<"comma", key, "colon">> \o y.text) =
                 Len(x.text) + Len(<<"comma", key, "colon">>) + Len(y.text)
        BY <4>3, <4>4, Concat3
      <4>6. Len(x.text) + Len(<<"comma", key, "colon">>) + Len(y.text) = m
        <5>1. (m - 3 - k) + 3 + k = m
          BY <2>5
        <5> QED
          BY <4>3, <4>4, <5>1, Zenon
      <4> QED
        BY <4>1, <4>5, <4>6, DerivedIs, Zenon
    <3> QED
      BY <2>9, <3>0, <3>1, <3>2 DEF MembersOf
  <2> QED
    BY <2>3, <2>5, <2>7, <2>8, <2>9, RulesUnfold DEF Good, Rules
<1> QED
  BY <1>1

-----------------------------------------------------------------------------
(* The rules of the grammar on the parts of a text *)

\* The part of t between two places is a token, x and a token.
IsEnclosed(t, i, j, o, x, c) ==
    /\ t \in Seq(Tokens) /\ x \in Seq(Tokens) /\ o \in Tokens /\ c \in Tokens
    /\ i \in Nat /\ j \in Nat /\ i <= j /\ j <= Len(t)
    /\ Part(t, i, j) = <<o>> \o x \o <<c>>

LEMMA EnclosedPart ==
    ASSUME NEW t, NEW i, NEW j, NEW o, NEW x, NEW c, IsEnclosed(t, i, j, o, x, c)
    PROVE  /\ i + 2 <= j /\ t[i + 1] = o /\ t[j] = c /\ x = Part(t, i + 1, j - 1)
<1> DEFINE u == <<o>>
           b == <<c>>
           a == u \o x
<1>a. /\ t \in Seq(Tokens) /\ x \in Seq(Tokens) /\ o \in Tokens /\ c \in Tokens
      /\ i \in Nat /\ j \in Nat /\ i <= j /\ j <= Len(t)
  BY DEF IsEnclosed
<1> USE <1>a
<1>1. u \in Seq(Tokens) /\ Len(u) = 1 /\ u[1] = o /\ b \in Seq(Tokens) /\ Len(b) = 1 /\ b[1] = c
  OBVIOUS
<1>2. a \in Seq(Tokens) /\ Len(a) = Len(u) + Len(x) /\ Len(x) \in Nat
  <2> HIDE DEF u
  <2> QED
    BY <1>1, ConcatProperties, LenProperties
<1>3. Part(t, i, j) = a \o b
  BY DEF IsEnclosed
<1> HIDE DEF u, b
<1>4. Part(t, i, j) = a \o b /\ a \in Seq(Tokens) /\ b \in Seq(Tokens)
  BY <1>1, <1>2, <1>3
<1> HIDE DEF a
<1>5. /\ i + Len(a) \in Nat /\ i + Len(a) <= j /\ i + Len(a) + Len(b) = j
      /\ a = Part(t, i, i + Len(a)) /\ \A n \in 1..Len(b) : b[n] = t[i + Len(a) + n]
  <2> IsTwo(t, i, j, a, b)
    BY <1>4 DEF IsTwo
  <2> QED
    BY Split
<1>6. i + Len(a) = j - 1 /\ j - 1 \in Nat /\ 1 \in 1..Len(b) /\ i <= j - 1 /\ j - 1 <= Len(t)
  <2>1. Len(a) \in Nat /\ Len(b) = 1 /\ Len(t) \in Nat
    BY <1>1, <1>4, LenProperties
  <2>2. i + Len(a) + 1 = j
    BY <1>5, <2>1
  <2> HIDE <1>a
  <2>3. i \in Nat /\ j \in Nat /\ j <= Len(t)
    BY <1>a
  <2> QED
    BY <2>1, <2>2, <2>3
<1>7. t[j] = c
  <2>1. i + Len(a) + 1 = j
    BY <1>6
  <2>2. b[1] = t[i + Len(a) + 1]
    BY <1>5, <1>6
  <2> QED
    BY <1>1, <2>1, <2>2
<1>8. Part(t, i, j - 1) = u \o x
  BY <1>5, <1>6 DEF a
<1> DEFINE l == j - 1
<1>9. /\ i + Len(u) + Len(x) = l
      /\ x = Part(t, i + Len(u), l) /\ \A n \in 1..Len(u) : u[n] = t[i + n]
  <2>1. IsTwo(t, i, l, u, x)
    BY <1>1, <1>6, <1>8 DEF IsTwo
  <2> HIDE DEF l
  <2>2. i + Len(u) + Len(x) = l
    BY <2>1, Split
  <2>3. x = Part(t, i + Len(u), l)
    BY <2>1, Split
  <2>4. \A n \in 1..Len(u) : u[n] = t[i + n]
    BY <2>1, Split
  <2> QED
    BY <2>2, <2>3, <2>4
<1>10. 1 \in 1..Len(u) /\ t[i + 1] = o
  BY <1>1, <1>9
<1> QED
  BY <1>1, <1>2, <1>6, <1>7, <1>9, <1>10

LEMMA PartEncloses ==
    ASSUME NEW t \in Seq(Tokens), NEW i \in Nat, NEW j \in Nat, i + 2 <= j, j <= Len(t)
    PROVE  Part(t, i, j) = <<t[i + 1]>> \o Part(t, i + 1, j - 1) \o <<t[j]>>
<1>1. i + 1 \in Nat /\ j - 1 \in Nat /\ i + 1 <= j - 1 /\ j - 1 <= j /\ (j - 1) + 1 = j
  OBVIOUS
<1>2. Part(t, i, i + 1) = <<t[i + 1]>> /\ Part(t, j - 1, j) = <<t[j]>>
  <2>1. Part(t, j - 1, (j - 1) + 1) = <<t[(j - 1) + 1]>>
    BY <1>1, PartOfOne
  <2> QED
    BY <1>1, <2>1, PartOfOne
<1>3. Part(t, i, i + 1) \o Part(t, i + 1, j - 1) = Part(t, i, j - 1)
  BY <1>1, Glue
<1>4. Part(t, i, j - 1) \o Part(t, j - 1, j) = Part(t, i, j)
  BY <1>1, Glue
<1> QED
  BY <1>2, <1>3, <1>4

\* The part of t between two places is a, m and b.
IsThree(t, i, j, a, m, b) ==
    /\ t \in Seq(Tokens) /\ a \in Seq(Tokens) /\ m \in Seq(Tokens) /\ b \in Seq(Tokens)
    /\ i \in Nat /\ j \in Nat /\ i <= j /\ j <= Len(t)
    /\ Part(t, i, j) = a \o m \o b

LEMMA SeparatedPart ==
    ASSUME NEW t, NEW i, NEW j, NEW a, NEW m, NEW b, IsThree(t, i, j, a, m, b),
           NEW k, NEW l, k = i + Len(a), l = k + Len(m)
    PROVE  /\ k \in Nat /\ i <= k /\ l \in Nat /\ k <= l /\ l <= j /\ l + Len(b) = j
           /\ a = Part(t, i, k) /\ \A n \in 1..Len(m) : m[n] = t[k + n]
           /\ b = Part(t, l, j)
<1> DEFINE am == a \o m
<1>a. /\ t \in Seq(Tokens) /\ a \in Seq(Tokens) /\ m \in Seq(Tokens) /\ b \in Seq(Tokens)
      /\ i \in Nat /\ j \in Nat /\ i <= j /\ j <= Len(t)
  BY DEF IsThree
<1> USE <1>a
<1>1. /\ am \in Seq(Tokens) /\ Len(am) = Len(a) + Len(m)
      /\ Len(a) \in Nat /\ Len(m) \in Nat /\ Len(b) \in Nat
  OBVIOUS
<1>2. Part(t, i, j) = am \o b
  BY DEF IsThree
<1> HIDE DEF am
<1>3. /\ i + Len(am) \in Nat /\ i + Len(am) <= j /\ i + Len(am) + Len(b) = j
      /\ am = Part(t, i, i + Len(am)) /\ b = Part(t, i + Len(am), j)
  <2> IsTwo(t, i, j, am, b)
    BY <1>1, <1>2 DEF IsTwo
  <2> QED
    BY Split
<1>4. i + Len(am) = l /\ l \in Nat /\ k \in Nat /\ i <= k /\ k <= l /\ i <= l /\ l <= Len(t)
  BY <1>1, <1>3
<1>5. Part(t, i, l) = a \o m
  BY <1>3, <1>4 DEF am
<1>6. a = Part(t, i, i + Len(a)) /\ \A n \in 1..Len(m) : m[n] = t[i + Len(a) + n]
  <2> IsTwo(t, i, l, a, m)
    BY <1>4, <1>5 DEF IsTwo
  <2> QED
    BY Split
<1> QED
  BY <1>3, <1>4, <1>6

LEMMA PartSeparates ==
    ASSUME NEW t \in Seq(Tokens), NEW i \in Nat, NEW k \in Nat, NEW j \in Nat,
           i <= k, k + 1 <= j, j <= Len(t)
    PROVE  Part(t, i, j) = Part(t, i, k) \o <<t[k + 1]>> \o Part(t, k + 1, j)
<1>0. k + 1 \in Nat /\ k <= k + 1 /\ i <= k + 1 /\ k + 1 <= Len(t)
  BY LenProperties
<1>1. Part(t, k, k + 1) = <<t[k + 1]>>
  BY <1>0, PartOfOne
<1>2. Part(t, i, k) \o Part(t, k, k + 1) = Part(t, i, k + 1)
  BY <1>0, Glue, Zenon
<1>3. Part(t, i, k + 1) \o Part(t, k + 1, j) = Part(t, i, j)
  BY <1>0, Glue, Zenon
<1> QED
  BY <1>1, <1>2, <1>3

LEMMA PartOfTwo ==
    ASSUME NEW t \in Seq(Tokens), NEW i \in Nat, i + 2 <= Len(t)
    PROVE  Part(t, i, i + 2) = <<t[i + 1], t[i + 2]>>
<1> DEFINE p == Part(t, i, i + 2)
           q == <<t[i + 1], t[i + 2]>>
<1>0. i + 2 \in Nat /\ i <= i + 2 /\ (i + 2) - i = 2
  OBVIOUS
<1>1. p \in Seq(Tokens) /\ Len(p) = (i + 2) - i /\ \A k \in 1..((i + 2) - i) : p[k] = t[i + k]
  BY <1>0, PartProperties, Zenon
<1>2. t[i + 1] \in Tokens /\ t[i + 2] \in Tokens
  BY ElementOfSeq
<1>3. q \in Seq(Tokens) /\ Len(q) = 2 /\ q[1] = t[i + 1] /\ q[2] = t[i + 2]
  BY <1>2
<1> HIDE DEF p, q
<1>4. Len(p) = 2 /\ p[1] = t[i + 1] /\ p[2] = t[i + 2]
  BY <1>0, <1>1
<1>5. \A k \in 1..Len(p) : p[k] = q[k]
  BY <1>3, <1>4
<1> QED
  BY <1>1, <1>3, <1>4, <1>5, SeqEqual DEF p, q

LEMMA PartOfThree ==
    ASSUME NEW t \in Seq(Tokens), NEW i \in Nat, i + 3 <= Len(t)
    PROVE  Part(t, i, i + 3) = <<t[i + 1], t[i + 2], t[i + 3]>>
<1> DEFINE p == Part(t, i, i + 3)
           q == <<t[i + 1], t[i + 2], t[i + 3]>>
<1>0. i + 3 \in Nat /\ i <= i + 3 /\ (i + 3) - i = 3
  OBVIOUS
<1>1. p \in Seq(Tokens) /\ Len(p) = (i + 3) - i /\ \A k \in 1..((i + 3) - i) : p[k] = t[i + k]
  BY <1>0, PartProperties, Zenon
<1>2. t[i + 1] \in Tokens /\ t[i + 2] \in Tokens /\ t[i + 3] \in Tokens
  BY ElementOfSeq
<1>3. /\ q \in Seq(Tokens) /\ Len(q) = 3
      /\ q[1] = t[i + 1] /\ q[2] = t[i + 2] /\ q[3] = t[i + 3]
  BY <1>2
<1> HIDE DEF p, q
<1>4. Len(p) = 3 /\ p[1] = t[i + 1] /\ p[2] = t[i + 2] /\ p[3] = t[i + 3]
  BY <1>0, <1>1
<1>5. \A k \in 1..Len(p) : p[k] = q[k]
  BY <1>3, <1>4
<1> QED
  BY <1>1, <1>3, <1>4, <1>5, SeqEqual DEF p, q

\* Two places of a text.
IsPart(t, i, j) ==
    /\ t \in Seq(Tokens) /\ Len(t) <= MaxTokens
    /\ i \in Nat /\ j \in Nat /\ i <= j /\ j <= Len(t)

\* A rule derives what stands between two places of a text, with this value.
Derives(t, rule, i, j, value) ==
    IsPart(t, i, j) /\ Derived(Part(t, i, j), value) \in JsonOf[j - i][rule]
Spans(t, rule, i, j) == \E value : Derives(t, rule, i, j, value)

LEMMA LengthOfPart ==
    ASSUME NEW t, NEW i, NEW j, IsPart(t, i, j), NEW n, n = j - i
    PROVE  /\ n \in 0..MaxTokens /\ Part(t, i, j) \in Seq(Tokens) /\ Len(Part(t, i, j)) = n
           /\ n = 0 => JsonOf[n].values = {} /\ JsonOf[n].items = {} /\ JsonOf[n].members = {}
           /\ n # 0 => /\ JsonOf[n].values = ValuesOf(JsonOf, n)
                       /\ JsonOf[n].items = ItemsOf(JsonOf, n)
                       /\ JsonOf[n].members = MembersOf(JsonOf, n)
<1>1. /\ t \in Seq(Tokens) /\ Len(t) \in Nat /\ Len(t) <= MaxTokens
      /\ i \in Nat /\ j \in Nat /\ i <= j /\ j <= Len(t)
  BY LenProperties DEF IsPart
<1>2. n \in 0..MaxTokens /\ (n = 0 \/ n \in 1..MaxTokens)
  BY <1>1, ParserAssumption
<1>3. Part(t, i, j) \in Seq(Tokens) /\ Len(Part(t, i, j)) = j - i
  BY <1>1, PartProperties
<1> QED
  BY <1>2, <1>3, RulesUnfold, NothingIsEmpty

LEMMA DerivesSome ==
    ASSUME NEW t, NEW rule \in Rules, NEW i, NEW j, NEW v, Derives(t, rule, i, j, v)
    PROVE  /\ IsPart(t, i, j) /\ t \in Seq(Tokens) /\ Len(t) \in Nat /\ Len(t) <= MaxTokens
           /\ i \in Nat /\ j \in Nat /\ i < j /\ j <= Len(t)
<1>1. IsPart(t, i, j) /\ JsonOf[j - i][rule] # {}
  BY DEF Derives
<1>2. /\ t \in Seq(Tokens) /\ Len(t) \in Nat /\ Len(t) <= MaxTokens
      /\ i \in Nat /\ j \in Nat /\ i <= j /\ j <= Len(t)
  BY <1>1, LenProperties DEF IsPart
<1>3. j - i # 0
  BY <1>1, NothingIsEmpty DEF Rules
<1> QED
  BY <1>1, <1>2, <1>3

LEMMA ScalarDerived ==
    ASSUME NEW t, NEW i, NEW j, IsPart(t, i, j), j = i + 1, t[j] \in Strings \cup Scalars
    PROVE  Derives(t, "values", i, j, Scalar(t[j]))
<1>1. /\ t \in Seq(Tokens) /\ i \in Nat /\ j \in Nat /\ j <= Len(t) /\ 1 = j - i
  BY DEF IsPart
<1>2. Part(t, i, j) = <<t[j]>>
  BY <1>1, PartOfOne
<1>3. JsonOf[1].values = Singles
  <2> DEFINE n == j - i
  <2>1. n = 1 /\ n = j - i
    BY <1>1
  <2> HIDE DEF n
  <2>2. JsonOf[n].values = ValuesOf(JsonOf, n)
    BY <2>1, LengthOfPart
  <2> QED
    BY <2>1, <2>2 DEF ValuesOf
<1>4. Derived(<<t[j]>>, Scalar(t[j])) \in Singles
  BY DEF Singles
<1> QED
  BY <1>1, <1>2, <1>3, <1>4 DEF Derives

LEMMA EmptyDerived ==
    ASSUME NEW t, NEW i, NEW j, IsPart(t, i, j), j = i + 2
    PROVE  /\ t[i + 1] = "lbrace" /\ t[j] = "rbrace" => Derives(t, "values", i, j, Object({}))
           /\ t[i + 1] = "lbracket" /\ t[j] = "rbracket" => Derives(t, "values", i, j, Array(<<>>))
<1>1. /\ t \in Seq(Tokens) /\ i \in Nat /\ j \in Nat /\ j <= Len(t) /\ 2 = j - i
  BY DEF IsPart
<1>2. Part(t, i, j) = <<t[i + 1], t[j]>>
  BY <1>1, PartOfTwo
<1>3. JsonOf[2].values = Empties
  <2> DEFINE n == j - i
  <2>1. n = 2 /\ n = j - i
    BY <1>1
  <2> HIDE DEF n
  <2>2. JsonOf[n].values = ValuesOf(JsonOf, n)
    BY <2>1, LengthOfPart
  <2> QED
    BY <2>1, <2>2 DEF ValuesOf
<1>4. /\ Derived(<<"lbrace", "rbrace">>, Object({})) \in Empties
      /\ Derived(<<"lbracket", "rbracket">>, Array(<<>>)) \in Empties
  BY DEF Empties
<1> QED
  BY <1>1, <1>2, <1>3, <1>4 DEF Derives

LEMMA ArrayDerived ==
    ASSUME NEW t, NEW i, NEW j, NEW k, NEW l, NEW v, IsPart(t, i, j), k = i + 1, l = j - 1,
           t[k] = "lbracket", t[j] = "rbracket", Derives(t, "items", k, l, v)
    PROVE  Derives(t, "values", i, j, Array(v))
<1>1. /\ t \in Seq(Tokens) /\ i \in Nat /\ j \in Nat /\ j <= Len(t)
      /\ k \in Nat /\ l \in Nat /\ k < l
  BY DerivesSome DEF Rules, IsPart
<1> DEFINE n == j - i
           d == Derived(Part(t, k, l), v)
<1>2. n \in Nat /\ n >= 3 /\ n - 2 = l - k /\ i + 2 <= j /\ n = j - i
  BY <1>1
<1> HIDE DEF n
<1>3. JsonOf[n].values = Arrays(JsonOf[n - 2].items) \cup Objects(JsonOf[n - 2].members)
  <2>1. JsonOf[n].values = ValuesOf(JsonOf, n)
    BY <1>2, LengthOfPart
  <2> QED
    BY <1>2, <2>1 DEF ValuesOf
<1>4. d \in JsonOf[n - 2].items /\ d.text = Part(t, k, l) /\ d.value = v
  BY <1>2, DerivedIs DEF Derives
<1> HIDE DEF d
<1>5. Derived(<<"lbracket">> \o d.text \o <<"rbracket">>, Array(d.value)) \in JsonOf[n].values
  BY <1>3, <1>4 DEF Arrays
<1>6. Part(t, i, j) = <<"lbracket">> \o Part(t, k, l) \o <<"rbracket">>
  BY <1>1, <1>2, PartEncloses
<1> QED
  BY <1>2, <1>4, <1>5, <1>6 DEF Derives

LEMMA ObjectDerived ==
    ASSUME NEW t, NEW i, NEW j, NEW k, NEW l, NEW v, IsPart(t, i, j), k = i + 1, l = j - 1,
           t[k] = "lbrace", t[j] = "rbrace", Derives(t, "members", k, l, v)
    PROVE  Derives(t, "values", i, j, Object(v))
<1>1. /\ t \in Seq(Tokens) /\ i \in Nat /\ j \in Nat /\ j <= Len(t)
      /\ k \in Nat /\ l \in Nat /\ k < l
  BY DerivesSome DEF Rules, IsPart
<1> DEFINE n == j - i
           d == Derived(Part(t, k, l), v)
<1>2. n \in Nat /\ n >= 3 /\ n - 2 = l - k /\ i + 2 <= j /\ n = j - i
  BY <1>1
<1> HIDE DEF n
<1>3. JsonOf[n].values = Arrays(JsonOf[n - 2].items) \cup Objects(JsonOf[n - 2].members)
  <2>1. JsonOf[n].values = ValuesOf(JsonOf, n)
    BY <1>2, LengthOfPart
  <2> QED
    BY <1>2, <2>1 DEF ValuesOf
<1>4. d \in JsonOf[n - 2].members /\ d.text = Part(t, k, l) /\ d.value = v
  BY <1>2, DerivedIs DEF Derives
<1> HIDE DEF d
<1>5. Derived(<<"lbrace">> \o d.text \o <<"rbrace">>, Object(d.value)) \in JsonOf[n].values
  BY <1>3, <1>4 DEF Objects
<1>6. Part(t, i, j) = <<"lbrace">> \o Part(t, k, l) \o <<"rbrace">>
  BY <1>1, <1>2, PartEncloses
<1> QED
  BY <1>2, <1>4, <1>5, <1>6 DEF Derives

LEMMA ItemDerived ==
    ASSUME NEW t, NEW i, NEW j, NEW v, Derives(t, "values", i, j, v)
    PROVE  Derives(t, "items", i, j, <<v>>)
<1>1. /\ IsPart(t, i, j) /\ i \in Nat /\ j \in Nat /\ i < j
  BY DerivesSome DEF Rules
<1> DEFINE n == j - i
           d == Derived(Part(t, i, j), v)
<1>2. n # 0 /\ n = j - i
  BY <1>1
<1> HIDE DEF n
<1>3. JsonOf[n].values = ValuesOf(JsonOf, n) /\ JsonOf[n].items = ItemsOf(JsonOf, n)
  BY <1>1, <1>2, LengthOfPart
<1>4. d \in ValuesOf(JsonOf, n) /\ d.text = Part(t, i, j) /\ d.value = v
  BY <1>2, <1>3, DerivedIs DEF Derives
<1> HIDE DEF d
<1>5. Derived(d.text, <<d.value>>) \in ItemsOf(JsonOf, n)
  BY <1>4 DEF ItemsOf, OneItem
<1> QED
  BY <1>1, <1>2, <1>3, <1>4, <1>5 DEF Derives

LEMMA NextItemDerived ==
    ASSUME NEW t, NEW i, NEW k, NEW l, NEW j, NEW s, NEW v, l = k + 1,
           Derives(t, "items", i, k, s), t[l] = "comma", Derives(t, "values", l, j, v)
    PROVE  Derives(t, "items", i, j, Append(s, v))
<1>1. /\ t \in Seq(Tokens) /\ Len(t) <= MaxTokens /\ Len(t) \in Nat
      /\ i \in Nat /\ j \in Nat /\ j <= Len(t) /\ k \in Nat /\ l \in Nat /\ i < k /\ l < j
  BY DerivesSome DEF Rules
<1>2. IsPart(t, i, j)
  BY <1>1 DEF IsPart
<1> DEFINE n == j - i
           m == j - l
           x == Derived(Part(t, i, k), s)
           y == Derived(Part(t, l, j), v)
<1>3. n # 0 /\ n = j - i /\ m \in 1..(n - 1) /\ n - 1 - m = k - i /\ m = j - l
  BY <1>1
<1> HIDE DEF n, m
<1>4. JsonOf[n].items = ItemsOf(JsonOf, n)
  BY <1>2, <1>3, LengthOfPart
<1>5. /\ x \in JsonOf[n - 1 - m].items /\ x.text = Part(t, i, k) /\ x.value = s
      /\ y \in JsonOf[m].values /\ y.text = Part(t, l, j) /\ y.value = v
  BY <1>3, DerivedIs DEF Derives
<1> HIDE DEF x, y
<1> DEFINE e == Derived(x.text \o <<"comma">> \o y.text, Append(x.value, y.value))
<1>6. e \in MoreItems(JsonOf[n - 1 - m].items, JsonOf[m].values)
  BY <1>5, MoreItemsAre
<1>7. Part(t, i, j) = Part(t, i, k) \o <<"comma">> \o Part(t, l, j)
  BY <1>1, PartSeparates
<1>8. e = Derived(Part(t, i, j), Append(s, v))
  BY <1>5, <1>7
<1> HIDE DEF e
<1>9. e \in ItemsOf(JsonOf, n)
  BY <1>3, <1>6 DEF ItemsOf
<1> QED
  BY <1>2, <1>3, <1>4, <1>8, <1>9 DEF Derives

LEMMA MemberDerived ==
    ASSUME NEW t, NEW i, NEW l, NEW j, NEW v, i \in Nat, l = i + 2,
           t[i + 1] \in Strings, t[l] = "colon", Derives(t, "values", l, j, v)
    PROVE  Derives(t, "members", i, j, {<<t[i + 1], v>>})
<1>1. /\ t \in Seq(Tokens) /\ Len(t) <= MaxTokens /\ Len(t) \in Nat
      /\ i \in Nat /\ j \in Nat /\ j <= Len(t) /\ l \in Nat /\ l < j /\ i <= l /\ l <= j /\ i + 2 <= Len(t)
  BY DerivesSome DEF Rules
<1>2. IsPart(t, i, j)
  BY <1>1 DEF IsPart
<1> DEFINE n == j - i
           y == Derived(Part(t, l, j), v)
           key == t[i + 1]
<1>3. n >= 3 /\ n # 0 /\ n = j - i /\ n - 2 = j - l
  BY <1>1
<1> HIDE DEF n
<1>4. JsonOf[n].members = MembersOf(JsonOf, n)
  BY <1>2, <1>3, LengthOfPart
<1>5. y \in JsonOf[n - 2].values /\ y.text = Part(t, l, j) /\ y.value = v
  BY <1>3, DerivedIs DEF Derives
<1> HIDE DEF y
<1>6. key \in Strings
  OBVIOUS
<1>7. Part(t, i, j) = <<key, "colon">> \o Part(t, l, j)
  <2>1. Part(t, i, l) = <<key, "colon">>
    BY <1>1, PartOfTwo
  <2>2. Part(t, i, l) \o Part(t, l, j) = Part(t, i, j)
    BY <1>1, Glue
  <2> QED
    BY <2>1, <2>2
<1> HIDE DEF key
<1> DEFINE e == Derived(<<key, "colon">> \o y.text, {<<key, y.value>>})
<1>8. e \in OneMember(JsonOf[n - 2].values)
  BY <1>5, <1>6, OneMemberIs
<1>9. e = Derived(Part(t, i, j), {<<key, v>>})
  BY <1>5, <1>7
<1> HIDE DEF e
<1>10. e \in MembersOf(JsonOf, n)
  BY <1>3, <1>8 DEF MembersOf
<1> QED
  BY <1>2, <1>3, <1>4, <1>9, <1>10 DEF Derives, key

LEMMA NextMemberDerived ==
    ASSUME NEW t, NEW i, NEW k, NEW l, NEW j, NEW s, NEW v, l = k + 3,
           Derives(t, "members", i, k, s), t[k + 1] = "comma", t[k + 2] \in Strings,
           t[l] = "colon", Derives(t, "values", l, j, v)
    PROVE  Derives(t, "members", i, j, Emplace(s, t[k + 2], v))
<1>1. /\ t \in Seq(Tokens) /\ Len(t) <= MaxTokens /\ Len(t) \in Nat
      /\ i \in Nat /\ j \in Nat /\ j <= Len(t) /\ k \in Nat /\ l \in Nat /\ i < k /\ l < j
      /\ i <= k /\ k <= l /\ i <= l /\ l <= j /\ l <= Len(t) /\ k + 3 <= Len(t)
  BY DerivesSome DEF Rules
<1>2. IsPart(t, i, j)
  BY <1>1 DEF IsPart
<1> DEFINE n == j - i
           m == j - l
           x == Derived(Part(t, i, k), s)
           y == Derived(Part(t, l, j), v)
           key == t[k + 2]
<1>3. n >= 3 /\ n # 0 /\ n = j - i /\ m \in 1..(n - 3) /\ n - 3 - m = k - i /\ m = j - l
  BY <1>1
<1> HIDE DEF n, m
<1>4. JsonOf[n].members = MembersOf(JsonOf, n)
  BY <1>2, <1>3, LengthOfPart
<1>5. /\ x \in JsonOf[n - 3 - m].members /\ x.text = Part(t, i, k) /\ x.value = s
      /\ y \in JsonOf[m].values /\ y.text = Part(t, l, j) /\ y.value = v
  BY <1>3, DerivedIs DEF Derives
<1> HIDE DEF x, y
<1>6. key \in Strings
  OBVIOUS
<1>7. Part(t, i, j) = Part(t, i, k) \o <<"comma", key, "colon">> \o Part(t, l, j)
  <2>1. Part(t, k, l) = <<"comma", key, "colon">>
    BY <1>1, PartOfThree
  <2>2. Part(t, i, k) \o Part(t, k, l) = Part(t, i, l)
    BY <1>1, Glue
  <2>3. Part(t, i, l) \o Part(t, l, j) = Part(t, i, j)
    BY <1>1, Glue
  <2> QED
    BY <2>1, <2>2, <2>3
<1> HIDE DEF key
<1> DEFINE e == Derived(x.text \o <<"comma", key, "colon">> \o y.text, Emplace(x.value, key, y.value))
<1>8. e \in MoreMembers(JsonOf[n - 3 - m].members, JsonOf[m].values)
  <2>1. e \in OneMore(x, key, y)
    BY EmplaceAdds DEF OneMore
  <2> QED
    BY <1>5, <1>6, <2>1, MoreMembersAre
<1>9. e = Derived(Part(t, i, j), Emplace(s, key, v))
  BY <1>5, <1>7
<1> HIDE DEF e
<1>10. e \in MembersOf(JsonOf, n)
  <2> DEFINE F(q) == MoreMembers(JsonOf[n - 3 - q].members, JsonOf[q].values)
  <2>1. MembersOf(JsonOf, n) = OneMember(JsonOf[n - 2].values) \cup UNION {F(q) : q \in 1..(n - 3)}
    BY <1>3 DEF MembersOf
  <2>2. e \in F(m)
    BY <1>8
  <2> HIDE DEF F
  <2> QED
    BY <1>3, <2>1, <2>2
<1> QED
  BY <1>2, <1>3, <1>4, <1>9, <1>10 DEF Derives, key

LEMMA DerivedOnce ==
    ASSUME NEW x, NEW v, NEW y, NEW w, Derived(x, v) = Derived(y, w)
    PROVE  x = y /\ v = w
BY DerivedIs

LEMMA SpansPart ==
    ASSUME NEW rule \in Rules, NEW n \in 0..MaxTokens, NEW d \in JsonOf[n][rule],
           NEW t, NEW i, NEW j, IsPart(t, i, j), n = j - i, d.text = Part(t, i, j)
    PROVE  Spans(t, rule, i, j)
<1>1. d = Derived(d.text, d.value)
  BY DerivedFits DEF Fits
<1> QED
  BY <1>1 DEF Spans, Derives

LEMMA ValueIs ==
    ASSUME NEW t, NEW i, NEW j, Spans(t, "values", i, j)
    PROVE  \/ j = i + 1 /\ t[j] \in Strings \cup Scalars
           \/ /\ i + 2 <= j /\ t[i + 1] = "lbracket" /\ t[j] = "rbracket"
              /\ j = i + 2 \/ Spans(t, "items", i + 1, j - 1)
           \/ /\ i + 2 <= j /\ t[i + 1] = "lbrace" /\ t[j] = "rbrace"
              /\ j = i + 2 \/ Spans(t, "members", i + 1, j - 1)
<1>0. PICK v : Derives(t, "values", i, j, v)
  BY DEF Spans
<1>1. /\ IsPart(t, i, j) /\ t \in Seq(Tokens) /\ Len(t) \in Nat /\ Len(t) <= MaxTokens
      /\ i \in Nat /\ j \in Nat /\ i < j /\ i <= j /\ j <= Len(t)
  BY <1>0, DerivesSome DEF Rules
<1> DEFINE n == j - i
           e == Derived(Part(t, i, j), v)
<1>2. n = j - i /\ n \in Nat /\ n # 0
  BY <1>1
<1> HIDE DEF n
<1>3. e \in ValuesOf(JsonOf, n)
  BY <1>0, <1>1, <1>2, LengthOfPart DEF Derives
<1>4. CASE n = 1
  <2>1. PICK x \in Strings \cup Scalars : e = Derived(<<x>>, Scalar(x))
    BY <1>3, <1>4 DEF ValuesOf, Singles
  <2>2. Part(t, i, j) = <<x>>
    BY <2>1, DerivedOnce
  <2>3. j = i + 1 /\ Part(t, i, j) = <<t[j]>>
    BY <1>1, <1>2, <1>4, PartOfOne
  <2>4. t[j] = x
    BY <2>2, <2>3
  <2> QED
    BY <2>3, <2>4
<1>5. CASE n = 2
  <2>1. e \in Empties
    BY <1>3, <1>5 DEF ValuesOf
  <2>2. j = i + 2 /\ Part(t, i, j) = <<t[i + 1], t[j]>>
    BY <1>1, <1>2, <1>5, PartOfTwo
  <2>3. Part(t, i, j) = <<"lbrace", "rbrace">> \/ Part(t, i, j) = <<"lbracket", "rbracket">>
    BY <2>1, DerivedOnce DEF Empties
  <2> QED
    BY <1>1, <2>2, <2>3
<1>6. CASE n >= 3
  <2> DEFINE k == i + 1
             l == j - 1
  <2>1. /\ k \in Nat /\ l \in Nat /\ i + 2 <= j /\ j # i + 2 /\ n - 2 = l - k /\ n - 2 \in 0..MaxTokens
        /\ k <= l /\ l <= Len(t)
    BY <1>1, <1>2, <1>6, ParserAssumption
  <2>2. IsPart(t, k, l)
    BY <1>1, <2>1 DEF IsPart
  <2>3. e \in Arrays(JsonOf[n - 2].items) \/ e \in Objects(JsonOf[n - 2].members)
    BY <1>3, <1>6 DEF ValuesOf
  <2>4. ASSUME NEW x \in JsonOf[n - 2].items,
               e = Derived(<<"lbracket">> \o x.text \o <<"rbracket">>, Array(x.value))
        PROVE  t[k] = "lbracket" /\ t[j] = "rbracket" /\ Spans(t, "items", k, l)
    <3>1. x.text \in Seq(Tokens)
      BY <2>1, DerivedFits DEF Rules, Fits
    <3>2. Part(t, i, j) = <<"lbracket">> \o x.text \o <<"rbracket">>
      BY <2>4, DerivedOnce
    <3>3. t[k] = "lbracket" /\ t[j] = "rbracket" /\ x.text = Part(t, k, l)
      <4>1. IsEnclosed(t, i, j, "lbracket", x.text, "rbracket")
        BY <1>1, <3>1, <3>2, TokensAre DEF IsEnclosed
      <4> QED
        BY <4>1, EnclosedPart
    <3> HIDE DEF k, l
    <3> QED
      BY <2>1, <2>2, <3>3, SpansPart DEF Rules
  <2>5. ASSUME NEW x \in JsonOf[n - 2].members,
               e = Derived(<<"lbrace">> \o x.text \o <<"rbrace">>, Object(x.value))
        PROVE  t[k] = "lbrace" /\ t[j] = "rbrace" /\ Spans(t, "members", k, l)
    <3>1. x.text \in Seq(Tokens)
      BY <2>1, DerivedFits DEF Rules, Fits
    <3>2. Part(t, i, j) = <<"lbrace">> \o x.text \o <<"rbrace">>
      BY <2>5, DerivedOnce
    <3>3. t[k] = "lbrace" /\ t[j] = "rbrace" /\ x.text = Part(t, k, l)
      <4>1. IsEnclosed(t, i, j, "lbrace", x.text, "rbrace")
        BY <1>1, <3>1, <3>2, TokensAre DEF IsEnclosed
      <4> QED
        BY <4>1, EnclosedPart
    <3> HIDE DEF k, l
    <3> QED
      BY <2>1, <2>2, <3>3, SpansPart DEF Rules
  <2> HIDE DEF e
  <2> QED
    BY <2>1, <2>3, <2>4, <2>5 DEF Arrays, Objects
<1> QED
  BY <1>2, <1>4, <1>5, <1>6

LEMMA ItemsAre ==
    ASSUME NEW t, NEW i, NEW j, Spans(t, "items", i, j)
    PROVE  \/ Spans(t, "values", i, j)
           \/ \E k \in Nat : /\ Spans(t, "items", i, k) /\ t[k + 1] = "comma"
                             /\ Spans(t, "values", k + 1, j)
<1>0. PICK v : Derives(t, "items", i, j, v)
  BY DEF Spans
<1>1. /\ IsPart(t, i, j) /\ t \in Seq(Tokens) /\ Len(t) \in Nat /\ Len(t) <= MaxTokens
      /\ i \in Nat /\ j \in Nat /\ i < j /\ i <= j /\ j <= Len(t)
  BY <1>0, DerivesSome DEF Rules
<1> DEFINE n == j - i
           e == Derived(Part(t, i, j), v)
<1>2. n = j - i /\ n \in Nat /\ n # 0
  BY <1>1
<1> HIDE DEF n
<1>3. e \in ItemsOf(JsonOf, n) /\ JsonOf[n].values = ValuesOf(JsonOf, n) /\ n \in 0..MaxTokens
  BY <1>0, <1>1, <1>2, LengthOfPart DEF Derives
<1>4. CASE e \in OneItem(ValuesOf(JsonOf, n))
  <2>1. PICK x \in JsonOf[n].values : e = Derived(x.text, <<x.value>>)
    BY <1>3, <1>4 DEF OneItem
  <2>2. x.text = Part(t, i, j)
    BY <2>1, DerivedOnce
  <2> QED
    BY <1>1, <1>2, <1>3, <2>2, SpansPart DEF Rules
<1>5. ASSUME NEW m \in 1..(n - 1), e \in MoreItems(JsonOf[n - 1 - m].items, JsonOf[m].values)
      PROVE  \E k \in Nat : /\ Spans(t, "items", i, k) /\ t[k + 1] = "comma"
                            /\ Spans(t, "values", k + 1, j)
  <2>1. PICK x \in JsonOf[n - 1 - m].items, y \in JsonOf[m].values :
           e = Derived(x.text \o <<"comma">> \o y.text, Append(x.value, y.value))
    BY <1>5, MoreItemsAre
  <2>2. n - 1 - m \in 0..MaxTokens /\ m \in 0..MaxTokens
    BY <1>3, ParserAssumption
  <2> DEFINE a == x.text
             b == y.text
             c == <<"comma">>
  <2>3. a \in Seq(Tokens) /\ Len(a) = n - 1 - m /\ b \in Seq(Tokens) /\ Len(b) = m
    BY <2>2, DerivedFits DEF Rules, Fits
  <2>4. c \in Seq(Tokens) /\ Len(c) = 1 /\ c[1] = "comma"
    BY Marks
  <2>5. Part(t, i, j) = a \o c \o b
    BY <2>1, DerivedOnce
  <2> HIDE DEF a, b, c
  <2> DEFINE k == i + Len(a)
             l == k + Len(c)
  <2>6. /\ k \in Nat /\ i <= k /\ l \in Nat /\ k <= l /\ l <= j /\ l + Len(b) = j
        /\ a = Part(t, i, k) /\ (\A q \in 1..Len(c) : c[q] = t[k + q]) /\ b = Part(t, l, j)
    <3>1. IsThree(t, i, j, a, c, b)
      BY <1>1, <2>3, <2>4, <2>5 DEF IsThree
    <3>2. k = i + Len(a) /\ l = k + Len(c)
      OBVIOUS
    <3> HIDE DEF k, l
    <3> QED
      BY <3>1, <3>2, SeparatedPart
  <2>7. l = k + 1 /\ t[k + 1] = "comma" /\ n - 1 - m = k - i /\ m = j - l /\ k <= Len(t)
    <3>1. k = i + Len(a) /\ l = k + Len(c) /\ 1 \in 1..Len(c)
      BY <2>4
    <3> HIDE DEF k, l
    <3>2. t[k + 1] = "comma"
      BY <2>4, <2>6, <3>1
    <3>3. l = k + 1 /\ n - 1 - m = k - i /\ m = j - l /\ k <= Len(t)
      BY <1>1, <1>2, <2>3, <2>4, <2>6, <3>1
    <3> QED
      BY <3>2, <3>3
  <2> HIDE DEF k, l
  <2>8. IsPart(t, i, k) /\ IsPart(t, l, j)
    BY <1>1, <2>6, <2>7 DEF IsPart
  <2>9. Spans(t, "items", i, k)
    BY <2>2, <2>6, <2>7, <2>8, SpansPart DEF Rules, a
  <2>10. Spans(t, "values", l, j)
    BY <2>2, <2>6, <2>7, <2>8, SpansPart DEF Rules, b
  <2> QED
    BY <2>6, <2>7, <2>9, <2>10
<1> HIDE DEF e
<1> QED
  BY <1>3, <1>4, <1>5 DEF ItemsOf

LEMMA MembersAre ==
    ASSUME NEW t, NEW i, NEW j, Spans(t, "members", i, j)
    PROVE  \/ t[i + 1] \in Strings /\ t[i + 2] = "colon" /\ Spans(t, "values", i + 2, j)
           \/ \E k \in Nat : /\ Spans(t, "members", i, k) /\ t[k + 1] = "comma"
                             /\ t[k + 2] \in Strings /\ t[k + 3] = "colon"
                             /\ Spans(t, "values", k + 3, j)
<1>0. PICK v : Derives(t, "members", i, j, v)
  BY DEF Spans
<1>1. /\ IsPart(t, i, j) /\ t \in Seq(Tokens) /\ Len(t) \in Nat /\ Len(t) <= MaxTokens
      /\ i \in Nat /\ j \in Nat /\ i < j /\ i <= j /\ j <= Len(t)
  BY <1>0, DerivesSome DEF Rules
<1> DEFINE n == j - i
           e == Derived(Part(t, i, j), v)
<1>2. n = j - i /\ n \in Nat /\ n # 0
  BY <1>1
<1> HIDE DEF n
<1>3. e \in MembersOf(JsonOf, n) /\ n \in 0..MaxTokens
  BY <1>0, <1>1, <1>2, LengthOfPart DEF Derives
<1>4. n >= 3
  BY <1>2, <1>3 DEF MembersOf
<1> DEFINE F(q) == MoreMembers(JsonOf[n - 3 - q].members, JsonOf[q].values)
<1>5. MembersOf(JsonOf, n) = OneMember(JsonOf[n - 2].values) \cup UNION {F(q) : q \in 1..(n - 3)}
  BY <1>2, <1>4 DEF MembersOf
<1>6. CASE e \in OneMember(JsonOf[n - 2].values)
  <2>1. PICK key \in Strings, y \in JsonOf[n - 2].values :
           e = Derived(<<key, "colon">> \o y.text, {<<key, y.value>>})
    BY <1>6, OneMemberIs
  <2>2. n - 2 \in 0..MaxTokens
    BY <1>3, <1>4, ParserAssumption
  <2> DEFINE a == <<key, "colon">>
             b == y.text
  <2>3. b \in Seq(Tokens) /\ Len(b) = n - 2
    BY <2>2, DerivedFits DEF Rules, Fits
  <2>4. a \in Seq(Tokens) /\ Len(a) = 2 /\ a[1] = key /\ a[2] = "colon"
    BY Marks
  <2>5. Part(t, i, j) = a \o b
    BY <2>1, DerivedOnce
  <2> HIDE DEF a, b
  <2>6. IsTwo(t, i, j, a, b)
    BY <1>1, <2>3, <2>4, <2>5 DEF IsTwo
  <2> DEFINE l == i + Len(a)
  <2>7. /\ l \in Nat /\ l <= j /\ l + Len(b) = j /\ b = Part(t, l, j)
        /\ \A q \in 1..Len(a) : a[q] = t[i + q]
    BY <2>6, Split
  <2>8. l = i + 2 /\ t[i + 1] = key /\ t[i + 2] = "colon" /\ n - 2 = j - l
    BY <1>1, <2>3, <2>4, <2>7
  <2> HIDE DEF l
  <2>9. IsPart(t, l, j)
    BY <1>1, <2>7 DEF IsPart
  <2>10. Spans(t, "values", l, j)
    BY <2>2, <2>7, <2>8, <2>9, SpansPart DEF Rules, b
  <2> QED
    BY <2>8, <2>10
<1>7. ASSUME NEW m \in 1..(n - 3), e \in F(m)
      PROVE  \E k \in Nat : /\ Spans(t, "members", i, k) /\ t[k + 1] = "comma"
                            /\ t[k + 2] \in Strings /\ t[k + 3] = "colon"
                            /\ Spans(t, "values", k + 3, j)
  <2> DEFINE members == JsonOf[n - 3 - m].members
             values == JsonOf[m].values
  <2>0. e \in MoreMembers(members, values)
    BY <1>7
  <2> HIDE DEF members, values, e
  <2>a. PICK x \in members, key \in Strings, y \in values : e \in OneMore(x, key, y)
    BY <2>0, MoreMembersAre
  <2>1. PICK w : e = Derived(x.text \o <<"comma", key, "colon">> \o y.text, w)
    BY <2>a DEF OneMore
  <2> USE DEF members, values, e
  <2>2. n - 3 - m \in 0..MaxTokens /\ m \in 0..MaxTokens
    BY <1>3, <1>4, ParserAssumption
  <2> DEFINE a == x.text
             b == y.text
             c == <<"comma", key, "colon">>
  <2>3. a \in Seq(Tokens) /\ Len(a) = n - 3 - m /\ b \in Seq(Tokens) /\ Len(b) = m
    BY <2>2, DerivedFits DEF Rules, Fits
  <2>4. c \in Seq(Tokens) /\ Len(c) = 3 /\ c[1] = "comma" /\ c[2] = key /\ c[3] = "colon"
    BY Marks
  <2>5. Part(t, i, j) = a \o c \o b
    BY <2>1, DerivedOnce
  <2> HIDE DEF a, b, c
  <2> DEFINE k == i + Len(a)
             l == k + Len(c)
  <2>6. /\ k \in Nat /\ i <= k /\ l \in Nat /\ k <= l /\ l <= j /\ l + Len(b) = j
        /\ a = Part(t, i, k) /\ (\A q \in 1..Len(c) : c[q] = t[k + q]) /\ b = Part(t, l, j)
    <3>1. IsThree(t, i, j, a, c, b)
      BY <1>1, <2>3, <2>4, <2>5 DEF IsThree
    <3>2. k = i + Len(a) /\ l = k + Len(c)
      OBVIOUS
    <3> HIDE DEF k, l
    <3> QED
      BY <3>1, <3>2, SeparatedPart
  <2>7. /\ l = k + 3 /\ t[k + 1] = "comma" /\ t[k + 2] = key /\ t[k + 3] = "colon"
        /\ n - 3 - m = k - i /\ m = j - l /\ k <= Len(t)
    <3>1. k = i + Len(a) /\ l = k + Len(c) /\ {1, 2, 3} \subseteq 1..Len(c)
      BY <2>4
    <3> HIDE DEF k, l
    <3>2. t[k + 1] = "comma" /\ t[k + 2] = key /\ t[k + 3] = "colon"
      BY <2>4, <2>6, <3>1
    <3>3. l = k + 3 /\ n - 3 - m = k - i /\ m = j - l /\ k <= Len(t)
      BY <1>1, <1>2, <2>3, <2>4, <2>6, <3>1
    <3> QED
      BY <3>2, <3>3
  <2> HIDE DEF k, l
  <2>8. IsPart(t, i, k) /\ IsPart(t, l, j)
    BY <1>1, <2>6, <2>7 DEF IsPart
  <2>9. Spans(t, "members", i, k)
    BY <2>2, <2>6, <2>7, <2>8, SpansPart DEF Rules, a
  <2>10. Spans(t, "values", l, j)
    BY <2>2, <2>6, <2>7, <2>8, SpansPart DEF Rules, b
  <2> QED
    BY <2>6, <2>7, <2>9, <2>10
<1> HIDE DEF e, F
<1> QED
  BY <1>3, <1>5, <1>6, <1>7

-----------------------------------------------------------------------------
(* What a rule of the grammar spans, from its first entry on *)

LEMMA SeqIsList ==
    ASSUME NEW S, NEW s \in Seq(S)
    PROVE  IsList(s)
BY DEF IsList, ToSet

LEMMA ReplacedEntry ==
    ASSUME NEW s, NEW e, NEW i, NEW r, IsList(s), i \in 1..Len(s), r = [s EXCEPT ![i] = e]
    PROVE  /\ IsList(r) /\ Len(r) = Len(s) /\ r[i] = e
           /\ \A k \in 1..Len(s) : k # i => r[k] = s[k]
<1>1. s \in Seq(ToSet(s) \cup {e})
  BY DEF IsList
<1>2. r \in Seq(ToSet(s) \cup {e}) /\ Len(r) = Len(s) /\ r[i] = e
  BY <1>1
<1>3. \A k \in 1..Len(s) : k # i => r[k] = s[k]
  BY <1>1
<1>4. IsList(r)
  BY <1>2, SeqIsList
<1> QED
  BY <1>2, <1>3, <1>4

\* The calls around the innermost one.
Outer(open) == SubSeq(open, 1, Len(open) - 1)

LEMMA FirstOnes ==
    ASSUME NEW S, NEW s \in Seq(S), NEW m \in Nat, m <= Len(s)
    PROVE  /\ SubSeq(s, 1, m) \in Seq(S) /\ Len(SubSeq(s, 1, m)) = m
           /\ \A k \in 1..m : SubSeq(s, 1, m)[k] = s[k]
<1>1. \A k \in 1..m : s[k] \in S
  BY ElementOfSeq
<1> DEFINE r == SubSeq(s, 1, m)
<1>2. r \in Seq(S)
  BY <1>1, SubSeqProperties
<1>3. Len(r) = IF 1 <= m THEN m - 1 + 1 ELSE 0
  BY <1>1, SubSeqProperties
<1>4. \A k \in 1..(m - 1 + 1) : r[k] = s[1 + k - 1]
  BY <1>1, SubSeqProperties
<1> HIDE DEF r
<1>5. Len(r) = m
  BY <1>3
<1>6. ASSUME NEW k \in 1..m PROVE r[k] = s[k]
  <2>1. k \in 1..(m - 1 + 1) /\ 1 + k - 1 = k
    OBVIOUS
  <2> QED
    BY <1>4, <2>1
<1> QED
  BY <1>2, <1>5, <1>6 DEF r

LEMMA OuterIs ==
    ASSUME NEW s, IsList(s), s # <<>>
    PROVE  /\ Len(s) \in Nat \ {0} /\ IsList(Outer(s)) /\ Len(Outer(s)) = Len(s) - 1
           /\ \A k \in 1..(Len(s) - 1) : Outer(s)[k] = s[k]
<1>1. s \in Seq(ToSet(s)) /\ Len(s) \in Nat \ {0}
  BY DEF IsList
<1> DEFINE m == Len(s) - 1
<1>2. m \in Nat /\ m <= Len(s)
  BY <1>1
<1> HIDE DEF m
<1>3. /\ SubSeq(s, 1, m) \in Seq(ToSet(s)) /\ Len(SubSeq(s, 1, m)) = m
      /\ \A k \in 1..m : SubSeq(s, 1, m)[k] = s[k]
  BY <1>1, <1>2, FirstOnes
<1>4. IsList(SubSeq(s, 1, m))
  BY <1>3, SeqIsList
<1> QED
  BY <1>1, <1>3, <1>4 DEF m, Outer

LEMMA SpansSome ==
    ASSUME NEW t, NEW rule \in Rules, NEW i, NEW j, Spans(t, rule, i, j)
    PROVE  /\ IsPart(t, i, j) /\ t \in Seq(Tokens) /\ Len(t) \in Nat /\ Len(t) <= MaxTokens
           /\ i \in Nat /\ j \in Nat /\ i < j /\ j <= Len(t)
BY DerivesSome DEF Spans

LEMMA SpansItem ==
    ASSUME NEW t, NEW i, NEW j, Spans(t, "values", i, j)
    PROVE  Spans(t, "items", i, j)
BY ItemDerived DEF Spans

LEMMA SpansNextItem ==
    ASSUME NEW t, NEW i, NEW k, NEW l, NEW j, l = k + 1,
           Spans(t, "items", i, k), t[l] = "comma", Spans(t, "values", l, j)
    PROVE  Spans(t, "items", i, j)
<1>1. PICK s : Derives(t, "items", i, k, s)
  BY DEF Spans
<1>2. PICK v : Derives(t, "values", l, j, v)
  BY DEF Spans
<1>3. Derives(t, "items", i, j, Append(s, v))
  BY <1>1, <1>2, NextItemDerived
<1> QED
  BY <1>3 DEF Spans

LEMMA SpansMember ==
    ASSUME NEW t, NEW i, NEW l, NEW j, i \in Nat, l = i + 2,
           t[i + 1] \in Strings, t[l] = "colon", Spans(t, "values", l, j)
    PROVE  Spans(t, "members", i, j)
<1>1. PICK v : Derives(t, "values", l, j, v)
  BY DEF Spans
<1>2. Derives(t, "members", i, j, {<<t[i + 1], v>>})
  BY <1>1, MemberDerived
<1> QED
  BY <1>2 DEF Spans

LEMMA SpansNextMember ==
    ASSUME NEW t, NEW i, NEW k, NEW l, NEW j, l = k + 3,
           Spans(t, "members", i, k), t[k + 1] = "comma", t[k + 2] \in Strings,
           t[l] = "colon", Spans(t, "values", l, j)
    PROVE  Spans(t, "members", i, j)
<1>1. PICK s : Derives(t, "members", i, k, s)
  BY DEF Spans
<1>2. PICK v : Derives(t, "values", l, j, v)
  BY DEF Spans
<1>3. Derives(t, "members", i, j, Emplace(s, t[k + 2], v))
  BY <1>1, <1>2, NextMemberDerived
<1> QED
  BY <1>3 DEF Spans

\* Items begin with an item, after which they end or go on.
LEMMA ItemsGoOn ==
    ASSUME NEW t, NEW i, NEW j, Spans(t, "items", i, j)
    PROVE  \E k \in Nat : /\ k <= j /\ Spans(t, "values", i, k)
                          /\ k = j \/ (t[k + 1] = "comma" /\ Spans(t, "items", k + 1, j))
<1> DEFINE Good(m) == \E k \in Nat : /\ k <= m /\ Spans(t, "values", i, k)
                                     /\ k = m \/ (t[k + 1] = "comma" /\ Spans(t, "items", k + 1, m))
           Bad == {m \in Nat : Spans(t, "items", i, m) /\ ~Good(m)}
<1>1. ASSUME Bad # {} PROVE FALSE
  <2>1. PICK m \in Bad : \A n \in Bad : m <= n
    BY <1>1, Least
  <2>2. m \in Nat /\ Spans(t, "items", i, m) /\ ~Good(m)
    OBVIOUS
  <2>3. CASE Spans(t, "values", i, m)
    BY <2>2, <2>3
  <2>4. ASSUME NEW n \in Nat, Spans(t, "items", i, n), t[n + 1] = "comma", Spans(t, "values", n + 1, m)
        PROVE  FALSE
    <3>1. n < m
      BY <2>4, SpansSome DEF Rules
    <3>2. Good(n)
      BY <2>1, <2>4, <3>1
    <3>3. PICK k \in Nat : /\ k <= n /\ Spans(t, "values", i, k)
                           /\ k = n \/ (t[k + 1] = "comma" /\ Spans(t, "items", k + 1, n))
      BY <3>2
    <3>4. t[k + 1] = "comma" /\ Spans(t, "items", k + 1, m)
      <4> DEFINE l == n + 1
      <4>1. l = n + 1 /\ t[l] = "comma" /\ Spans(t, "values", l, m)
        BY <2>4
      <4> HIDE DEF l
      <4>2. CASE k = n
        BY <4>1, <4>2, SpansItem
      <4>3. CASE k # n
        BY <3>3, <4>1, <4>3, SpansNextItem
      <4> QED
        BY <4>2, <4>3
    <3> QED
      BY <2>2, <3>1, <3>3, <3>4
  <2> HIDE DEF Good
  <2> QED
    BY <2>2, <2>3, <2>4, ItemsAre
<1>2. j \in Nat
  BY SpansSome DEF Rules
<1> QED
  BY <1>1, <1>2

LEMMA MembersGoOn ==
    ASSUME NEW t, NEW i, NEW j, Spans(t, "members", i, j)
    PROVE  /\ t[i + 1] \in Strings /\ t[i + 2] = "colon"
           /\ \E k \in Nat : /\ k <= j /\ Spans(t, "values", i + 2, k)
                             /\ k = j \/ (t[k + 1] = "comma" /\ Spans(t, "members", k + 1, j))
<1> DEFINE Goes(m) == \E k \in Nat : /\ k <= m /\ Spans(t, "values", i + 2, k)
                                     /\ k = m \/ (t[k + 1] = "comma" /\ Spans(t, "members", k + 1, m))
           Good(m) == t[i + 1] \in Strings /\ t[i + 2] = "colon" /\ Goes(m)
           Bad == {m \in Nat : Spans(t, "members", i, m) /\ ~Good(m)}
<1>1. ASSUME Bad # {} PROVE FALSE
  <2>1. PICK m \in Bad : \A n \in Bad : m <= n
    BY <1>1, Least
  <2>2. m \in Nat /\ Spans(t, "members", i, m) /\ ~Good(m)
    OBVIOUS
  <2>3. CASE t[i + 1] \in Strings /\ t[i + 2] = "colon" /\ Spans(t, "values", i + 2, m)
    BY <2>2, <2>3
  <2>4. ASSUME NEW n \in Nat, Spans(t, "members", i, n), t[n + 1] = "comma",
               t[n + 2] \in Strings, t[n + 3] = "colon", Spans(t, "values", n + 3, m)
        PROVE  FALSE
    <3>1. n < m
      BY <2>4, SpansSome DEF Rules
    <3>2. Good(n)
      BY <2>1, <2>4, <3>1
    <3>3. PICK k \in Nat : /\ k <= n /\ Spans(t, "values", i + 2, k)
                           /\ k = n \/ (t[k + 1] = "comma" /\ Spans(t, "members", k + 1, n))
      BY <3>2
    <3>4. t[k + 1] = "comma" /\ Spans(t, "members", k + 1, m)
      <4> DEFINE l == n + 3
      <4>1. l = n + 3 /\ t[l] = "colon" /\ Spans(t, "values", l, m)
        BY <2>4
      <4> HIDE DEF l
      <4>2. CASE k = n
        <5> DEFINE p == n + 1
        <5>1. p \in Nat /\ l = p + 2 /\ t[p + 1] \in Strings
          BY <2>4, <4>1
        <5> HIDE DEF p
        <5>2. Spans(t, "members", p, m)
          BY <4>1, <5>1, SpansMember
        <5> QED
          BY <2>4, <4>2, <5>2 DEF p
      <4>3. CASE k # n
        BY <2>4, <3>3, <4>1, <4>3, SpansNextMember
      <4> QED
        BY <4>2, <4>3
    <3> QED
      BY <2>2, <3>1, <3>2, <3>3, <3>4
  <2> HIDE DEF Good
  <2> QED
    BY <2>2, <2>3, <2>4, MembersAre
<1>2. j \in Nat
  BY SpansSome DEF Rules
<1> QED
  BY <1>1, <1>2

-----------------------------------------------------------------------------
(* What a text still has after some place: its open calls get their ends *)

Entries(kind) == IF kind = "object" THEN "members" ELSE "items"
Closer(kind) == IF kind = "object" THEN "rbrace" ELSE "rbracket"

\* After an entry that ends at p, an object or array ends at q.
Closes(t, kind, p, q) ==
    /\ p \in Nat /\ q \in Nat /\ p < q /\ q <= Len(t) /\ t[q] = Closer(kind)
    /\ q = p + 1 \/ (t[p + 1] = "comma" /\ Spans(t, Entries(kind), p + 1, q - 1))

\* What was opened at n ends at q.
Fills(t, kind, n, q) ==
    /\ n \in Nat /\ q \in Nat /\ n < q /\ q <= Len(t) /\ t[q] = Closer(kind)
    /\ q = n + 1 \/ Spans(t, Entries(kind), n, q - 1)

\* After a value that ends at p, a text closes what is open and ends.
Rest(t, open, p) ==
    \E e \in [0..Len(open) -> 0..Len(t)] :
        /\ e[Len(open)] = p /\ e[0] = Len(t)
        /\ \A k \in 1..Len(open) : Closes(t, open[k].kind, e[k], e[k - 1])

LEMMA RestIsNothing ==
    ASSUME NEW t \in Seq(Tokens), NEW open, Len(open) = 0, NEW p
    PROVE  Rest(t, open, p) <=> p = Len(t)
<1>1. ASSUME p = Len(t) PROVE Rest(t, open, p)
  <2> DEFINE e == [k \in 0..0 |-> Len(t)]
  <2>1. e \in [0..Len(open) -> 0..Len(t)] /\ e[0] = Len(t)
    BY LenProperties
  <2> HIDE DEF e
  <2>2. \A k \in 1..Len(open) : FALSE
    OBVIOUS
  <2> QED
    BY <1>1, <2>1, <2>2 DEF Rest
<1> QED
  BY <1>1 DEF Rest

LEMMA RestKinds ==
    ASSUME NEW t, NEW a, NEW b, NEW p, Len(a) = Len(b),
           \A k \in 1..Len(a) : a[k].kind = b[k].kind, Rest(t, a, p)
    PROVE  Rest(t, b, p)
BY DEF Rest

LEMMA RestPush ==
    ASSUME NEW t \in Seq(Tokens), NEW open, IsList(open), open # <<>>, NEW p, NEW q,
           Rest(t, Outer(open), q), Closes(t, open[Len(open)].kind, p, q)
    PROVE  Rest(t, open, p)
<1> DEFINE n == Len(open)
           outer == Outer(open)
<1>1. /\ n \in Nat \ {0} /\ Len(outer) = n - 1 /\ \A k \in 1..(n - 1) : outer[k] = open[k]
  BY OuterIs
<1> HIDE DEF n, outer
<1>2. PICK e \in [0..Len(outer) -> 0..Len(t)] :
        /\ e[Len(outer)] = q /\ e[0] = Len(t)
        /\ \A k \in 1..Len(outer) : Closes(t, outer[k].kind, e[k], e[k - 1])
  BY DEF Rest, outer
<1>3. p \in 0..Len(t) /\ Closes(t, open[n].kind, p, q)
  BY LenProperties DEF Closes, n
<1> DEFINE f == [k \in 0..n |-> IF k = n THEN p ELSE e[k]]
<1>4. f \in [0..n -> 0..Len(t)]
  BY <1>1, <1>2, <1>3
<1>5. f[n] = p /\ \A k \in 0..(n - 1) : f[k] = e[k]
  BY <1>1
<1> HIDE DEF f
<1>6. f[0] = Len(t)
  BY <1>1, <1>2, <1>5
<1>7. ASSUME NEW k \in 1..n PROVE Closes(t, open[k].kind, f[k], f[k - 1])
  <2>1. CASE k = n
    BY <1>1, <1>2, <1>3, <1>5, <2>1
  <2>2. CASE k # n
    <3>1. k \in 1..Len(outer) /\ k \in 1..(n - 1) /\ k \in 0..(n - 1) /\ k - 1 \in 0..(n - 1)
      BY <1>1, <2>2
    <3>2. f[k] = e[k] /\ f[k - 1] = e[k - 1] /\ outer[k] = open[k]
      BY <1>1, <1>5, <3>1
    <3>3. Closes(t, outer[k].kind, e[k], e[k - 1])
      BY <1>2, <3>1
    <3> QED
      BY <3>2, <3>3
  <2> QED
    BY <2>1, <2>2
<1> QED
  BY <1>4, <1>5, <1>6, <1>7 DEF Rest, n

LEMMA RestPop ==
    ASSUME NEW t \in Seq(Tokens), NEW open, IsList(open), open # <<>>, NEW p, Rest(t, open, p)
    PROVE  \E q : Closes(t, open[Len(open)].kind, p, q) /\ Rest(t, Outer(open), q)
<1> DEFINE n == Len(open)
           outer == Outer(open)
<1>1. /\ n \in Nat \ {0} /\ Len(outer) = n - 1 /\ \A k \in 1..(n - 1) : outer[k] = open[k]
  BY OuterIs
<1>2. PICK e \in [0..n -> 0..Len(t)] :
        /\ e[n] = p /\ e[0] = Len(t)
        /\ \A k \in 1..n : Closes(t, open[k].kind, e[k], e[k - 1])
  BY DEF Rest
<1> HIDE DEF n, outer
<1> DEFINE f == [k \in 0..(n - 1) |-> e[k]]
<1>3. /\ f \in [0..(n - 1) -> 0..Len(t)] /\ f[n - 1] = e[n - 1] /\ f[0] = Len(t)
      /\ \A k \in 0..(n - 1) : f[k] = e[k]
  BY <1>1, <1>2
<1> HIDE DEF f
<1>4. ASSUME NEW k \in 1..(n - 1) PROVE Closes(t, outer[k].kind, f[k], f[k - 1])
  <2>1. k \in 1..n /\ k \in 0..(n - 1) /\ k - 1 \in 0..(n - 1)
    BY <1>1
  <2> QED
    BY <1>1, <1>2, <1>3, <2>1
<1>5. Rest(t, outer, e[n - 1])
  BY <1>1, <1>3, <1>4 DEF Rest
<1>6. Closes(t, open[n].kind, p, e[n - 1])
  BY <1>1, <1>2
<1> QED
  BY <1>5, <1>6 DEF n, outer

\* An entry that begins what was opened, and what comes after it.
LEMMA ItemThenRest ==
    ASSUME NEW t \in Seq(Tokens), NEW open, IsList(open), open # <<>>,
           open[Len(open)].kind = "array",
           NEW n, NEW q, Fills(t, "array", n, q), q # n + 1, Rest(t, Outer(open), q)
    PROVE  \E j : Spans(t, "values", n, j) /\ Rest(t, open, j)
<1>1. q \in Nat /\ q <= Len(t) /\ t[q] = "rbracket" /\ Spans(t, "items", n, q - 1)
  BY DEF Fills, Closer, Entries
<1>2. PICK k \in Nat : /\ k <= q - 1 /\ Spans(t, "values", n, k)
                       /\ k = q - 1 \/ (t[k + 1] = "comma" /\ Spans(t, "items", k + 1, q - 1))
  BY <1>1, ItemsGoOn
<1>3. Closes(t, "array", k, q)
  BY <1>1, <1>2 DEF Closes, Closer, Entries
<1> QED
  BY <1>2, <1>3, RestPush

LEMMA MemberThenRest ==
    ASSUME NEW t \in Seq(Tokens), NEW open, IsList(open), open # <<>>,
           open[Len(open)].kind = "object",
           NEW n, NEW q, Fills(t, "object", n, q), q # n + 1, Rest(t, Outer(open), q)
    PROVE  /\ t[n + 1] \in Strings /\ t[n + 2] = "colon"
           /\ \E j : Spans(t, "values", n + 2, j) /\ Rest(t, open, j)
<1>1. q \in Nat /\ q <= Len(t) /\ t[q] = "rbrace" /\ Spans(t, "members", n, q - 1)
  BY DEF Fills, Closer, Entries
<1>2. t[n + 1] \in Strings /\ t[n + 2] = "colon"
  BY <1>1, MembersGoOn
<1>3. PICK k \in Nat : /\ k <= q - 1 /\ Spans(t, "values", n + 2, k)
                       /\ k = q - 1 \/ (t[k + 1] = "comma" /\ Spans(t, "members", k + 1, q - 1))
  BY <1>1, MembersGoOn
<1>4. Closes(t, "object", k, q)
  BY <1>1, <1>3 DEF Closes, Closer, Entries
<1> QED
  BY <1>2, <1>3, <1>4, RestPush

LEMMA SeparatorThenRest ==
    ASSUME NEW t \in Seq(Tokens), NEW open, IsList(open), open # <<>>,
           NEW n, Rest(t, open, n)
    PROVE  LET kind == open[Len(open)].kind IN
           /\ n \in Nat /\ n < Len(t) /\ t[n + 1] \in {"comma", Closer(kind)}
           /\ t[n + 1] = Closer(kind) => Rest(t, Outer(open), n + 1)
           /\ t[n + 1] = "comma" =>
                \E q : Fills(t, kind, n + 1, q) /\ q # n + 2 /\ Rest(t, Outer(open), q)
<1> DEFINE kind == open[Len(open)].kind
<1>1. PICK q : Closes(t, kind, n, q) /\ Rest(t, Outer(open), q)
  BY RestPop
<1> HIDE DEF kind
<1>2. Closer(kind) # "comma"
  BY DEF Closer
<1>3. n \in Nat /\ q \in Nat /\ n < q /\ q <= Len(t) /\ t[q] = Closer(kind) /\ Len(t) \in Nat
  BY <1>1, LenProperties DEF Closes
<1>4. CASE q = n + 1
  BY <1>1, <1>2, <1>3, <1>4 DEF kind
<1>5. CASE q # n + 1
  <2>1. t[n + 1] = "comma" /\ Spans(t, Entries(kind), n + 1, q - 1)
    BY <1>1, <1>5 DEF Closes
  <2>2. n + 1 \in Nat /\ n + 1 < q - 1
    BY <1>3, <2>1, SpansSome DEF Rules, Entries
  <2>3. Fills(t, kind, n + 1, q) /\ q # n + 2
    BY <1>3, <2>1, <2>2 DEF Fills
  <2> QED
    BY <1>1, <1>2, <1>3, <2>1, <2>3 DEF kind
<1> QED
  BY <1>4, <1>5

-----------------------------------------------------------------------------
(* Whatever goes on with what was read is a text that the reader goes on with *)

\* An open call.
IsFrame(f) ==
    IF f.kind = "object"
    THEN f = [kind |-> "object", members |-> f.members, key |-> f.key, at |-> f.at]
    ELSE f = [kind |-> "array", items |-> f.items, at |-> f.at]

Innermost(open) == open[Len(open)]

\* Where a call can be.
Fit(want, open) ==
    /\ IsList(open) /\ \A k \in 1..Len(open) : IsFrame(open[k])
    /\ want = "first_item" => open # <<>> /\ Innermost(open).kind = "array"
    /\ want \in {"first_key", "key", "colon"} => open # <<>> /\ Innermost(open).kind = "object"
    /\ want = "separator" => open # <<>>
    /\ want = "end" => open = <<>>

\* What the reader keeps of its calls, at any time.
ShapeInv ==
    /\ text \in Seq(Tokens) /\ Len(text) <= MaxTokens
    /\ expect \in Reading \cup Verdicts
    /\ expect \in Reading => Fit(expect, stack)

\* The text t goes on after n tokens as a reader expects that wants this.
Continues(t, n, want, open) ==
    /\ want = "value" => \E j : Spans(t, "values", n, j) /\ Rest(t, open, j)
    /\ want \in {"first_item", "first_key"} =>
         \E q : Fills(t, Innermost(open).kind, n, q) /\ Rest(t, Outer(open), q)
    /\ want = "key" => \E q : Fills(t, "object", n, q) /\ q # n + 1 /\ Rest(t, Outer(open), q)
    /\ want = "colon" => /\ t[n + 1] = "colon"
                         /\ \E j : Spans(t, "values", n + 1, j) /\ Rest(t, open, j)
    /\ want = "separator" => Rest(t, open, n)
    /\ want = "end" => n = Len(t)

\* The grammar derives all of t; and t begins with what was read.
IsText(t) == t \in Seq(Tokens) /\ Len(t) <= MaxTokens /\ Spans(t, "values", 0, Len(t))
Begins(t) == Len(text) <= Len(t) /\ \A k \in 1..Len(text) : text[k] = t[k]

\* The reader never stands where a JSON text that begins with what was read could not go on.
ViableInv ==
    expect \in Reading =>
        \A t \in JsonTexts : Begins(t) => Continues(t, Len(text), expect, stack)

LEMMA WholePart ==
    ASSUME NEW t \in Seq(Tokens), NEW n, n = Len(t)
    PROVE  Part(t, 0, n) = t
<1>1. 0 + 1 = 1
  OBVIOUS
<1> QED
  BY <1>1, SubSeqFull DEF Part

LEMMA JsonTextIs ==
    ASSUME NEW t
    PROVE  t \in JsonTexts <=> IsText(t)
<1>1. ASSUME t \in JsonTexts PROVE IsText(t)
  <2>1. PICK n \in 0..MaxTokens : \E d \in JsonOf[n].values : t = d.text
    BY <1>1 DEF JsonTexts, Json
  <2>2. PICK d \in JsonOf[n].values : t = d.text
    BY <2>1
  <2>3. t \in Seq(Tokens) /\ Len(t) = n
    BY <2>2, DerivedFits DEF Fits, Rules
  <2>4. n \in Nat /\ 0 \in Nat /\ n - 0 = n /\ n <= MaxTokens
    BY ParserAssumption
  <2>5. IsPart(t, 0, n)
    BY <2>3, <2>4 DEF IsPart
  <2>6. Part(t, 0, n) = t
    BY <2>3, WholePart
  <2>7. Spans(t, "values", 0, n)
    BY <2>2, <2>4, <2>5, <2>6, SpansPart DEF Rules
  <2> QED
    BY <2>3, <2>4, <2>7 DEF IsText
<1>2. ASSUME IsText(t) PROVE t \in JsonTexts
  <2> DEFINE n == Len(t)
  <2>1. n \in 0..MaxTokens /\ n - 0 = n /\ 0 \in Nat /\ n \in Nat
    BY <1>2, LenProperties DEF IsText
  <2> HIDE DEF n
  <2>2. PICK v : Derives(t, "values", 0, n, v)
    BY <1>2 DEF IsText, Spans, n
  <2>3. Derived(Part(t, 0, n), v) \in JsonOf[n].values
    BY <2>1, <2>2 DEF Derives
  <2>4. Part(t, 0, n) = t
    BY <1>2, WholePart DEF IsText, n
  <2> DEFINE d == Derived(t, v)
  <2>5. d \in JsonOf[n].values /\ d.text = t
    BY <2>3, <2>4, DerivedIs
  <2> HIDE DEF d
  <2>6. d \in Json
    BY <2>1, <2>5 DEF Json
  <2> QED
    BY <2>5, <2>6 DEF JsonTexts
<1> QED
  BY <1>1, <1>2

\* What a call has built, or nothing.
Kept(f) == IF f.kind = "object" THEN f.members ELSE f.items
NoneYet(f) == IF f.kind = "object" THEN f.members = {} ELSE f.items = <<>>

LEMMA GrownFrame ==
    ASSUME NEW f, IsFrame(f), NEW value
    PROVE  LET g == Grown(f, value) IN
           /\ IsFrame(g) /\ g.kind = f.kind /\ g.at = f.at
           /\ f.kind = "object" => g.members = Emplace(f.members, f.key, value) /\ g.key = f.key
           /\ f.kind # "object" => g.items = Append(f.items, value)
<1>1. CASE f.kind = "object"
  <2>1. f = [kind |-> "object", members |-> f.members, key |-> f.key, at |-> f.at]
    BY <1>1 DEF IsFrame
  <2> DEFINE m == Emplace(f.members, f.key, value)
             g == Grown(f, value)
  <2>2. g = [f EXCEPT !.members = m]
    BY <1>1 DEF Grown
  <2> HIDE DEF m, g
  <2>3. g = [kind |-> "object", members |-> m, key |-> f.key, at |-> f.at]
    BY <2>1, <2>2
  <2>4. IsFrame(g) /\ g.kind = f.kind /\ g.at = f.at /\ g.members = m /\ g.key = f.key
    BY <1>1, <2>3 DEF IsFrame
  <2> QED
    BY <1>1, <2>4 DEF m, g
<1>2. CASE f.kind # "object"
  <2>1. f = [kind |-> "array", items |-> f.items, at |-> f.at]
    BY <1>2 DEF IsFrame
  <2> DEFINE m == Append(f.items, value)
             g == Grown(f, value)
  <2>2. g = [f EXCEPT !.items = m]
    BY <1>2 DEF Grown
  <2> HIDE DEF m, g
  <2>3. g = [kind |-> "array", items |-> m, at |-> f.at]
    BY <2>1, <2>2
  <2>4. IsFrame(g) /\ g.kind = f.kind /\ g.at = f.at /\ g.items = m
    BY <1>2, <2>1, <2>3 DEF IsFrame
  <2> QED
    BY <1>2, <2>4 DEF m, g
<1> QED
  BY <1>1, <1>2

LEMMA CompleteIs ==
    ASSUME NEW open, IsList(open), \A k \in 1..Len(open) : IsFrame(open[k]),
           NEW value, Complete(open, value)
    PROVE  /\ open = <<>> => stack' = <<>> /\ document' = value /\ expect' = "end"
           /\ open # <<>> => /\ expect' = "separator" /\ stack' # <<>>
                             /\ stack'[Len(open)] = Grown(open[Len(open)], value)
           /\ IsList(stack') /\ Len(stack') = Len(open)
           /\ \A k \in 1..Len(open) : /\ IsFrame(stack'[k]) /\ stack'[k].kind = open[k].kind
                                      /\ stack'[k].at = open[k].at
                                      /\ k # Len(open) => stack'[k] = open[k]
<1>1. CASE open = <<>>
  <2>1. stack' = <<>> /\ document' = value /\ expect' = "end"
    BY <1>1 DEF Complete
  <2>2. Len(open) = 0 /\ \A k \in 1..Len(open) : FALSE
    BY <1>1
  <2> QED
    BY <1>1, <2>1, <2>2
<1>2. CASE open # <<>>
  <2> DEFINE n == Len(open)
             g == Grown(open[n], value)
  <2>1. expect' = "separator" /\ stack' = [open EXCEPT ![n] = g]
    BY <1>2 DEF Complete
  <2>2. n \in Nat \ {0} /\ n \in 1..n
    BY <1>2, OuterIs
  <2>3. IsFrame(g) /\ g.kind = open[n].kind /\ g.at = open[n].at
    BY <2>2, GrownFrame
  <2> HIDE DEF n, g
  <2>4. /\ IsList(stack') /\ Len(stack') = n /\ stack'[n] = g
        /\ \A k \in 1..n : k # n => stack'[k] = open[k]
    <3>1. n \in 1..Len(open) /\ n = Len(open)
      BY <2>2 DEF n
    <3>2. IsList(stack')
      BY <2>1, <3>1, ReplacedEntry
    <3>3. Len(stack') = Len(open) /\ stack'[n] = g
      BY <2>1, <3>1, ReplacedEntry
    <3>4. \A k \in 1..Len(open) : k # n => stack'[k] = open[k]
      BY <2>1, <3>1, ReplacedEntry
    <3> QED
      BY <3>1, <3>2, <3>3, <3>4
  <2>5. stack' # <<>>
    BY <2>2, <2>4
  <2>6. \A k \in 1..n : /\ IsFrame(stack'[k]) /\ stack'[k].kind = open[k].kind
                        /\ stack'[k].at = open[k].at
    BY <2>2, <2>3, <2>4 DEF n
  <2> QED
    BY <1>2, <2>1, <2>4, <2>5, <2>6 DEF n, g
<1> QED
  BY <1>1, <1>2

LEMMA FitAfterValue ==
    ASSUME NEW open, IsList(open), \A k \in 1..Len(open) : IsFrame(open[k]),
           NEW value, Complete(open, value)
    PROVE  expect' \in Reading /\ Fit(expect', stack')
<1>1. IsList(stack') /\ \A k \in 1..Len(stack') : IsFrame(stack'[k])
  BY CompleteIs
<1>2. CASE open = <<>>
  BY <1>1, <1>2, CompleteIs DEF Fit, Reading
<1>3. CASE open # <<>>
  BY <1>1, <1>3, CompleteIs DEF Fit, Reading
<1> QED
  BY <1>2, <1>3

LEMMA RestAfterValue ==
    ASSUME NEW open, IsList(open), \A k \in 1..Len(open) : IsFrame(open[k]),
           NEW value, Complete(open, value),
           NEW t \in Seq(Tokens), NEW p, Rest(t, open, p)
    PROVE  Continues(t, p, expect', stack')
<1>1. CASE open = <<>>
  <2>1. p = Len(t)
    BY <1>1, RestIsNothing
  <2> QED
    BY <1>1, <2>1, CompleteIs DEF Continues
<1>2. CASE open # <<>>
  <2>1. Len(stack') = Len(open) /\ \A k \in 1..Len(open) : open[k].kind = stack'[k].kind
    BY CompleteIs
  <2>2. Rest(t, stack', p)
    BY <2>1, RestKinds
  <2> QED
    BY <1>2, <2>2, CompleteIs DEF Continues
<1> QED
  BY <1>1, <1>2

-----------------------------------------------------------------------------
(* Each step keeps ViableInv *)

LEMMA ReadToken ==
    ASSUME text \in Seq(Tokens), NEW x \in Tokens, Read(x)
    PROVE  /\ text' \in Seq(Tokens) /\ Len(text) \in Nat /\ Len(text') = Len(text) + 1
           /\ Len(text') <= MaxTokens /\ text'[Len(text) + 1] = x
           /\ \A k \in 1..Len(text) : text'[k] = text[k]
<1>1. text' = Append(text, x) /\ Len(text) < MaxTokens
  BY DEF Read
<1>2. /\ text' \in Seq(Tokens) /\ Len(text) \in Nat /\ Len(text') = Len(text) + 1
      /\ text'[Len(text) + 1] = x
  BY <1>1
<1>3. \A k \in 1..Len(text) : text'[k] = text[k]
  BY <1>1
<1> QED
  BY <1>1, <1>2, <1>3, ParserAssumption

LEMMA NextToken ==
    ASSUME ShapeInv, ViableInv, expect \in Reading, NEW x \in Tokens, Read(x),
           NEW t \in JsonTexts, Begins(t)'
    PROVE  /\ t \in Seq(Tokens) /\ Len(t) \in Nat /\ Len(text) \in Nat /\ Len(text) + 1 <= Len(t)
           /\ Len(text') = Len(text) + 1
           /\ t[Len(text) + 1] = x /\ Fit(expect, stack)
           /\ Continues(t, Len(text), expect, stack)
<1>1. /\ Len(text) \in Nat /\ Len(text') = Len(text) + 1 /\ text'[Len(text) + 1] = x
      /\ \A k \in 1..Len(text) : text'[k] = text[k]
  BY ReadToken DEF ShapeInv
<1>2. t \in Seq(Tokens) /\ Len(t) \in Nat
  BY JsonTextIs, LenProperties DEF IsText
<1>3. Len(text') <= Len(t) /\ \A k \in 1..Len(text') : text'[k] = t[k]
  BY DEF Begins
<1>4. Len(text) + 1 <= Len(t) /\ t[Len(text) + 1] = x /\ \A k \in 1..Len(text) : text[k] = t[k]
  BY <1>1, <1>3
<1>5. Begins(t)
  BY <1>1, <1>2, <1>4 DEF Begins
<1> QED
  BY <1>1, <1>2, <1>4, <1>5 DEF ViableInv, ShapeInv

LEMMA MarksDiffer ==
    ASSUME NEW x \in Strings \cup Scalars
    PROVE  x \notin {"lbrace", "rbrace", "lbracket", "rbracket", "colon", "comma"}
BY ParserAssumption DEF Punctuation, Strings, Scalars, JsonStrings, ReaderStrings, JsonScalars,
    ReaderScalars

LEMMA ValueNext ==
    ASSUME NEW t \in Seq(Tokens), NEW n, NEW want \in {"value", "first_item"}, NEW open,
           Fit(want, open), Continues(t, n, want, open),
           want = "first_item" => t[n + 1] # "rbracket"
    PROVE  \E j : Spans(t, "values", n, j) /\ Rest(t, open, j)
<1>1. CASE want = "value"
  BY <1>1 DEF Continues
<1>2. CASE want = "first_item"
  <2>1. IsList(open) /\ open # <<>> /\ open[Len(open)].kind = "array"
    BY <1>2 DEF Fit, Innermost
  <2>2. PICK q : Fills(t, "array", n, q) /\ Rest(t, Outer(open), q)
    BY <1>2, <2>1 DEF Continues, Innermost
  <2>3. q # n + 1
    BY <1>2, <2>2 DEF Fills, Closer
  <2> QED
    BY <2>1, <2>2, <2>3, ItemThenRest
<1> QED
  BY <1>1, <1>2

LEMMA KeyNext ==
    ASSUME NEW t \in Seq(Tokens), NEW n, NEW want \in {"key", "first_key"}, NEW open,
           Fit(want, open), Continues(t, n, want, open),
           want = "first_key" => t[n + 1] # "rbrace"
    PROVE  /\ t[n + 1] \in Strings /\ t[n + 2] = "colon"
           /\ \E j : Spans(t, "values", n + 2, j) /\ Rest(t, open, j)
<1>1. IsList(open) /\ open # <<>> /\ open[Len(open)].kind = "object"
  BY DEF Fit, Innermost
<1>2. PICK q : Fills(t, "object", n, q) /\ q # n + 1 /\ Rest(t, Outer(open), q)
  <2>1. CASE want = "key"
    BY <2>1 DEF Continues
  <2>2. CASE want = "first_key"
    <3>1. PICK q : Fills(t, "object", n, q) /\ Rest(t, Outer(open), q)
      BY <1>1, <2>2 DEF Continues, Innermost
    <3>2. q # n + 1
      BY <2>2, <3>1 DEF Fills, Closer
    <3> QED
      BY <3>1, <3>2
  <2> QED
    BY <2>1, <2>2
<1> QED
  BY <1>1, <1>2, MemberThenRest

\* No text that goes on is at its end, and its next token is one that the reader takes,
\* or a word that it does not support.
LEMMA Meets ==
    ASSUME NEW t \in Seq(Tokens), NEW n \in Nat, expect \in Reading, expect # "end",
           Fit(expect, stack), Continues(t, n, expect, stack)
    PROVE  n < Len(t) /\ (t[n + 1] \in Expected \/ t[n + 1] \in {w \in Words : Unsupported(w)})
<1>0. Len(t) \in Nat
  BY LenProperties
<1>1. CASE expect \in {"value", "first_item"}
  <2>1. CASE expect = "first_item" /\ t[n + 1] = "rbracket"
    <3>1. PICK q : Fills(t, Innermost(stack).kind, n, q)
      BY <2>1 DEF Continues
    <3>2. n < Len(t)
      BY <1>0, <3>1 DEF Fills
    <3> QED
      BY <2>1, <3>2 DEF Expected
  <2>2. CASE expect = "first_item" => t[n + 1] # "rbracket"
    <3>1. PICK j : Spans(t, "values", n, j)
      BY <1>1, <2>2, ValueNext
    <3>2. n < Len(t) /\ j \in Nat
      BY <3>1, SpansSome DEF Rules
    <3>3. t[n + 1] \in Strings \cup Scalars \cup {"lbrace", "lbracket"}
      BY <3>1, ValueIs
    <3> QED
      BY <1>1, <3>2, <3>3, ReadOrUnsupported DEF Expected
  <2> QED
    BY <2>1, <2>2
<1>2. CASE expect \in {"key", "first_key"}
  <2>1. PICK q : Fills(t, "object", n, q)
    BY <1>2 DEF Continues, Fit
  <2>2. n < Len(t)
    BY <1>0, <2>1 DEF Fills
  <2>3. CASE expect = "first_key" /\ t[n + 1] = "rbrace"
    BY <2>2, <2>3 DEF Expected
  <2>4. CASE expect = "first_key" => t[n + 1] # "rbrace"
    <3>1. t[n + 1] \in Strings
      BY <1>2, <2>4, KeyNext
    <3> QED
      BY <1>2, <2>2, <3>1, ReadOrUnsupported DEF Expected
  <2> QED
    BY <2>3, <2>4
<1>3. CASE expect = "colon"
  <2>1. t[n + 1] = "colon" /\ \E j : Spans(t, "values", n + 1, j)
    BY <1>3 DEF Continues
  <2>2. n < Len(t)
    BY <2>1, SpansSome DEF Rules
  <2> QED
    BY <1>3, <2>1, <2>2 DEF Expected
<1>4. CASE expect = "separator"
  <2>1. IsList(stack) /\ stack # <<>> /\ Rest(t, stack, n)
    BY <1>4 DEF Fit, Continues
  <2>2. n < Len(t) /\ t[n + 1] \in {"comma", Closer(stack[Len(stack)].kind)}
    BY <2>1, SeparatorThenRest
  <2>3. Expected = {"comma", Closer(stack[Len(stack)].kind)}
    BY <1>4, <2>1 DEF Expected, InObject, Top, Closer
  <2> QED
    BY <2>2, <2>3
<1> QED
  BY <1>1, <1>2, <1>3, <1>4 DEF Reading

LEMMA ViableByNext ==
    ASSUME ShapeInv, ViableInv, expect \in Reading, NEW x \in Tokens, Read(x),
           \A t \in JsonTexts :
               /\ t \in Seq(Tokens) /\ Len(t) \in Nat /\ Len(text) \in Nat /\ Len(text) + 1 <= Len(t)
               /\ t[Len(text) + 1] = x
               /\ Continues(t, Len(text), expect, stack)
               => Continues(t, Len(text) + 1, expect', stack')
    PROVE  ViableInv'
<1> SUFFICES ASSUME NEW t \in JsonTexts, Begins(t)' PROVE Continues(t, Len(text'), expect', stack')
  BY DEF ViableInv
<1> QED
  BY NextToken

LEMMA ScalarViable == ASSUME ShapeInv, ViableInv, ParseScalar PROVE ViableInv'
<1>1. PICK x \in ReaderStrings \cup ReaderScalars : Read(x) /\ Complete(stack, Scalar(x))
  BY DEF ParseScalar
<1>2. /\ x \in Strings \cup Scalars /\ x \in Tokens
      /\ expect \in Reading /\ expect \in {"value", "first_item"}
  BY TokensAre, ReadIsDerived DEF ParseScalar, ValueStarts, Reading
<1>3. Fit(expect, stack) /\ IsList(stack) /\ \A k \in 1..Len(stack) : IsFrame(stack[k])
  BY <1>2 DEF ShapeInv, Fit
<1>4. ASSUME NEW t \in JsonTexts, t \in Seq(Tokens), t[Len(text) + 1] = x,
             Continues(t, Len(text), expect, stack)
      PROVE  Continues(t, Len(text) + 1, expect', stack')
  <2>1. x \notin {"lbrace", "rbrace", "lbracket", "rbracket", "colon", "comma"}
    BY <1>2, MarksDiffer
  <2>2. PICK j : Spans(t, "values", Len(text), j) /\ Rest(t, stack, j)
    BY <1>2, <1>3, <1>4, <2>1, ValueNext
  <2>3. j = Len(text) + 1
    BY <1>4, <2>1, <2>2, ValueIs
  <2> QED
    BY <1>1, <1>3, <1>4, <2>2, <2>3, RestAfterValue
<1> QED
  BY <1>1, <1>2, <1>4, ViableByNext

LEMMA ColonViable == ASSUME ShapeInv, ViableInv, ParseColon PROVE ViableInv'
<1>1. expect = "colon" /\ Read("colon") /\ expect' = "value" /\ stack' = stack
  BY DEF ParseColon
<1>2. "colon" \in Tokens /\ expect \in Reading
  BY <1>1, TokensAre DEF Reading
<1>3. ASSUME NEW t \in JsonTexts, Continues(t, Len(text), expect, stack)
      PROVE  Continues(t, Len(text) + 1, expect', stack')
  BY <1>1, <1>3 DEF Continues
<1> QED
  BY <1>1, <1>2, <1>3, ViableByNext

LEMMA OpenedIs ==
    ASSUME NEW open, IsList(open), \A k \in 1..Len(open) : IsFrame(open[k]),
           NEW f, IsFrame(f), NEW new, new = Append(open, f)
    PROVE  /\ IsList(new) /\ Len(open) \in Nat /\ Len(new) = Len(open) + 1 /\ new # <<>>
           /\ new[Len(new)] = f /\ \A k \in 1..Len(open) : new[k] = open[k]
           /\ \A k \in 1..Len(new) : IsFrame(new[k])
           /\ Len(Outer(new)) = Len(open) /\ \A k \in 1..Len(open) : Outer(new)[k] = open[k]
<1>1. IsList(new)
  BY AppendToList
<1>2. Len(open) \in Nat /\ DOMAIN open = 1..Len(open)
  BY ListDomain
<1>3. Len(new) \in Nat /\ DOMAIN new = 1..Len(new)
  BY <1>1, ListDomain
<1>4. DOMAIN new = 1..(Len(open) + 1) /\ new[Len(open) + 1] = f
  BY AppendedEntries
<1>5. \A k \in 1..Len(open) : new[k] = open[k]
  BY <1>2, AppendedEntries
<1>6. Len(new) = Len(open) + 1
  <2>1. open \in Seq(ToSet(open) \cup {f})
    BY DEF IsList
  <2> QED
    BY <2>1
<1>7. new # <<>>
  BY <1>2, <1>6
<1>8. \A k \in 1..Len(new) : IsFrame(new[k])
  <2> SUFFICES ASSUME NEW k \in 1..Len(new) PROVE IsFrame(new[k])
    OBVIOUS
  <2>1. k \in 1..Len(open) \/ k = Len(open) + 1
    BY <1>2, <1>6
  <2> QED
    BY <1>4, <1>5, <2>1
<1>9. Len(Outer(new)) = Len(open) /\ \A k \in 1..Len(open) : Outer(new)[k] = open[k]
  <2>1. Len(Outer(new)) = Len(new) - 1 /\ \A k \in 1..(Len(new) - 1) : Outer(new)[k] = new[k]
    BY <1>1, <1>7, OuterIs
  <2>2. Len(new) - 1 = Len(open)
    BY <1>2, <1>6
  <2> QED
    BY <1>5, <2>1, <2>2
<1> QED
  BY <1>1, <1>2, <1>4, <1>5, <1>6, <1>7, <1>8, <1>9

LEMMA OuterOfOpened ==
    ASSUME NEW open, IsList(open), \A k \in 1..Len(open) : IsFrame(open[k]),
           NEW f, IsFrame(f), NEW new, new = Append(open, f), NEW k \in 1..Len(open)
    PROVE  Outer(new)[k] = open[k]
<1>1. IsList(new) /\ Len(open) \in Nat /\ Len(new) = Len(open) + 1 /\ new # <<>>
  BY OpenedIs
<1>2. new[k] = open[k]
  BY OpenedIs
<1>3. \A l \in 1..(Len(new) - 1) : Outer(new)[l] = new[l]
  BY <1>1, OuterIs
<1>4. k \in 1..(Len(new) - 1)
  BY <1>1
<1> QED
  BY <1>2, <1>3, <1>4

LEMMA OpenedFrames ==
    ASSUME NEW open, IsList(open), \A k \in 1..Len(open) : IsFrame(open[k]),
           NEW f, IsFrame(f), NEW new, new = Append(open, f), NEW k \in 1..Len(new)
    PROVE  IsFrame(new[k])
<1>1. Len(open) \in Nat /\ Len(new) = Len(open) + 1 /\ new[Len(new)] = f
  BY OpenedIs
<1>2. \A l \in 1..Len(open) : new[l] = open[l]
  BY OpenedIs
<1>3. k \in 1..Len(open) \/ k = Len(new)
  BY <1>1
<1> QED
  BY <1>1, <1>2, <1>3

LEMMA ArrayOpens == ASSUME ShapeInv, OpenArray PROVE
    LET f == [kind |-> "array", items |-> <<>>, at |-> Len(text) + 1] IN
    /\ IsFrame(f) /\ stack' = Append(stack, f) /\ Read("lbracket") /\ expect' = "first_item"
    /\ expect \in {"value", "first_item"} /\ expect \in Reading /\ Fit(expect, stack)
    /\ IsList(stack) /\ \A k \in 1..Len(stack) : IsFrame(stack[k])
<1>1. expect \in {"value", "first_item"} /\ expect \in Reading
  BY DEF OpenArray, ValueStarts, Reading
<1> QED
  BY <1>1 DEF OpenArray, ShapeInv, Fit, IsFrame

LEMMA ObjectOpens == ASSUME ShapeInv, OpenObject PROVE
    LET f == [kind |-> "object", members |-> {}, key |-> NoKey, at |-> Len(text) + 1] IN
    /\ IsFrame(f) /\ stack' = Append(stack, f) /\ Read("lbrace") /\ expect' = "first_key"
    /\ expect \in {"value", "first_item"} /\ expect \in Reading /\ Fit(expect, stack)
    /\ IsList(stack) /\ \A k \in 1..Len(stack) : IsFrame(stack[k])
<1>1. expect \in {"value", "first_item"} /\ expect \in Reading
  BY DEF OpenObject, ValueStarts, Reading
<1> QED
  BY <1>1 DEF OpenObject, ShapeInv, Fit, IsFrame

LEMMA ArrayViable == ASSUME ShapeInv, ViableInv, OpenArray PROVE ViableInv'
<1> DEFINE f == [kind |-> "array", items |-> <<>>, at |-> Len(text) + 1]
<1>1. /\ IsFrame(f) /\ stack' = Append(stack, f) /\ Read("lbracket") /\ expect' = "first_item"
      /\ expect \in {"value", "first_item"} /\ expect \in Reading /\ Fit(expect, stack)
      /\ IsList(stack) /\ \A k \in 1..Len(stack) : IsFrame(stack[k])
  BY ArrayOpens
<1>2. f.kind = "array" /\ "lbracket" \in Tokens
  BY TokensAre
<1> HIDE DEF f
<1>3. /\ stack'[Len(stack')] = f /\ Len(Outer(stack')) = Len(stack)
      /\ \A k \in 1..Len(stack) : Outer(stack')[k] = stack[k]
  <2>1. stack'[Len(stack')] = f
    BY <1>1, OpenedIs
  <2>2. Len(Outer(stack')) = Len(stack)
    BY <1>1, OpenedIs
  <2>3. ASSUME NEW k \in 1..Len(stack) PROVE Outer(stack')[k] = stack[k]
    BY <1>1, OuterOfOpened
  <2> QED
    BY <2>1, <2>2, <2>3
<1>4. ASSUME NEW t \in JsonTexts, t \in Seq(Tokens), Len(text) \in Nat, t[Len(text) + 1] = "lbracket",
             Continues(t, Len(text), expect, stack)
      PROVE  Continues(t, Len(text) + 1, expect', stack')
  <2> DEFINE n == Len(text)
  <2>1. PICK j : Spans(t, "values", n, j) /\ Rest(t, stack, j)
    BY <1>1, <1>4, ValueNext
  <2>2. /\ n + 2 <= j /\ t[j] = "rbracket" /\ (j = n + 2 \/ Spans(t, "items", n + 1, j - 1))
    <3>1. t[n + 1] \notin Strings \cup Scalars
      BY <1>4, MarksDiffer
    <3> QED
      BY <1>4, <2>1, <3>1, ValueIs
  <2>3. j \in Nat /\ j <= Len(t) /\ n \in Nat
    BY <2>1, SpansSome DEF Rules
  <2> HIDE DEF n
  <2>4. Fills(t, "array", n + 1, j)
    <3>1. n + 1 \in Nat /\ n + 1 < j /\ (n + 1) + 1 = n + 2
      BY <2>2, <2>3
    <3> QED
      BY <2>2, <2>3, <3>1 DEF Fills, Closer, Entries
  <2>5. Rest(t, Outer(stack'), j)
    BY <1>3, <2>1, RestKinds
  <2> QED
    BY <1>1, <1>2, <1>3, <2>4, <2>5 DEF Continues, Innermost, n
<1> QED
  BY <1>1, <1>2, <1>4, ViableByNext

LEMMA ObjectViable == ASSUME ShapeInv, ViableInv, OpenObject PROVE ViableInv'
<1> DEFINE f == [kind |-> "object", members |-> {}, key |-> NoKey, at |-> Len(text) + 1]
<1>1. /\ IsFrame(f) /\ stack' = Append(stack, f) /\ Read("lbrace") /\ expect' = "first_key"
      /\ expect \in {"value", "first_item"} /\ expect \in Reading /\ Fit(expect, stack)
      /\ IsList(stack) /\ \A k \in 1..Len(stack) : IsFrame(stack[k])
  BY ObjectOpens
<1>2. f.kind = "object" /\ "lbrace" \in Tokens
  BY TokensAre
<1> HIDE DEF f
<1>3. /\ stack'[Len(stack')] = f /\ Len(Outer(stack')) = Len(stack)
      /\ \A k \in 1..Len(stack) : Outer(stack')[k] = stack[k]
  <2>1. stack'[Len(stack')] = f
    BY <1>1, OpenedIs
  <2>2. Len(Outer(stack')) = Len(stack)
    BY <1>1, OpenedIs
  <2>3. ASSUME NEW k \in 1..Len(stack) PROVE Outer(stack')[k] = stack[k]
    BY <1>1, OuterOfOpened
  <2> QED
    BY <2>1, <2>2, <2>3
<1>4. ASSUME NEW t \in JsonTexts, t \in Seq(Tokens), Len(text) \in Nat, t[Len(text) + 1] = "lbrace",
             Continues(t, Len(text), expect, stack)
      PROVE  Continues(t, Len(text) + 1, expect', stack')
  <2> DEFINE n == Len(text)
  <2>1. PICK j : Spans(t, "values", n, j) /\ Rest(t, stack, j)
    BY <1>1, <1>4, ValueNext
  <2>2. /\ n + 2 <= j /\ t[j] = "rbrace" /\ (j = n + 2 \/ Spans(t, "members", n + 1, j - 1))
    <3>1. t[n + 1] \notin Strings \cup Scalars
      BY <1>4, MarksDiffer
    <3> QED
      BY <1>4, <2>1, <3>1, ValueIs
  <2>3. j \in Nat /\ j <= Len(t) /\ n \in Nat
    BY <2>1, SpansSome DEF Rules
  <2> HIDE DEF n
  <2>4. Fills(t, "object", n + 1, j)
    <3>1. n + 1 \in Nat /\ n + 1 < j /\ (n + 1) + 1 = n + 2
      BY <2>2, <2>3
    <3> QED
      BY <2>2, <2>3, <3>1 DEF Fills, Closer, Entries
  <2>5. Rest(t, Outer(stack'), j)
    BY <1>3, <2>1, RestKinds
  <2> QED
    BY <1>1, <1>2, <1>3, <2>4, <2>5 DEF Continues, Innermost, n
<1> QED
  BY <1>1, <1>2, <1>4, ViableByNext

\* The name of a member that begins is noted in its object.
LEMMA KeyIsNoted ==
    ASSUME ShapeInv, NEW x, ParseKey, stack' = [stack EXCEPT ![Len(stack)].key = x]
    PROVE  /\ IsList(stack) /\ IsList(stack') /\ Len(stack) \in Nat \ {0} /\ Len(stack') = Len(stack)
           /\ \A k \in 1..Len(stack) : /\ IsFrame(stack[k]) /\ IsFrame(stack'[k])
                                       /\ stack'[k].kind = stack[k].kind
                                       /\ stack'[k].at = stack[k].at
                                       /\ k # Len(stack) => stack'[k] = stack[k]
           /\ LET f == stack[Len(stack)]
                  g == stack'[Len(stack)]
              IN f.kind = "object" /\ g.members = f.members /\ g.key = x
<1> DEFINE n == Len(stack)
           f == stack[n]
           g == [f EXCEPT !.key = x]
<1>1. /\ IsList(stack) /\ stack # <<>> /\ f.kind = "object" /\ \A k \in 1..n : IsFrame(stack[k])
  BY DEF ShapeInv, ParseKey, Fit, Reading, Innermost
<1>2. n \in Nat \ {0} /\ n \in 1..n /\ n = Len(stack)
  BY <1>1, OuterIs
<1>3. stack' = [stack EXCEPT ![n] = g]
  OBVIOUS
<1>4. f = [kind |-> "object", members |-> f.members, key |-> f.key, at |-> f.at]
  BY <1>1, <1>2 DEF IsFrame
<1>5. g = [kind |-> "object", members |-> f.members, key |-> x, at |-> f.at]
  BY <1>4
<1>6. IsFrame(g) /\ g.kind = f.kind /\ g.at = f.at /\ g.members = f.members /\ g.key = x
  BY <1>1, <1>5 DEF IsFrame
<1> HIDE DEF g
<1>7. IsList(stack')
  BY <1>1, <1>2, <1>3, ReplacedEntry
<1>8. Len(stack') = n /\ stack'[n] = g
  BY <1>1, <1>2, <1>3, ReplacedEntry
<1>9. \A k \in 1..n : k # n => stack'[k] = stack[k]
  BY <1>1, <1>2, <1>3, ReplacedEntry
<1>10. ASSUME NEW k \in 1..n
       PROVE  IsFrame(stack'[k]) /\ stack'[k].kind = stack[k].kind /\ stack'[k].at = stack[k].at
  <2>1. CASE k = n
    BY <1>6, <1>8, <2>1
  <2>2. CASE k # n
    BY <1>1, <1>9, <2>2
  <2> QED
    BY <2>1, <2>2
<1> QED
  BY <1>1, <1>2, <1>6, <1>7, <1>8, <1>9, <1>10

LEMMA KeyViable == ASSUME ShapeInv, ViableInv, ParseKey PROVE ViableInv'
<1>1. PICK x \in ReaderStrings : Read(x) /\ stack' = [stack EXCEPT ![Len(stack)].key = x]
  BY DEF ParseKey
<1>2. /\ x \in Tokens /\ expect \in Reading /\ expect \in {"key", "first_key"} /\ expect' = "colon"
      /\ Fit(expect, stack) /\ x # "rbrace"
  BY TokensAre, ReadIsDerived, MarksDiffer DEF ParseKey, Reading, ShapeInv
<1>3. Len(stack') = Len(stack) /\ \A k \in 1..Len(stack) : stack'[k].kind = stack[k].kind
  BY <1>1, KeyIsNoted
<1>4. ASSUME NEW t \in JsonTexts, t \in Seq(Tokens), Len(text) \in Nat, t[Len(text) + 1] = x,
             Continues(t, Len(text), expect, stack)
      PROVE  Continues(t, Len(text) + 1, expect', stack')
  <2>1. t[Len(text) + 2] = "colon" /\ \E j : Spans(t, "values", Len(text) + 2, j) /\ Rest(t, stack, j)
    BY <1>2, <1>4, KeyNext
  <2>2. PICK j : Spans(t, "values", Len(text) + 2, j) /\ Rest(t, stack, j)
    BY <2>1
  <2>3. Rest(t, stack', j)
    BY <1>3, <2>2, RestKinds
  <2>4. (Len(text) + 1) + 1 = Len(text) + 2
    BY <1>4
  <2> QED
    BY <1>2, <2>1, <2>2, <2>3, <2>4 DEF Continues
<1> QED
  BY <1>1, <1>2, <1>4, ViableByNext

LEMMA CommaViable == ASSUME ShapeInv, ViableInv, ParseComma PROVE ViableInv'
<1>1. /\ expect = "separator" /\ Read("comma") /\ stack' = stack
      /\ expect' = IF InObject THEN "key" ELSE "value"
  BY DEF ParseComma
<1>2. /\ "comma" \in Tokens /\ expect \in Reading /\ IsList(stack) /\ stack # <<>>
  BY <1>1, TokensAre DEF Reading, ShapeInv, Fit
<1>3. InObject <=> stack[Len(stack)].kind = "object"
  BY <1>2 DEF InObject, Top
<1>4. stack[Len(stack)].kind \in {"object", "array"}
  <2>1. Len(stack) \in 1..Len(stack)
    BY <1>2, OuterIs
  <2>2. IsFrame(stack[Len(stack)])
    BY <1>1, <1>2, <2>1 DEF ShapeInv, Fit
  <2> QED
    BY <2>2 DEF IsFrame
<1>5. ASSUME NEW t \in JsonTexts, t \in Seq(Tokens), Len(text) \in Nat, t[Len(text) + 1] = "comma",
             Continues(t, Len(text), expect, stack)
      PROVE  Continues(t, Len(text) + 1, expect', stack')
  <2> DEFINE n == Len(text)
             kind == stack[Len(stack)].kind
  <2>1. Rest(t, stack, n)
    BY <1>1, <1>5 DEF Continues
  <2>2. PICK q : Fills(t, kind, n + 1, q) /\ q # n + 2 /\ Rest(t, Outer(stack), q)
    BY <1>2, <1>5, <2>1, SeparatorThenRest
  <2>3. n + 2 = (n + 1) + 1
    BY <1>5
  <2>4. CASE kind = "object"
    <3>1. expect' = "key"
      BY <1>1, <1>3, <2>4
    <3> HIDE DEF n, kind
    <3>2. Fills(t, "object", n + 1, q) /\ q # (n + 1) + 1 /\ Rest(t, Outer(stack'), q)
      BY <1>1, <2>2, <2>3, <2>4
    <3> QED
      BY <3>1, <3>2 DEF Continues, n
  <2>5. CASE kind = "array"
    <3>1. expect' = "value"
      BY <1>1, <1>3, <2>5
    <3>2. \E j : Spans(t, "values", n + 1, j) /\ Rest(t, stack, j)
      <4> HIDE DEF n
      <4> DEFINE m == n + 1
      <4>1. Fills(t, "array", m, q) /\ q # m + 1
        BY <2>2, <2>3, <2>5
      <4> HIDE DEF m
      <4>2. \E j : Spans(t, "values", m, j) /\ Rest(t, stack, j)
        BY <1>2, <1>5, <2>2, <2>5, <4>1, ItemThenRest
      <4> QED
        BY <4>2 DEF m
    <3> QED
      BY <1>1, <3>1, <3>2 DEF Continues
  <2> QED
    BY <1>4, <2>4, <2>5
<1> QED
  BY <1>1, <1>2, <1>5, ViableByNext

LEMMA OuterFrames ==
    ASSUME NEW open, NEW want, Fit(want, open), open # <<>>
    PROVE  /\ IsList(Outer(open)) /\ Len(open) \in Nat \ {0} /\ Len(Outer(open)) = Len(open) - 1
           /\ \A k \in 1..Len(Outer(open)) : IsFrame(Outer(open)[k]) /\ Outer(open)[k] = open[k]
<1>1. IsList(open) /\ \A k \in 1..Len(open) : IsFrame(open[k])
  BY DEF Fit
<1>2. /\ Len(open) \in Nat \ {0} /\ IsList(Outer(open)) /\ Len(Outer(open)) = Len(open) - 1
      /\ \A k \in 1..(Len(open) - 1) : Outer(open)[k] = open[k]
  BY <1>1, OuterIs
<1>3. \A k \in 1..Len(Outer(open)) : k \in 1..Len(open) /\ k \in 1..(Len(open) - 1)
  BY <1>2
<1> QED
  BY <1>1, <1>2, <1>3

LEMMA ObjectCloseViable == ASSUME ShapeInv, ViableInv, CloseObject PROVE ViableInv'
<1>1. /\ expect \in {"separator", "first_key"} /\ InObject /\ Read("rbrace")
      /\ Complete(Outer(stack), Object(Top.members))
  BY DEF CloseObject, Below, Outer
<1>2. /\ "rbrace" \in Tokens /\ expect \in Reading /\ Fit(expect, stack)
      /\ IsList(stack) /\ stack # <<>> /\ stack[Len(stack)].kind = "object"
  BY <1>1, TokensAre DEF Reading, ShapeInv, Fit, InObject, Top
<1>3. IsList(Outer(stack)) /\ \A k \in 1..Len(Outer(stack)) : IsFrame(Outer(stack)[k])
  BY <1>2, OuterFrames
<1>4. ASSUME NEW t \in JsonTexts, t \in Seq(Tokens), Len(text) \in Nat, t[Len(text) + 1] = "rbrace",
             Continues(t, Len(text), expect, stack)
      PROVE  Continues(t, Len(text) + 1, expect', stack')
  <2> DEFINE n == Len(text)
  <2>1. Rest(t, Outer(stack), n + 1)
    <3>1. CASE expect = "separator"
      <4>1. Rest(t, stack, n)
        BY <1>4, <3>1 DEF Continues
      <4>2. t[n + 1] = Closer(stack[Len(stack)].kind)
        BY <1>2, <1>4 DEF Closer
      <4> HIDE DEF n
      <4> QED
        BY <1>2, <1>4, <4>1, <4>2, SeparatorThenRest
    <3>2. CASE expect = "first_key"
      <4>1. PICK q : Fills(t, "object", n, q) /\ Rest(t, Outer(stack), q)
        BY <1>2, <1>4, <3>2 DEF Continues, Innermost
      <4>2. ASSUME q # n + 1 PROVE FALSE
        <5>1. t[n + 1] \in Strings
          BY <1>2, <1>4, <4>1, <4>2, MemberThenRest
        <5> QED
          BY <1>4, <5>1, MarksDiffer
      <4> QED
        BY <4>1, <4>2
    <3> QED
      BY <1>1, <3>1, <3>2
  <2> QED
    BY <1>1, <1>3, <1>4, <2>1, RestAfterValue
<1> QED
  BY <1>1, <1>2, <1>4, ViableByNext

LEMMA ArrayCloseViable == ASSUME ShapeInv, ViableInv, CloseArray PROVE ViableInv'
<1>1. /\ expect \in {"separator", "first_item"} /\ InArray /\ Read("rbracket")
      /\ Complete(Outer(stack), Array(Top.items))
  BY DEF CloseArray, Below, Outer
<1>2. /\ "rbracket" \in Tokens /\ expect \in Reading /\ Fit(expect, stack)
      /\ IsList(stack) /\ stack # <<>> /\ stack[Len(stack)].kind = "array"
  BY <1>1, TokensAre DEF Reading, ShapeInv, Fit, InArray, Top
<1>3. IsList(Outer(stack)) /\ \A k \in 1..Len(Outer(stack)) : IsFrame(Outer(stack)[k])
  BY <1>2, OuterFrames
<1>4. ASSUME NEW t \in JsonTexts, t \in Seq(Tokens), Len(text) \in Nat, t[Len(text) + 1] = "rbracket",
             Continues(t, Len(text), expect, stack)
      PROVE  Continues(t, Len(text) + 1, expect', stack')
  <2> DEFINE n == Len(text)
  <2>1. Rest(t, Outer(stack), n + 1)
    <3>1. CASE expect = "separator"
      <4>1. Rest(t, stack, n)
        BY <1>4, <3>1 DEF Continues
      <4>2. t[n + 1] = Closer(stack[Len(stack)].kind)
        BY <1>2, <1>4 DEF Closer
      <4> HIDE DEF n
      <4> QED
        BY <1>2, <1>4, <4>1, <4>2, SeparatorThenRest
    <3>2. CASE expect = "first_item"
      <4>1. PICK q : Fills(t, "array", n, q) /\ Rest(t, Outer(stack), q)
        BY <1>2, <1>4, <3>2 DEF Continues, Innermost
      <4>2. ASSUME q # n + 1 PROVE FALSE
        <5>1. PICK j : Spans(t, "values", n, j)
          BY <1>2, <1>4, <4>1, <4>2, ItemThenRest
        <5>2. t[n + 1] \in Strings \cup Scalars \cup {"lbrace", "lbracket"}
          BY <5>1, ValueIs
        <5> QED
          BY <1>4, <5>2, MarksDiffer
      <4> QED
        BY <4>1, <4>2
    <3> QED
      BY <1>1, <3>1, <3>2
  <2> QED
    BY <1>1, <1>3, <1>4, <2>1, RestAfterValue
<1> QED
  BY <1>1, <1>2, <1>4, ViableByNext

-----------------------------------------------------------------------------
(* The shape of the stack *)

LEMMA ShapeByNext ==
    ASSUME ShapeInv, NEW x \in Tokens, Read(x), expect' \in Reading, Fit(expect', stack')
    PROVE  ShapeInv'
<1>1. text' \in Seq(Tokens) /\ Len(text') <= MaxTokens
  BY ReadToken DEF ShapeInv
<1> QED
  BY <1>1 DEF ShapeInv

LEMMA ScalarShape == ASSUME ShapeInv, ParseScalar PROVE ShapeInv'
<1>1. PICK x \in ReaderStrings \cup ReaderScalars : Read(x) /\ Complete(stack, Scalar(x))
  BY DEF ParseScalar
<1>2. x \in Tokens /\ expect \in Reading
  BY TokensAre, ReadIsDerived DEF ParseScalar, ValueStarts, Reading
<1>3. IsList(stack) /\ \A k \in 1..Len(stack) : IsFrame(stack[k])
  BY <1>2 DEF ShapeInv, Fit
<1> QED
  BY <1>1, <1>2, <1>3, FitAfterValue, ShapeByNext

LEMMA ColonShape == ASSUME ShapeInv, ParseColon PROVE ShapeInv'
<1>1. expect = "colon" /\ Read("colon") /\ expect' = "value" /\ stack' = stack
  BY DEF ParseColon
<1>2. "colon" \in Tokens /\ Fit(expect, stack) /\ expect' \in Reading
  BY <1>1, TokensAre DEF Reading, ShapeInv
<1>3. Fit(expect', stack')
  BY <1>1, <1>2 DEF Fit
<1> QED
  BY <1>1, <1>2, <1>3, ShapeByNext

LEMMA ArrayShape == ASSUME ShapeInv, OpenArray PROVE ShapeInv'
<1> DEFINE f == [kind |-> "array", items |-> <<>>, at |-> Len(text) + 1]
<1>1. /\ IsFrame(f) /\ stack' = Append(stack, f) /\ Read("lbracket") /\ expect' = "first_item"
      /\ IsList(stack) /\ \A k \in 1..Len(stack) : IsFrame(stack[k])
  BY ArrayOpens
<1>2. f.kind = "array" /\ "lbracket" \in Tokens /\ expect' \in Reading
  BY <1>1, TokensAre DEF Reading
<1> HIDE DEF f
<1>3. IsList(stack') /\ stack' # <<>> /\ stack'[Len(stack')] = f
  <2>1. IsList(stack') /\ stack' # <<>>
    BY <1>1, OpenedIs
  <2>2. stack'[Len(stack')] = f
    BY <1>1, OpenedIs
  <2> QED
    BY <2>1, <2>2
<1>4. ASSUME NEW k \in 1..Len(stack') PROVE IsFrame(stack'[k])
  BY <1>1, OpenedFrames
<1>5. Fit(expect', stack')
  BY <1>1, <1>2, <1>3, <1>4 DEF Fit, Innermost
<1> QED
  BY <1>1, <1>2, <1>5, ShapeByNext

LEMMA ObjectShape == ASSUME ShapeInv, OpenObject PROVE ShapeInv'
<1> DEFINE f == [kind |-> "object", members |-> {}, key |-> NoKey, at |-> Len(text) + 1]
<1>1. /\ IsFrame(f) /\ stack' = Append(stack, f) /\ Read("lbrace") /\ expect' = "first_key"
      /\ IsList(stack) /\ \A k \in 1..Len(stack) : IsFrame(stack[k])
  BY ObjectOpens
<1>2. f.kind = "object" /\ "lbrace" \in Tokens /\ expect' \in Reading
  BY <1>1, TokensAre DEF Reading
<1> HIDE DEF f
<1>3. IsList(stack') /\ stack' # <<>> /\ stack'[Len(stack')] = f
  <2>1. IsList(stack') /\ stack' # <<>>
    BY <1>1, OpenedIs
  <2>2. stack'[Len(stack')] = f
    BY <1>1, OpenedIs
  <2> QED
    BY <2>1, <2>2
<1>4. ASSUME NEW k \in 1..Len(stack') PROVE IsFrame(stack'[k])
  BY <1>1, OpenedFrames
<1>5. Fit(expect', stack')
  BY <1>1, <1>2, <1>3, <1>4 DEF Fit, Innermost
<1> QED
  BY <1>1, <1>2, <1>5, ShapeByNext

LEMMA KeyShape == ASSUME ShapeInv, ParseKey PROVE ShapeInv'
<1>1. PICK x \in ReaderStrings : Read(x) /\ stack' = [stack EXCEPT ![Len(stack)].key = x]
  BY DEF ParseKey
<1>2. x \in Tokens /\ expect' = "colon" /\ expect' \in Reading
  BY TokensAre, ReadIsDerived DEF ParseKey, Reading
<1>3. IsList(stack') /\ Len(stack) \in Nat \ {0} /\ Len(stack') = Len(stack)
  BY <1>1, KeyIsNoted
<1>4. \A k \in 1..Len(stack) : IsFrame(stack'[k]) /\ stack'[k].kind = stack[k].kind
  BY <1>1, KeyIsNoted
<1>5. stack[Len(stack)].kind = "object"
  BY <1>1, KeyIsNoted
<1>6. stack' # <<>> /\ stack'[Len(stack')].kind = "object" /\ \A k \in 1..Len(stack') : IsFrame(stack'[k])
  BY <1>3, <1>4, <1>5
<1>7. Fit(expect', stack')
  BY <1>2, <1>3, <1>6 DEF Fit, Innermost
<1> QED
  BY <1>1, <1>2, <1>7, ShapeByNext

LEMMA CommaShape == ASSUME ShapeInv, ParseComma PROVE ShapeInv'
<1>1. /\ expect = "separator" /\ Read("comma") /\ stack' = stack
      /\ expect' = IF InObject THEN "key" ELSE "value"
  BY DEF ParseComma
<1>2. "comma" \in Tokens /\ Fit(expect, stack) /\ expect' \in Reading
  BY <1>1, TokensAre DEF Reading, ShapeInv
<1>3. Fit(expect', stack')
  BY <1>1, <1>2 DEF Fit, Innermost, InObject, Top
<1> QED
  BY <1>1, <1>2, <1>3, ShapeByNext

LEMMA CloseShape == ASSUME ShapeInv, CloseObject \/ CloseArray PROVE ShapeInv'
<1>1. /\ expect \in {"separator", "first_key", "first_item"} /\ stack # <<>>
      /\ \E x \in {"rbrace", "rbracket"} : Read(x)
      /\ \E value : Complete(Outer(stack), value)
  BY DEF CloseObject, CloseArray, Below, Outer, InObject, InArray
<1>2. PICK x \in {"rbrace", "rbracket"} : Read(x)
  BY <1>1
<1>3. PICK value : Complete(Outer(stack), value)
  BY <1>1
<1>4. x \in Tokens /\ Fit(expect, stack)
  BY <1>1, TokensAre DEF ShapeInv, Reading
<1>5. IsList(Outer(stack)) /\ \A k \in 1..Len(Outer(stack)) : IsFrame(Outer(stack)[k])
  BY <1>1, <1>4, OuterFrames
<1> QED
  BY <1>2, <1>3, <1>4, <1>5, FitAfterValue, ShapeByNext

LEMMA VerdictShape == ASSUME ShapeInv, Refuse \/ EndOfText PROVE ShapeInv' /\ expect' \in Verdicts
<1>1. expect' \in Verdicts /\ expect' \notin Reading
  BY DEF Refuse, EndOfText, Verdicts, Reading
<1>2. text' \in Seq(Tokens) /\ Len(text') <= MaxTokens
  <2>1. CASE Refuse
    <3>1. PICK x \in Tokens : Read(x)
      BY <2>1 DEF Refuse
    <3> QED
      BY <3>1, ReadToken DEF ShapeInv
  <2>2. CASE EndOfText
    BY <2>2 DEF EndOfText, ShapeInv
  <2> QED
    BY <2>1, <2>2
<1> QED
  BY <1>1, <1>2 DEF ShapeInv

-----------------------------------------------------------------------------
(* What was built is what the grammar derives *)

Opener(kind) == IF kind = "object" THEN "lbrace" ELSE "lbracket"

\* The entries of f are those of the text up to p.
Holds(t, f, p) == Derives(t, Entries(f.kind), f.at, p, Kept(f))

\* An entry of f can begin at p.
EntryDue(t, f, p) ==
    \/ p = f.at /\ NoneYet(f)
    \/ p \in Nat \ {0} /\ t[p] = "comma" /\ Holds(t, f, p - 1)

\* A value that begins at p completes an entry of f.
Awaits(t, f, p) ==
    IF f.kind = "object"
    THEN /\ p \in Nat /\ p >= 2 /\ t[p] = "colon" /\ t[p - 1] = f.key /\ f.key \in Strings
         /\ EntryDue(t, f, p - 2)
    ELSE EntryDue(t, f, p)

\* Each open call began at its bracket and awaits the one that it has called.
Placed(t, open) ==
    /\ \A k \in 1..Len(open) : open[k].at \in 1..Len(t) /\ t[open[k].at] = Opener(open[k].kind)
    /\ open # <<>> => open[1].at = 1
    /\ \A k \in 1..(Len(open) - 1) : Awaits(t, open[k], open[k + 1].at - 1)

\* The innermost call has come to where it wants this.
Stands(t, want, open, value) ==
    /\ want = "value" => IF open = <<>> THEN Len(t) = 0 ELSE Awaits(t, Innermost(open), Len(t))
    /\ want \in {"first_item", "first_key"} =>
         Len(t) = Innermost(open).at /\ NoneYet(Innermost(open))
    /\ want = "key" => EntryDue(t, Innermost(open), Len(t))
    /\ want = "colon" =>
         /\ Len(t) >= 1 /\ t[Len(t)] = Innermost(open).key /\ Innermost(open).key \in Strings
         /\ EntryDue(t, Innermost(open), Len(t) - 1)
    /\ want = "separator" => Holds(t, Innermost(open), Len(t))
    /\ want = "end" => Derives(t, "values", 0, Len(t), value)

\* What the calls have built is what the grammar derives from the tokens they have passed.
SoundInv ==
    /\ expect \in Reading => Placed(text, stack) /\ Stands(text, expect, stack, document)
    /\ expect = "accepted" => Derives(text, "values", 0, Len(text), document)

\* The text u goes on where t ends.
GoesOn(t, u) ==
    /\ t \in Seq(Tokens) /\ u \in Seq(Tokens) /\ Len(u) <= MaxTokens /\ Len(t) <= Len(u)
    /\ \A k \in 1..Len(t) : u[k] = t[k]

LEMMA DerivesOn ==
    ASSUME NEW t, NEW u, GoesOn(t, u), NEW rule \in Rules, NEW i, NEW j, NEW v,
           Derives(t, rule, i, j, v)
    PROVE  Derives(u, rule, i, j, v)
<1>1. /\ t \in Seq(Tokens) /\ u \in Seq(Tokens) /\ Len(u) <= MaxTokens /\ Len(t) <= Len(u)
      /\ Len(t) \in Nat /\ Len(u) \in Nat /\ \A k \in 1..Len(t) : u[k] = t[k]
  BY LenProperties DEF GoesOn
<1>2. i \in Nat /\ j \in Nat /\ i < j /\ i <= j /\ j <= Len(t)
  BY DerivesSome
<1>3. j <= Len(u) /\ IsPart(u, i, j)
  BY <1>1, <1>2 DEF IsPart
<1> DEFINE a == Part(t, i, j)
           b == Part(u, i, j)
<1>4. a \in Seq(Tokens) /\ Len(a) = j - i /\ \A k \in 1..(j - i) : a[k] = t[i + k]
  BY <1>1, <1>2, PartProperties
<1>5. b \in Seq(Tokens) /\ Len(b) = j - i /\ \A k \in 1..(j - i) : b[k] = u[i + k]
  BY <1>1, <1>2, <1>3, PartProperties
<1>6. \A k \in 1..(j - i) : i + k \in 1..Len(t)
  BY <1>1, <1>2
<1> HIDE DEF a, b
<1>7. \A k \in 1..Len(a) : a[k] = b[k]
  BY <1>1, <1>4, <1>5, <1>6
<1>8. a = b
  BY <1>4, <1>5, <1>7, SeqEqual
<1> QED
  BY <1>3, <1>8 DEF Derives, a, b

LEMMA HoldsOn ==
    ASSUME NEW t, NEW u, GoesOn(t, u), NEW f, NEW p, Holds(t, f, p)
    PROVE  Holds(u, f, p)
BY DerivesOn DEF Holds, Entries, Rules

LEMMA DueOn ==
    ASSUME NEW t, NEW u, GoesOn(t, u), NEW f, NEW p, p <= Len(t), EntryDue(t, f, p)
    PROVE  EntryDue(u, f, p)
<1>1. CASE p = f.at /\ NoneYet(f)
  BY <1>1 DEF EntryDue
<1>2. CASE p \in Nat \ {0} /\ t[p] = "comma" /\ Holds(t, f, p - 1)
  <2>1. Len(t) \in Nat /\ p \in 1..Len(t)
    BY <1>2, LenProperties DEF GoesOn
  <2>2. u[p] = "comma"
    BY <1>2, <2>1 DEF GoesOn
  <2> QED
    BY <1>2, <2>2, HoldsOn DEF EntryDue
<1> QED
  BY <1>1, <1>2 DEF EntryDue

LEMMA AwaitsOn ==
    ASSUME NEW t, NEW u, GoesOn(t, u), NEW f, NEW p, p <= Len(t), Awaits(t, f, p)
    PROVE  Awaits(u, f, p)
<1>1. CASE f.kind = "object"
  <2>1. /\ p \in Nat /\ p >= 2 /\ t[p] = "colon" /\ t[p - 1] = f.key /\ f.key \in Strings
        /\ EntryDue(t, f, p - 2)
    BY <1>1 DEF Awaits
  <2>2. Len(t) \in Nat
    BY LenProperties DEF GoesOn
  <2>3. p \in 1..Len(t) /\ p - 1 \in 1..Len(t) /\ p - 2 <= Len(t)
    BY <2>1, <2>2
  <2>4. u[p] = t[p] /\ u[p - 1] = t[p - 1]
    BY <2>3 DEF GoesOn
  <2>5. EntryDue(u, f, p - 2)
    BY <2>1, <2>3, DueOn
  <2> QED
    BY <1>1, <2>1, <2>4, <2>5 DEF Awaits
<1>2. CASE f.kind # "object"
  BY <1>2, DueOn DEF Awaits
<1> QED
  BY <1>1, <1>2

LEMMA PlacedOn ==
    ASSUME NEW t, NEW u, GoesOn(t, u), NEW open, IsList(open), Placed(t, open)
    PROVE  Placed(u, open)
<1>1. Len(t) \in Nat /\ Len(u) \in Nat /\ Len(t) <= Len(u) /\ \A k \in 1..Len(t) : u[k] = t[k]
  BY LenProperties DEF GoesOn
<1>2. Len(open) \in Nat
  BY ListDomain
<1>3. ASSUME NEW k \in 1..Len(open)
      PROVE  open[k].at \in 1..Len(u) /\ u[open[k].at] = Opener(open[k].kind)
  <2>1. open[k].at \in 1..Len(t) /\ t[open[k].at] = Opener(open[k].kind)
    BY DEF Placed
  <2>2. open[k].at \in 1..Len(u)
    BY <1>1, <2>1
  <2> QED
    BY <1>1, <2>1, <2>2
<1>4. ASSUME NEW k \in 1..(Len(open) - 1)
      PROVE  Awaits(u, open[k], open[k + 1].at - 1)
  <2>1. k + 1 \in 1..Len(open)
    BY <1>2
  <2>2. open[k + 1].at \in 1..Len(t) /\ Awaits(t, open[k], open[k + 1].at - 1)
    BY <2>1 DEF Placed
  <2> DEFINE p == open[k + 1].at - 1
  <2>3. p <= Len(t) /\ Awaits(t, open[k], p)
    BY <1>1, <2>2
  <2> HIDE DEF p
  <2>4. Awaits(u, open[k], p)
    BY <2>3, AwaitsOn
  <2> QED
    BY <2>4 DEF p
<1> QED
  BY <1>3, <1>4 DEF Placed

\* With the value that it awaits, an object or array has one entry more.
LEMMA EntryRead ==
    ASSUME NEW f, IsFrame(f), NEW t, NEW p, NEW j, NEW v, f.at \in Nat,
           Awaits(t, f, p), Derives(t, "values", p, j, v)
    PROVE  Holds(t, Grown(f, v), j)
<1> DEFINE g == Grown(f, v)
<1>0. p \in Nat
  BY DerivesSome DEF Rules
<1>1. CASE f.kind = "object"
  <2>1. /\ p >= 2 /\ t[p] = "colon" /\ t[p - 1] = f.key /\ f.key \in Strings /\ EntryDue(t, f, p - 2)
    BY <1>1 DEF Awaits
  <2>2. /\ g.kind = "object" /\ g.at = f.at /\ g.members = Emplace(f.members, f.key, v)
    BY <1>1, GrownFrame
  <2> HIDE DEF g
  <2>3. Derives(t, "members", f.at, j, Emplace(f.members, f.key, v))
    <3>1. CASE p - 2 = f.at /\ NoneYet(f)
      <4>1. f.members = {}
        BY <1>1, <3>1 DEF NoneYet
      <4>2. Emplace(f.members, f.key, v) = {<<f.key, v>>}
        BY <4>1 DEF Emplace
      <4>3. p = f.at + 2 /\ f.at + 1 = p - 1
        BY <1>0, <3>1
      <4>4. t[f.at + 1] \in Strings /\ t[f.at + 1] = f.key
        BY <2>1, <4>3
      <4>5. Derives(t, "members", f.at, j, {<<t[f.at + 1], v>>})
        BY <2>1, <4>3, <4>4, MemberDerived
      <4> QED
        BY <4>2, <4>4, <4>5
    <3>2. CASE p - 2 \in Nat \ {0} /\ t[p - 2] = "comma" /\ Holds(t, f, (p - 2) - 1)
      <4> DEFINE k == (p - 2) - 1
      <4>1. p = k + 3 /\ k + 1 = p - 2 /\ k + 2 = p - 1
        BY <1>0, <3>2
      <4>2. Derives(t, "members", f.at, k, f.members)
        BY <1>1, <3>2 DEF Holds, Entries, Kept
      <4> HIDE DEF k
      <4>3. t[k + 1] = "comma" /\ t[k + 2] = f.key /\ t[k + 2] \in Strings
        BY <2>1, <3>2, <4>1
      <4>4. Derives(t, "members", f.at, j, Emplace(f.members, t[k + 2], v))
        BY <2>1, <4>1, <4>2, <4>3, NextMemberDerived
      <4> QED
        BY <4>3, <4>4
    <3> QED
      BY <2>1, <3>1, <3>2 DEF EntryDue
  <2> QED
    BY <2>2, <2>3 DEF Holds, Entries, Kept, g
<1>2. CASE f.kind # "object"
  <2>1. EntryDue(t, f, p)
    BY <1>2 DEF Awaits
  <2>2. /\ g.kind # "object" /\ g.at = f.at /\ g.items = Append(f.items, v)
    BY <1>2, GrownFrame
  <2> HIDE DEF g
  <2>3. Derives(t, "items", f.at, j, Append(f.items, v))
    <3>1. CASE p = f.at /\ NoneYet(f)
      <4>1. f.items = <<>>
        BY <1>2, <3>1 DEF NoneYet
      <4>2. Append(f.items, v) = <<v>>
        BY <4>1
      <4> QED
        BY <3>1, <4>2, ItemDerived
    <3>2. CASE p \in Nat \ {0} /\ t[p] = "comma" /\ Holds(t, f, p - 1)
      <4> DEFINE k == p - 1
      <4>1. p = k + 1
        BY <1>0
      <4>2. Derives(t, "items", f.at, k, f.items)
        BY <1>2, <3>2 DEF Holds, Entries, Kept
      <4> HIDE DEF k
      <4> QED
        BY <3>2, <4>1, <4>2, NextItemDerived
    <3> QED
      BY <2>1, <3>1, <3>2 DEF EntryDue
  <2> QED
    BY <2>2, <2>3 DEF Holds, Entries, Kept, g
<1> QED
  BY <1>1, <1>2

-----------------------------------------------------------------------------
(* Each step keeps SoundInv *)

LEMMA ReadGoesOn ==
    ASSUME ShapeInv, NEW x \in Tokens, Read(x)
    PROVE  /\ GoesOn(text, text') /\ Len(text) \in Nat /\ Len(text') = Len(text) + 1
           /\ text'[Len(text) + 1] = x
           /\ \A i \in 0..Len(text) : IsPart(text', i, Len(text'))
<1>1. text \in Seq(Tokens)
  BY DEF ShapeInv
<1>2. /\ text' \in Seq(Tokens) /\ Len(text) \in Nat /\ Len(text') = Len(text) + 1
      /\ Len(text') <= MaxTokens /\ text'[Len(text) + 1] = x
      /\ \A k \in 1..Len(text) : text'[k] = text[k]
  BY <1>1, ReadToken
<1>3. GoesOn(text, text')
  BY <1>1, <1>2 DEF GoesOn
<1>4. \A i \in 0..Len(text) : IsPart(text', i, Len(text'))
  BY <1>2 DEF IsPart
<1> QED
  BY <1>2, <1>3, <1>4

LEMMA SoundByNext ==
    ASSUME expect' \in Reading, Placed(text', stack'), Stands(text', expect', stack', document')
    PROVE  SoundInv'
BY DEF SoundInv, Reading

\* A value that is complete is the entry that the innermost of the open calls awaits.
LEMMA CompleteSound ==
    ASSUME NEW t, NEW open, IsList(open), \A k \in 1..Len(open) : IsFrame(open[k]),
           NEW v, Complete(open, v), Placed(t, open), NEW p, Derives(t, "values", p, Len(t), v),
           open = <<>> => p = 0, open # <<>> => Awaits(t, Innermost(open), p)
    PROVE  expect' \in Reading /\ Placed(t, stack') /\ Stands(t, expect', stack', document')
<1>1. CASE open = <<>>
  <2>1. stack' = <<>> /\ document' = v /\ expect' = "end"
    BY <1>1, CompleteIs
  <2>2. Placed(t, stack')
    BY <2>1 DEF Placed
  <2>3. Stands(t, expect', stack', document')
    BY <1>1, <2>1 DEF Stands
  <2> QED
    BY <2>1, <2>2, <2>3 DEF Reading
<1>2. CASE open # <<>>
  <2> DEFINE n == Len(open)
  <2>1. n \in Nat \ {0}
    BY <1>2, OuterIs
  <2>2. expect' = "separator" /\ stack' # <<>> /\ stack'[n] = Grown(open[n], v)
    BY <1>2, CompleteIs
  <2>3. Len(stack') = n
    BY CompleteIs
  <2>4. \A k \in 1..n : /\ stack'[k].kind = open[k].kind /\ stack'[k].at = open[k].at
                        /\ k # n => stack'[k] = open[k]
    BY CompleteIs
  <2>5. /\ \A k \in 1..n : open[k].at \in 1..Len(t) /\ t[open[k].at] = Opener(open[k].kind)
        /\ open[1].at = 1
        /\ \A k \in 1..(n - 1) : Awaits(t, open[k], open[k + 1].at - 1)
    BY <1>2 DEF Placed
  <2>6. IsFrame(open[n]) /\ open[n].at \in Nat /\ Awaits(t, open[n], p)
    BY <1>2, <2>1, <2>5 DEF Innermost
  <2> HIDE DEF n
  <2>7. Placed(t, stack')
    <3>1. \A k \in 1..n : stack'[k].at \in 1..Len(t) /\ t[stack'[k].at] = Opener(stack'[k].kind)
      BY <2>4, <2>5
    <3>2. stack'[1].at = 1
      BY <2>1, <2>4, <2>5
    <3>3. ASSUME NEW k \in 1..(n - 1) PROVE Awaits(t, stack'[k], stack'[k + 1].at - 1)
      <4>1. k \in 1..n /\ k + 1 \in 1..n /\ k # n
        BY <2>1
      <4>2. stack'[k] = open[k] /\ stack'[k + 1].at = open[k + 1].at
        BY <2>4, <4>1
      <4> QED
        BY <2>5, <4>2
    <3> QED
      BY <2>3, <3>1, <3>2, <3>3 DEF Placed
  <2>8. Holds(t, stack'[n], Len(t))
    BY <2>2, <2>6, EntryRead
  <2>9. Stands(t, expect', stack', document')
    BY <2>2, <2>3, <2>8 DEF Stands, Innermost
  <2> QED
    BY <2>2, <2>7, <2>9 DEF Reading
<1> QED
  BY <1>1, <1>2

\* Where a value can begin, the innermost call awaits it.
LEMMA ValueStartsHere ==
    ASSUME ShapeInv, SoundInv, ValueStarts
    PROVE  /\ expect \in Reading /\ Fit(expect, stack) /\ Placed(text, stack)
           /\ IsList(stack) /\ \A k \in 1..Len(stack) : IsFrame(stack[k])
           /\ stack = <<>> => Len(text) = 0
           /\ stack # <<>> => Awaits(text, Innermost(stack), Len(text))
<1>1. expect \in Reading /\ expect \in {"value", "first_item"}
  BY DEF ValueStarts, Reading
<1>2. /\ Fit(expect, stack) /\ Placed(text, stack) /\ Stands(text, expect, stack, document)
      /\ IsList(stack) /\ \A k \in 1..Len(stack) : IsFrame(stack[k])
  BY <1>1 DEF ShapeInv, SoundInv, Fit
<1>3. CASE expect = "value"
  BY <1>1, <1>2, <1>3 DEF Stands
<1>4. CASE expect = "first_item"
  <2>1. stack # <<>> /\ Innermost(stack).kind = "array"
    BY <1>2, <1>4 DEF Fit
  <2>2. Len(text) = Innermost(stack).at /\ NoneYet(Innermost(stack))
    BY <1>2, <1>4 DEF Stands
  <2>3. Awaits(text, Innermost(stack), Len(text))
    BY <2>1, <2>2 DEF Awaits, EntryDue
  <2> QED
    BY <1>1, <1>2, <2>1, <2>3
<1> QED
  BY <1>1, <1>3, <1>4

LEMMA ScalarSound == ASSUME ShapeInv, SoundInv, ParseScalar PROVE SoundInv'
<1>1. PICK x \in ReaderStrings \cup ReaderScalars : Read(x) /\ Complete(stack, Scalar(x))
  BY DEF ParseScalar
<1>2. x \in Strings \cup Scalars /\ x \in Tokens /\ ValueStarts
  BY TokensAre, ReadIsDerived DEF ParseScalar
<1>3. /\ IsList(stack) /\ \A k \in 1..Len(stack) : IsFrame(stack[k])
      /\ Placed(text, stack)
      /\ stack = <<>> => Len(text) = 0
      /\ stack # <<>> => Awaits(text, Innermost(stack), Len(text))
  BY <1>2, ValueStartsHere
<1>4. /\ GoesOn(text, text') /\ Len(text) \in Nat /\ Len(text') = Len(text) + 1
      /\ text'[Len(text) + 1] = x /\ IsPart(text', Len(text), Len(text'))
  BY <1>1, <1>2, ReadGoesOn
<1>5. Derives(text', "values", Len(text), Len(text'), Scalar(x))
  <2> DEFINE i == Len(text)
             j == Len(text')
             t == text'
  <2>1. IsPart(t, i, j) /\ j = i + 1 /\ t[j] = x /\ t[j] \in Strings \cup Scalars
    BY <1>2, <1>4
  <2> HIDE DEF i, j, t
  <2>2. Derives(t, "values", i, j, Scalar(t[j]))
    BY <2>1, ScalarDerived
  <2> QED
    BY <2>1, <2>2 DEF i, j, t
<1>6. Placed(text', stack)
  BY <1>3, <1>4, PlacedOn
<1>7. stack # <<>> => Awaits(text', Innermost(stack), Len(text))
  BY <1>3, <1>4, AwaitsOn
<1>8. expect' \in Reading /\ Placed(text', stack') /\ Stands(text', expect', stack', document')
  BY <1>1, <1>3, <1>5, <1>6, <1>7, CompleteSound
<1> QED
  BY <1>8, SoundByNext

LEMMA OpenSound ==
    ASSUME ShapeInv, SoundInv, ValueStarts, NEW f, IsFrame(f), f.at = Len(text) + 1, NoneYet(f),
           NEW x \in Tokens, x = Opener(f.kind), Read(x), stack' = Append(stack, f),
           expect' \in {"first_item", "first_key"}
    PROVE  SoundInv'
<1>1. /\ IsList(stack) /\ \A k \in 1..Len(stack) : IsFrame(stack[k])
      /\ Placed(text, stack)
      /\ stack = <<>> => Len(text) = 0
      /\ stack # <<>> => Awaits(text, Innermost(stack), Len(text))
  BY ValueStartsHere
<1>2. /\ GoesOn(text, text') /\ Len(text) \in Nat /\ Len(text') = Len(text) + 1
      /\ text'[Len(text) + 1] = x
  BY ReadGoesOn
<1>3. Placed(text', stack)
  BY <1>1, <1>2, PlacedOn
<1>4. stack # <<>> => Awaits(text', Innermost(stack), Len(text))
  BY <1>1, <1>2, AwaitsOn
<1> DEFINE n == Len(stack)
           t == text'
<1>5. n \in Nat /\ Len(stack') = n + 1 /\ stack'[n + 1] = f
  <2>1. Len(stack) \in Nat /\ Len(stack') = Len(stack) + 1 /\ stack'[Len(stack')] = f
    BY <1>1, OpenedIs
  <2> QED
    BY <2>1
<1>6. \A k \in 1..n : stack'[k] = stack[k]
  BY <1>1, OpenedIs
<1>7. n = 0 <=> stack = <<>>
  BY <1>1, ListDomain, OuterIs
<1>8. /\ \A k \in 1..n : stack[k].at \in 1..Len(t) /\ t[stack[k].at] = Opener(stack[k].kind)
      /\ stack # <<>> => stack[1].at = 1
      /\ \A k \in 1..(n - 1) : Awaits(t, stack[k], stack[k + 1].at - 1)
  BY <1>3 DEF Placed
<1>9. n # 0 => Awaits(t, stack[n], f.at - 1)
  <2>1. f.at - 1 = Len(text)
    BY <1>2
  <2> QED
    BY <1>4, <1>7, <2>1 DEF Innermost
<1>10. f.at \in 1..Len(t) /\ t[f.at] = Opener(f.kind)
  BY <1>2
<1>11. n = 0 => f.at = 1
  BY <1>1, <1>7
<1> HIDE DEF n, t
<1>12. Placed(t, stack')
  <2>1. ASSUME NEW k \in 1..(n + 1)
        PROVE  stack'[k].at \in 1..Len(t) /\ t[stack'[k].at] = Opener(stack'[k].kind)
    <3>1. CASE k = n + 1
      BY <1>5, <1>10, <3>1
    <3>2. CASE k # n + 1
      <4>1. k \in 1..n
        BY <1>5, <3>2
      <4> QED
        BY <1>6, <1>8, <4>1
    <3> QED
      BY <3>1, <3>2
  <2>2. stack'[1].at = 1
    <3>1. CASE n = 0
      BY <1>5, <1>11, <3>1
    <3>2. CASE n # 0
      <4>1. 1 \in 1..n
        BY <1>5, <3>2
      <4> QED
        BY <1>6, <1>7, <1>8, <3>2, <4>1
    <3> QED
      BY <3>1, <3>2
  <2>3. ASSUME NEW k \in 1..n PROVE Awaits(t, stack'[k], stack'[k + 1].at - 1)
    <3>1. CASE k = n
      <4>1. stack'[k] = stack[n] /\ stack'[k + 1] = f /\ n # 0
        BY <1>5, <1>6, <3>1
      <4> QED
        BY <1>9, <4>1
    <3>2. CASE k # n
      <4>1. k \in 1..(n - 1) /\ k + 1 \in 1..n
        BY <1>5, <3>2
      <4>2. stack'[k] = stack[k] /\ stack'[k + 1] = stack[k + 1]
        BY <1>6, <4>1
      <4> QED
        BY <1>8, <4>1, <4>2
    <3> QED
      BY <3>1, <3>2
  <2>4. (n + 1) - 1 = n
    BY <1>5
  <2> QED
    BY <1>5, <2>1, <2>2, <2>3, <2>4 DEF Placed
<1>13. Stands(t, expect', stack', document')
  <2>1. Innermost(stack') = f /\ Len(t) = f.at
    BY <1>2, <1>5 DEF Innermost, t
  <2> QED
    BY <2>1 DEF Stands
<1> QED
  BY <1>12, <1>13, SoundByNext DEF Reading, t

LEMMA ArraySound == ASSUME ShapeInv, SoundInv, OpenArray PROVE SoundInv'
<1> DEFINE f == [kind |-> "array", items |-> <<>>, at |-> Len(text) + 1]
<1>1. IsFrame(f) /\ stack' = Append(stack, f) /\ Read("lbracket") /\ expect' = "first_item"
  BY ArrayOpens
<1>2. f.at = Len(text) + 1 /\ NoneYet(f) /\ "lbracket" = Opener(f.kind) /\ "lbracket" \in Tokens
  BY TokensAre DEF NoneYet, Opener
<1>3. ValueStarts
  BY DEF OpenArray
<1> HIDE DEF f
<1> QED
  BY <1>1, <1>2, <1>3, OpenSound

LEMMA ObjectSound == ASSUME ShapeInv, SoundInv, OpenObject PROVE SoundInv'
<1> DEFINE f == [kind |-> "object", members |-> {}, key |-> NoKey, at |-> Len(text) + 1]
<1>1. IsFrame(f) /\ stack' = Append(stack, f) /\ Read("lbrace") /\ expect' = "first_key"
  BY ObjectOpens
<1>2. f.at = Len(text) + 1 /\ NoneYet(f) /\ "lbrace" = Opener(f.kind) /\ "lbrace" \in Tokens
  BY TokensAre DEF NoneYet, Opener
<1>3. ValueStarts
  BY DEF OpenObject
<1> HIDE DEF f
<1> QED
  BY <1>1, <1>2, <1>3, OpenSound

LEMMA KeySound == ASSUME ShapeInv, SoundInv, ParseKey PROVE SoundInv'
<1>1. PICK x \in ReaderStrings : Read(x) /\ stack' = [stack EXCEPT ![Len(stack)].key = x]
  BY DEF ParseKey
<1>2. /\ x \in Strings /\ x \in Tokens
      /\ expect \in Reading /\ expect \in {"key", "first_key"} /\ expect' = "colon"
  BY TokensAre, ReadIsDerived DEF ParseKey, Reading
<1>3. /\ Placed(text, stack) /\ Stands(text, expect, stack, document)
  BY <1>2 DEF SoundInv
<1>4. /\ GoesOn(text, text') /\ Len(text) \in Nat /\ Len(text') = Len(text) + 1
      /\ text'[Len(text) + 1] = x
  BY <1>1, <1>2, ReadGoesOn
<1> DEFINE n == Len(stack)
           f == stack[n]
           g == stack'[n]
           t == text'
<1>5. /\ IsList(stack) /\ n \in Nat \ {0} /\ Len(stack') = n
  BY <1>1, KeyIsNoted
<1>6. \A k \in 1..n : /\ stack'[k].kind = stack[k].kind /\ stack'[k].at = stack[k].at
                      /\ k # n => stack'[k] = stack[k]
  BY <1>1, KeyIsNoted
<1>7. f.kind = "object" /\ g.members = f.members /\ g.key = x
  BY <1>1, KeyIsNoted
<1>8. g.kind = f.kind /\ g.at = f.at
  BY <1>5, <1>6
<1>9. EntryDue(t, f, Len(text))
  <2>1. EntryDue(text, f, Len(text))
    BY <1>2, <1>3 DEF Stands, EntryDue, Innermost
  <2> QED
    BY <1>4, <2>1, DueOn
<1>10. EntryDue(t, g, Len(text))
  BY <1>7, <1>8, <1>9 DEF EntryDue, Holds, Kept, NoneYet
<1>11. Placed(t, stack)
  BY <1>3, <1>4, <1>5, PlacedOn
<1>12. Innermost(stack') = g /\ Len(t) >= 1 /\ t[Len(t)] = x /\ Len(t) - 1 = Len(text)
  BY <1>4, <1>5 DEF Innermost
<1> HIDE DEF f, g, t, n
<1>13. Placed(t, stack')
  <2>1. \A k \in 1..n : stack'[k].at \in 1..Len(t) /\ t[stack'[k].at] = Opener(stack'[k].kind)
    BY <1>6, <1>11 DEF Placed, n
  <2>2. stack'[1].at = 1
    <3>1. stack # <<>> /\ 1 \in 1..n
      BY <1>5 DEF n
    <3> QED
      BY <1>6, <1>11, <3>1 DEF Placed
  <2>3. ASSUME NEW k \in 1..(n - 1) PROVE Awaits(t, stack'[k], stack'[k + 1].at - 1)
    <3>1. k \in 1..n /\ k + 1 \in 1..n /\ k # n
      BY <1>5
    <3>2. stack'[k] = stack[k] /\ stack'[k + 1].at = stack[k + 1].at
      BY <1>6, <3>1
    <3> QED
      BY <1>11, <3>2 DEF Placed, n
  <2> QED
    BY <1>5, <2>1, <2>2, <2>3 DEF Placed
<1>14. Stands(t, expect', stack', document')
  BY <1>2, <1>7, <1>10, <1>12 DEF Stands
<1> QED
  BY <1>2, <1>13, <1>14, SoundByNext DEF Reading, t

LEMMA ColonSound == ASSUME ShapeInv, SoundInv, ParseColon PROVE SoundInv'
<1>1. expect = "colon" /\ Read("colon") /\ expect' = "value" /\ stack' = stack
  BY DEF ParseColon
<1>2. "colon" \in Tokens /\ expect \in Reading /\ expect' \in Reading
  BY <1>1, TokensAre DEF Reading
<1> DEFINE f == Innermost(stack)
           n == Len(text)
           t == text'
<1>3. /\ Fit(expect, stack) /\ Placed(text, stack) /\ Stands(text, expect, stack, document)
  BY <1>2 DEF SoundInv, ShapeInv
<1>4. IsList(stack) /\ stack # <<>> /\ f.kind = "object"
  BY <1>1, <1>3 DEF Fit
<1>5. n >= 1 /\ text[n] = f.key /\ f.key \in Strings /\ EntryDue(text, f, n - 1)
  BY <1>1, <1>3 DEF Stands
<1>6. GoesOn(text, t) /\ n \in Nat /\ Len(t) = n + 1 /\ t[n + 1] = "colon"
  BY <1>1, <1>2, ReadGoesOn
<1>7. Placed(t, stack')
  BY <1>1, <1>3, <1>4, <1>6, PlacedOn
<1> HIDE DEF t
<1>8. t[n] = text[n]
  BY <1>5, <1>6 DEF GoesOn
<1>9. EntryDue(t, f, n - 1)
  <2> DEFINE p == n - 1
  <2>1. p <= Len(text) /\ EntryDue(text, f, p)
    BY <1>5, <1>6
  <2> HIDE DEF p, f
  <2>2. EntryDue(t, f, p)
    BY <1>6, <2>1, DueOn
  <2> QED
    BY <2>2 DEF p
<1> HIDE DEF f, n
<1>10. Awaits(t, f, n + 1)
  <2>1. n + 1 \in Nat /\ n + 1 >= 2 /\ (n + 1) - 1 = n /\ (n + 1) - 2 = n - 1
    BY <1>5, <1>6
  <2> QED
    BY <1>4, <1>5, <1>6, <1>8, <1>9, <2>1 DEF Awaits
<1>11. Stands(t, expect', stack', document')
  BY <1>1, <1>4, <1>6, <1>10 DEF Stands, f
<1> QED
  BY <1>2, <1>7, <1>11, SoundByNext DEF t

LEMMA CommaSound == ASSUME ShapeInv, SoundInv, ParseComma PROVE SoundInv'
<1>1. /\ expect = "separator" /\ Read("comma") /\ stack' = stack
      /\ expect' = IF InObject THEN "key" ELSE "value"
  BY DEF ParseComma
<1>2. "comma" \in Tokens /\ expect \in Reading /\ expect' \in Reading
  BY <1>1, TokensAre DEF Reading
<1> DEFINE f == Innermost(stack)
           n == Len(text)
           t == text'
<1>3. /\ Fit(expect, stack) /\ Placed(text, stack) /\ Stands(text, expect, stack, document)
  BY <1>2 DEF SoundInv, ShapeInv
<1>4. IsList(stack) /\ stack # <<>> /\ (InObject <=> f.kind = "object")
  BY <1>1, <1>3 DEF Fit, InObject, Top, Innermost
<1>5. Holds(text, f, n)
  BY <1>1, <1>3 DEF Stands
<1>6. GoesOn(text, t) /\ n \in Nat /\ Len(t) = n + 1 /\ t[n + 1] = "comma"
  BY <1>1, <1>2, ReadGoesOn
<1>7. Placed(t, stack')
  BY <1>1, <1>3, <1>4, <1>6, PlacedOn
<1> HIDE DEF t, f, n
<1>8. EntryDue(t, f, n + 1)
  <2>1. Holds(t, f, n)
    BY <1>5, <1>6, HoldsOn
  <2>2. (n + 1) - 1 = n /\ n + 1 \in Nat \ {0}
    BY <1>6
  <2> QED
    BY <1>6, <2>1, <2>2 DEF EntryDue
<1>9. f.kind # "object" => Awaits(t, f, n + 1)
  BY <1>8 DEF Awaits
<1>10. Stands(t, expect', stack', document')
  BY <1>1, <1>4, <1>6, <1>8, <1>9 DEF Stands, f
<1> QED
  BY <1>2, <1>7, <1>10, SoundByNext DEF t

LEMMA CloseSound ==
    ASSUME ShapeInv, SoundInv, expect \in Reading, stack # <<>>, NEW x \in Tokens, Read(x),
           NEW v, Complete(Outer(stack), v),
           Derives(text', "values", Innermost(stack).at - 1, Len(text'), v)
    PROVE  SoundInv'
<1> DEFINE n == Len(stack)
           outer == Outer(stack)
           t == text'
           p == stack[n].at - 1
<1>1. Fit(expect, stack) /\ Placed(text, stack)
  BY DEF SoundInv, ShapeInv
<1>2. /\ IsList(stack) /\ IsList(outer) /\ n \in Nat \ {0} /\ Len(outer) = n - 1
      /\ \A k \in 1..Len(outer) : IsFrame(outer[k]) /\ outer[k] = stack[k]
  BY <1>1, OuterFrames DEF Fit
<1>3. GoesOn(text, t)
  BY ReadGoesOn
<1>4. Placed(t, stack)
  BY <1>1, <1>2, <1>3, PlacedOn
<1>5. Derives(t, "values", p, Len(t), v)
  BY DEF Innermost
<1>6. Complete(outer, v)
  OBVIOUS
<1> HIDE DEF n, outer, t, p
<1>7. Placed(t, outer)
  <2>1. \A k \in 1..(n - 1) : k \in 1..n
    BY <1>2
  <2>2. \A k \in 1..Len(outer) : outer[k].at \in 1..Len(t) /\ t[outer[k].at] = Opener(outer[k].kind)
    BY <1>2, <1>4, <2>1 DEF Placed, n
  <2>3. outer # <<>> => outer[1].at = 1
    <3> SUFFICES ASSUME outer # <<>> PROVE outer[1].at = 1
      OBVIOUS
    <3>1. Len(outer) \in Nat \ {0}
      BY <1>2, OuterIs
    <3>2. outer[1] = stack[1]
      BY <1>2, <3>1
    <3> QED
      BY <1>4, <3>2 DEF Placed
  <2>4. ASSUME NEW k \in 1..(Len(outer) - 1) PROVE Awaits(t, outer[k], outer[k + 1].at - 1)
    <3>1. k \in 1..Len(outer) /\ k + 1 \in 1..Len(outer) /\ k \in 1..(n - 1)
      BY <1>2
    <3>2. outer[k] = stack[k] /\ outer[k + 1] = stack[k + 1]
      BY <1>2, <3>1
    <3> QED
      BY <1>4, <3>1, <3>2 DEF Placed, n
  <2> QED
    BY <2>2, <2>3, <2>4 DEF Placed
<1>8. outer = <<>> => p = 0
  <2> SUFFICES ASSUME outer = <<>> PROVE p = 0
    OBVIOUS
  <2>1. Len(outer) = 0
    OBVIOUS
  <2>2. n = 1
    BY <1>2, <2>1
  <2> QED
    BY <1>4, <2>2 DEF Placed, p
<1>9. outer # <<>> => Awaits(t, Innermost(outer), p)
  <2> SUFFICES ASSUME outer # <<>> PROVE Awaits(t, Innermost(outer), p)
    OBVIOUS
  <2>1. Len(outer) \in Nat \ {0}
    BY <1>2, OuterIs
  <2> DEFINE k == n - 1
  <2>2. k = Len(outer) /\ k \in 1..Len(outer) /\ k \in 1..(n - 1) /\ k + 1 = n
    BY <1>2, <2>1
  <2> HIDE DEF k
  <2>3. Innermost(outer) = stack[k]
    BY <1>2, <2>2 DEF Innermost
  <2>4. Awaits(t, stack[k], stack[k + 1].at - 1)
    BY <1>4, <2>2 DEF Placed, n
  <2> QED
    BY <2>2, <2>3, <2>4 DEF p
<1>10. \A k \in 1..Len(outer) : IsFrame(outer[k])
  BY <1>2
<1>11. expect' \in Reading /\ Placed(t, stack') /\ Stands(t, expect', stack', document')
  BY <1>2, <1>5, <1>6, <1>7, <1>8, <1>9, <1>10, CompleteSound
<1> QED
  BY <1>11, SoundByNext DEF t

LEMMA ObjectCloseSound == ASSUME ShapeInv, SoundInv, CloseObject PROVE SoundInv'
<1>1. /\ expect \in {"separator", "first_key"} /\ InObject /\ Read("rbrace")
      /\ Complete(Outer(stack), Object(Top.members))
  BY DEF CloseObject, Below, Outer
<1>2. /\ "rbrace" \in Tokens /\ expect \in Reading
  BY <1>1, TokensAre DEF Reading
<1> DEFINE f == Innermost(stack)
           n == Len(text)
           t == text'
           i == f.at - 1
           j == Len(t)
<1>3. /\ Fit(expect, stack) /\ Placed(text, stack) /\ Stands(text, expect, stack, document)
  BY <1>2 DEF SoundInv, ShapeInv
<1>4. IsList(stack) /\ stack # <<>> /\ f.kind = "object" /\ Top = f
  BY <1>1, <1>3 DEF Fit, InObject, Top, Innermost
<1>5. f.at \in 1..n /\ text[f.at] = "lbrace"
  <2>1. Len(stack) \in 1..Len(stack)
    BY <1>4, OuterIs
  <2> QED
    BY <1>3, <1>4, <2>1 DEF Placed, Opener, Innermost
<1>6. /\ GoesOn(text, t) /\ n \in Nat /\ j = n + 1 /\ t[n + 1] = "rbrace"
      /\ \A k \in 0..n : IsPart(t, k, j)
  BY <1>1, <1>2, ReadGoesOn
<1> HIDE DEF f, t, j
<1>7. t[f.at] = "lbrace"
  BY <1>5, <1>6 DEF GoesOn
<1>8. IsPart(t, i, j) /\ f.at = i + 1 /\ n = j - 1 /\ t[i + 1] = "lbrace" /\ t[j] = "rbrace"
  BY <1>5, <1>6, <1>7
<1>9. Derives(t, "values", i, j, Object(f.members))
  <2>1. CASE expect = "separator"
    <3>1. Holds(t, f, n)
      BY <1>3, <1>6, <2>1, HoldsOn DEF Stands, f
    <3>2. Derives(t, "members", f.at, n, f.members)
      BY <1>4, <3>1 DEF Holds, Entries, Kept
    <3> HIDE DEF i, n
    <3> QED
      BY <1>7, <1>8, <3>2, ObjectDerived
  <2>2. CASE expect = "first_key"
    <3>1. n = f.at /\ NoneYet(f)
      BY <1>3, <2>2 DEF Stands, f
    <3>2. f.members = {}
      BY <1>4, <3>1 DEF NoneYet
    <3>3. j = i + 2
      BY <1>5, <1>6, <3>1
    <3> HIDE DEF i
    <3> QED
      BY <1>8, <3>2, <3>3, EmptyDerived
  <2> QED
    BY <1>1, <2>1, <2>2
<1> QED
  BY <1>1, <1>2, <1>4, <1>9, CloseSound DEF f, t, j

LEMMA ArrayCloseSound == ASSUME ShapeInv, SoundInv, CloseArray PROVE SoundInv'
<1>1. /\ expect \in {"separator", "first_item"} /\ InArray /\ Read("rbracket")
      /\ Complete(Outer(stack), Array(Top.items))
  BY DEF CloseArray, Below, Outer
<1>2. /\ "rbracket" \in Tokens /\ expect \in Reading
  BY <1>1, TokensAre DEF Reading
<1> DEFINE f == Innermost(stack)
           n == Len(text)
           t == text'
           i == f.at - 1
           j == Len(t)
<1>3. /\ Fit(expect, stack) /\ Placed(text, stack) /\ Stands(text, expect, stack, document)
  BY <1>2 DEF SoundInv, ShapeInv
<1>4. IsList(stack) /\ stack # <<>> /\ f.kind = "array" /\ Top = f
  BY <1>1, <1>3 DEF Fit, InArray, Top, Innermost
<1>5. f.at \in 1..n /\ text[f.at] = "lbracket"
  <2>1. Len(stack) \in 1..Len(stack)
    BY <1>4, OuterIs
  <2> QED
    BY <1>3, <1>4, <2>1 DEF Placed, Opener, Innermost
<1>6. /\ GoesOn(text, t) /\ n \in Nat /\ j = n + 1 /\ t[n + 1] = "rbracket"
      /\ \A k \in 0..n : IsPart(t, k, j)
  BY <1>1, <1>2, ReadGoesOn
<1> HIDE DEF f, t, j
<1>7. t[f.at] = "lbracket"
  BY <1>5, <1>6 DEF GoesOn
<1>8. IsPart(t, i, j) /\ f.at = i + 1 /\ n = j - 1 /\ t[i + 1] = "lbracket" /\ t[j] = "rbracket"
  BY <1>5, <1>6, <1>7
<1>9. Derives(t, "values", i, j, Array(f.items))
  <2>1. CASE expect = "separator"
    <3>1. Holds(t, f, n)
      BY <1>3, <1>6, <2>1, HoldsOn DEF Stands, f
    <3>2. Derives(t, "items", f.at, n, f.items)
      BY <1>4, <3>1 DEF Holds, Entries, Kept
    <3> HIDE DEF i, n
    <3> QED
      BY <1>7, <1>8, <3>2, ArrayDerived
  <2>2. CASE expect = "first_item"
    <3>1. n = f.at /\ NoneYet(f)
      BY <1>3, <2>2 DEF Stands, f
    <3>2. f.items = <<>>
      BY <1>4, <3>1 DEF NoneYet
    <3>3. j = i + 2
      BY <1>5, <1>6, <3>1
    <3> HIDE DEF i
    <3> QED
      BY <1>8, <3>2, <3>3, EmptyDerived
  <2> QED
    BY <1>1, <2>1, <2>2
<1> QED
  BY <1>1, <1>2, <1>4, <1>9, CloseSound DEF f, t, j

LEMMA VerdictSound == ASSUME ShapeInv, SoundInv, Refuse \/ EndOfText PROVE SoundInv'
<1>1. CASE Refuse
  BY <1>1 DEF Refuse, SoundInv, Reading
<1>2. CASE EndOfText
  <2>1. expect \in Reading /\ text' = text /\ document' = document
    BY <1>2 DEF EndOfText
  <2>2. expect' \notin Reading
    BY <1>2 DEF EndOfText, Reading
  <2>3. expect' = "accepted" => expect = "end"
    BY <1>2 DEF EndOfText
  <2>4. expect = "end" => Derives(text, "values", 0, Len(text), document)
    BY <2>1 DEF SoundInv, Stands
  <2> QED
    BY <2>1, <2>2, <2>3, <2>4 DEF SoundInv
<1> QED
  BY <1>1, <1>2

-----------------------------------------------------------------------------
(* The verdicts *)

\* A verdict against a text is right, but for words that are not supported.
VerdictInv ==
    /\ expect = "refused" =>
          text \notin JsonPrefixes \/ text[Len(text)] \in {w \in Words : Unsupported(w)}
    /\ expect = "cut" => text \notin JsonTexts

LEMMA RefuseVerdict == ASSUME ShapeInv, ViableInv, Refuse PROVE VerdictInv'
<1>1. PICK x \in Tokens \ Expected : Read(x)
  BY DEF Refuse
<1>2. expect \in Reading /\ expect' = "refused"
  BY DEF Refuse
<1>3. ASSUME text' \in JsonPrefixes PROVE text'[Len(text')] \in {w \in Words : Unsupported(w)}
  <2>1. PICK t \in JsonTexts : \E m \in 0..Len(t) : text' = SubSeq(t, 1, m)
    BY <1>3 DEF JsonPrefixes
  <2>2. PICK m \in 0..Len(t) : text' = SubSeq(t, 1, m)
    BY <2>1
  <2>3. t \in Seq(Tokens) /\ Len(t) \in Nat
    BY JsonTextIs, LenProperties DEF IsText
  <2>4. m \in Nat /\ m <= Len(t)
    BY <2>3
  <2>5. Len(text') = m /\ \A k \in 1..m : text'[k] = t[k]
    BY <2>2, <2>3, <2>4, FirstOnes
  <2>6. Begins(t)'
    BY <2>4, <2>5 DEF Begins
  <2>7. /\ Len(text) \in Nat /\ Len(text) + 1 <= Len(t)
        /\ t[Len(text) + 1] = x /\ Fit(expect, stack)
        /\ Continues(t, Len(text), expect, stack)
    BY <1>1, <1>2, <2>6, NextToken
  <2>8. CASE expect = "end"
    <3>1. Len(text) = Len(t)
      BY <2>7, <2>8 DEF Continues
    <3> QED
      BY <2>3, <2>7, <3>1
  <2>9. CASE expect # "end"
    <3>1. t[Len(text) + 1] \in Expected \/ t[Len(text) + 1] \in {w \in Words : Unsupported(w)}
      BY <1>2, <2>3, <2>7, <2>9, Meets
    <3>2. text'[Len(text')] = x
      BY <1>1, ReadToken DEF ShapeInv
    <3> QED
      BY <1>1, <2>7, <3>1, <3>2
  <2> QED
    BY <2>8, <2>9
<1> QED
  BY <1>2, <1>3 DEF VerdictInv

LEMMA EndVerdict == ASSUME ShapeInv, ViableInv, EndOfText PROVE VerdictInv'
<1>1. expect \in Reading /\ text' = text /\ expect' \in {"accepted", "cut"}
  BY DEF EndOfText
<1>2. ASSUME expect' = "cut", text \in JsonTexts PROVE FALSE
  <2>1. expect # "end"
    BY <1>2 DEF EndOfText
  <2>2. text \in Seq(Tokens) /\ Len(text) \in Nat /\ Fit(expect, stack)
    BY <1>1, LenProperties DEF ShapeInv
  <2>3. Begins(text)
    BY <2>2 DEF Begins
  <2>4. Continues(text, Len(text), expect, stack)
    BY <1>1, <1>2, <2>3 DEF ViableInv
  <2>5. Len(text) < Len(text)
    BY <1>1, <2>1, <2>2, <2>4, Meets
  <2> QED
    BY <2>2, <2>5
<1> QED
  BY <1>1, <1>2 DEF VerdictInv

-----------------------------------------------------------------------------
(* The words *)

\* Every word was read as a string, a number or a literal, up to one that is refused.
WordsInv ==
    expect \in Reading \cup {"accepted"} =>
        \A i \in 1..Len(text) : text[i] \in Words => text[i] \in ReaderStrings \cup ReaderScalars

LEMMA WordsByNext ==
    ASSUME ShapeInv, WordsInv, expect \in Reading, NEW x \in Tokens, Read(x),
           x \in Words => x \in ReaderStrings \cup ReaderScalars
    PROVE  WordsInv'
<1>1. /\ Len(text) \in Nat /\ Len(text') = Len(text) + 1 /\ text'[Len(text) + 1] = x
      /\ \A k \in 1..Len(text) : text'[k] = text[k]
  BY ReadToken DEF ShapeInv
<1>2. ASSUME NEW i \in 1..Len(text'), text'[i] \in Words
      PROVE  text'[i] \in ReaderStrings \cup ReaderScalars
  <2>1. CASE i = Len(text) + 1
    BY <1>1, <1>2, <2>1
  <2>2. CASE i # Len(text) + 1
    <3>1. i \in 1..Len(text)
      BY <1>1, <2>2
    <3> QED
      BY <1>1, <1>2, <3>1 DEF WordsInv
  <2> QED
    BY <2>1, <2>2
<1> QED
  BY <1>2 DEF WordsInv

LEMMA WordsStep == ASSUME ShapeInv, WordsInv, ParserNext PROVE WordsInv'
<1>0. \A x \in Punctuation : x \in Tokens /\ x \notin Words
  BY ParserAssumption DEF Tokens
<1>1. CASE ParseScalar
  <2>1. PICK x \in ReaderStrings \cup ReaderScalars : Read(x)
    BY <1>1 DEF ParseScalar
  <2>2. x \in Tokens /\ expect \in Reading
    BY <1>1, TokensAre, ReadIsDerived DEF ParseScalar, ValueStarts, Reading
  <2> QED
    BY <2>1, <2>2, WordsByNext
<1>2. CASE ParseKey
  <2>1. PICK x \in ReaderStrings : Read(x)
    BY <1>2 DEF ParseKey
  <2>2. x \in Tokens /\ expect \in Reading
    BY <1>2, TokensAre, ReadIsDerived DEF ParseKey, Reading
  <2> QED
    BY <2>1, <2>2, WordsByNext
<1>3. CASE OpenObject \/ OpenArray \/ ParseColon \/ ParseComma \/ CloseObject \/ CloseArray
  <2>1. /\ \E x \in Punctuation : Read(x)
        /\ expect \in Reading
    BY <1>3 DEF OpenObject, OpenArray, ParseColon, ParseComma, CloseObject, CloseArray,
        ValueStarts, Punctuation, Reading
  <2>2. PICK x \in Punctuation : Read(x)
    BY <2>1
  <2> QED
    BY <1>0, <2>1, <2>2, WordsByNext
<1>4. CASE Refuse
  BY <1>4 DEF Refuse, WordsInv, Reading
<1>5. CASE EndOfText
  <2>1. expect \in Reading /\ text' = text
    BY <1>5 DEF EndOfText
  <2> QED
    BY <2>1 DEF WordsInv
<1> QED
  BY <1>1, <1>2, <1>3, <1>4, <1>5 DEF ParserNext

-----------------------------------------------------------------------------
(* The reader *)

\* The inductive invariant of the reader.
ReaderInv == ShapeInv /\ SoundInv /\ ViableInv /\ VerdictInv /\ WordsInv

LEMMA ReaderInit == ParserInit => ReaderInv
<1> SUFFICES ASSUME ParserInit PROVE ReaderInv
  OBVIOUS
<1>1. text = <<>> /\ stack = <<>> /\ expect = "value" /\ Len(text) = 0 /\ Len(stack) = 0
  BY DEF ParserInit
<1>2. IsList(stack)
  <2>1. stack \in Seq({})
    BY <1>1
  <2> QED
    BY <2>1, SeqIsList
<1>3. Fit(expect, stack)
  BY <1>1, <1>2 DEF Fit
<1>4. ShapeInv
  BY <1>1, <1>3, ParserAssumption DEF ShapeInv, Reading
<1>5. SoundInv
  BY <1>1 DEF SoundInv, Placed, Stands
<1>6. ViableInv
  <2> SUFFICES ASSUME NEW t \in JsonTexts PROVE Continues(t, Len(text), expect, stack)
    BY DEF ViableInv
  <2>1. t \in Seq(Tokens) /\ Spans(t, "values", 0, Len(t))
    BY JsonTextIs DEF IsText
  <2>2. Rest(t, stack, Len(t))
    BY <1>1, <2>1, RestIsNothing
  <2> QED
    BY <1>1, <2>1, <2>2 DEF Continues
<1>7. VerdictInv /\ WordsInv
  BY <1>1 DEF VerdictInv, WordsInv
<1> QED
  BY <1>4, <1>5, <1>6, <1>7 DEF ReaderInv

LEMMA VerdictByNext ==
    ASSUME \/ ParseScalar \/ OpenObject \/ OpenArray \/ ParseKey \/ ParseColon \/ ParseComma
           \/ CloseObject \/ CloseArray
    PROVE  VerdictInv'
<1>1. ASSUME NEW open, NEW value, Complete(open, value) PROVE expect' \in {"end", "separator"}
  BY <1>1 DEF Complete
<1>2. CASE ParseScalar
  BY <1>1, <1>2 DEF ParseScalar, VerdictInv
<1>3. CASE CloseObject
  BY <1>1, <1>3 DEF CloseObject, VerdictInv
<1>4. CASE CloseArray
  BY <1>1, <1>4 DEF CloseArray, VerdictInv
<1>5. CASE OpenObject \/ OpenArray \/ ParseKey \/ ParseColon \/ ParseComma
  BY <1>5 DEF OpenObject, OpenArray, ParseKey, ParseColon, ParseComma, VerdictInv
<1> QED
  BY <1>2, <1>3, <1>4, <1>5

LEMMA ReaderStep == ReaderInv /\ ParserNext => ReaderInv'
<1> SUFFICES ASSUME ReaderInv, ParserNext PROVE ReaderInv'
  OBVIOUS
<1>0. ShapeInv /\ SoundInv /\ ViableInv
  BY DEF ReaderInv
<1>w. WordsInv'
  BY WordsStep DEF ReaderInv
<1>1. CASE ParseScalar
  <2>1. ShapeInv'
    BY <1>0, <1>1, ScalarShape
  <2>2. SoundInv'
    BY <1>0, <1>1, ScalarSound
  <2>3. ViableInv'
    BY <1>0, <1>1, ScalarViable
  <2>4. VerdictInv'
    BY <1>1, VerdictByNext
  <2> QED
    BY <1>w, <2>1, <2>2, <2>3, <2>4 DEF ReaderInv
<1>2. CASE OpenObject
  <2>1. ShapeInv'
    BY <1>0, <1>2, ObjectShape
  <2>2. SoundInv'
    BY <1>0, <1>2, ObjectSound
  <2>3. ViableInv'
    BY <1>0, <1>2, ObjectViable
  <2>4. VerdictInv'
    BY <1>2, VerdictByNext
  <2> QED
    BY <1>w, <2>1, <2>2, <2>3, <2>4 DEF ReaderInv
<1>3. CASE OpenArray
  <2>1. ShapeInv'
    BY <1>0, <1>3, ArrayShape
  <2>2. SoundInv'
    BY <1>0, <1>3, ArraySound
  <2>3. ViableInv'
    BY <1>0, <1>3, ArrayViable
  <2>4. VerdictInv'
    BY <1>3, VerdictByNext
  <2> QED
    BY <1>w, <2>1, <2>2, <2>3, <2>4 DEF ReaderInv
<1>4. CASE ParseKey
  <2>1. ShapeInv'
    BY <1>0, <1>4, KeyShape
  <2>2. SoundInv'
    BY <1>0, <1>4, KeySound
  <2>3. ViableInv'
    BY <1>0, <1>4, KeyViable
  <2>4. VerdictInv'
    BY <1>4, VerdictByNext
  <2> QED
    BY <1>w, <2>1, <2>2, <2>3, <2>4 DEF ReaderInv
<1>5. CASE ParseColon
  <2>1. ShapeInv'
    BY <1>0, <1>5, ColonShape
  <2>2. SoundInv'
    BY <1>0, <1>5, ColonSound
  <2>3. ViableInv'
    BY <1>0, <1>5, ColonViable
  <2>4. VerdictInv'
    BY <1>5, VerdictByNext
  <2> QED
    BY <1>w, <2>1, <2>2, <2>3, <2>4 DEF ReaderInv
<1>6. CASE ParseComma
  <2>1. ShapeInv'
    BY <1>0, <1>6, CommaShape
  <2>2. SoundInv'
    BY <1>0, <1>6, CommaSound
  <2>3. ViableInv'
    BY <1>0, <1>6, CommaViable
  <2>4. VerdictInv'
    BY <1>6, VerdictByNext
  <2> QED
    BY <1>w, <2>1, <2>2, <2>3, <2>4 DEF ReaderInv
<1>7. CASE CloseObject
  <2>1. ShapeInv'
    BY <1>0, <1>7, CloseShape
  <2>2. SoundInv'
    BY <1>0, <1>7, ObjectCloseSound
  <2>3. ViableInv'
    BY <1>0, <1>7, ObjectCloseViable
  <2>4. VerdictInv'
    BY <1>7, VerdictByNext
  <2> QED
    BY <1>w, <2>1, <2>2, <2>3, <2>4 DEF ReaderInv
<1>8. CASE CloseArray
  <2>1. ShapeInv'
    BY <1>0, <1>8, CloseShape
  <2>2. SoundInv'
    BY <1>0, <1>8, ArrayCloseSound
  <2>3. ViableInv'
    BY <1>0, <1>8, ArrayCloseViable
  <2>4. VerdictInv'
    BY <1>8, VerdictByNext
  <2> QED
    BY <1>w, <2>1, <2>2, <2>3, <2>4 DEF ReaderInv
<1>9. CASE Refuse \/ EndOfText
  <2>1. ShapeInv' /\ expect' \in Verdicts
    BY <1>0, <1>9, VerdictShape
  <2>2. SoundInv'
    BY <1>0, <1>9, VerdictSound
  <2>3. ViableInv'
    BY <2>1 DEF ViableInv, Verdicts, Reading
  <2>4. VerdictInv'
    BY <1>0, <1>9, RefuseVerdict, EndVerdict
  <2> QED
    BY <1>w, <2>1, <2>2, <2>3, <2>4 DEF ReaderInv
<1> QED
  BY <1>1, <1>2, <1>3, <1>4, <1>5, <1>6, <1>7, <1>8, <1>9 DEF ParserNext

LEMMA ReaderAccepts == ReaderInv => AcceptsJson
<1> SUFFICES ASSUME ReaderInv PROVE AcceptsJson
  OBVIOUS
<1>1. ASSUME expect = "accepted" PROVE [text |-> text, value |-> document] \in Json
  <2> DEFINE n == Len(text)
  <2>1. Derives(text, "values", 0, n, document)
    BY <1>1 DEF ReaderInv, SoundInv
  <2>2. text \in Seq(Tokens) /\ n \in Nat /\ n <= MaxTokens
    BY LenProperties DEF ReaderInv, ShapeInv
  <2>3. Part(text, 0, n) = text
    BY <2>2, WholePart
  <2> HIDE DEF n
  <2>4. n - 0 = n /\ n \in 0..MaxTokens
    BY <2>2, ParserAssumption
  <2>5. Derived(text, document) \in JsonOf[n].values
    BY <2>1, <2>3, <2>4 DEF Derives
  <2> QED
    BY <2>4, <2>5 DEF Json, Derived
<1>2. ASSUME expect = "accepted", NEW i \in DOMAIN text, text[i] \in Words
      PROVE  OfJson(text[i]) \/ Lenient(text[i])
  <2>1. i \in 1..Len(text)
    BY DEF ReaderInv, ShapeInv
  <2>2. text[i] \in ReaderStrings \cup ReaderScalars
    BY <1>2, <2>1 DEF ReaderInv, WordsInv
  <2> QED
    BY <2>2, ReadIsJson
<1> QED
  BY <1>1, <1>2 DEF AcceptsJson, ReaderInv, VerdictInv

-----------------------------------------------------------------------------
LEMMA ReaderStays == ReaderInv /\ [Next]_vars => ReaderInv'
<1> SUFFICES ASSUME ReaderInv, [Next]_vars PROVE ReaderInv'
  OBVIOUS
<1>1. CASE ReadForeign
  BY <1>1, ReaderStep DEF ReadForeign
<1>2. CASE UNCHANGED parserVars
  <2>1. text' = text /\ stack' = stack /\ expect' = expect /\ document' = document
    BY <1>2 DEF parserVars
  <2> QED
    BY <2>1 DEF ReaderInv, ShapeInv, SoundInv, ViableInv, VerdictInv, WordsInv, Begins
<1>3. ReadForeign \/ UNCHANGED parserVars
  <2>1. MergeNext => UNCHANGED parserVars
    BY DEF MergeNext, LoadPlatform, EntryFails, AddEntry, NextCategory, Validate, OpenOutput,
           DumpOutput
  <2>2. ManagerNext => ReadForeign \/ UNCHANGED parserVars
    BY DEF ManagerNext, LoadMachineManifest, LoadProcesses, LoadPlatformConfig, StartProcess,
           PassProcess, StartNext, StartThenRun, EnterLoop, Started
  <2>3. UNCHANGED vars => UNCHANGED parserVars
    BY DEF vars
  <2> QED
    BY <2>1, <2>2, <2>3 DEF Next
<1> QED
  BY <1>1, <1>2, <1>3

\* What the reader accepts is a text of JSON's grammar, with a value that the grammar
\* gives it, and each word in it is JSON's or read leniently; it refuses a token only when
\* no text of the grammar goes on with it, or it is a word that the reader does not
\* support; and it calls a text cut only when the grammar does not derive it.
THEOREM ReadsJson == Spec => []AcceptsJson
<1>1. Init => ReaderInv
  BY ReaderInit DEF Init
<1>2. ReaderInv /\ [Next]_vars => ReaderInv'
  BY ReaderStays
<1>3. ReaderInv => AcceptsJson
  BY ReaderAccepts
<1> QED
  BY <1>1, <1>2, <1>3, PTL DEF Spec

=============================================================================
