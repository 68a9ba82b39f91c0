--------------------------- MODULE ManifestPipeline ---------------------------
(***************************************************************************)
(* From the ARXML of the applications to the processes that run: the build *)
(* converts each execution manifest to JSON (arxml2json.py), merges them   *)
(* into one file (merge_execution_manifests.py), and the Execution Manager *)
(* reads that file and starts what it selects.  The manager may start      *)
(* while a build runs, and finds the file as the build left it.            *)
(*                                                                         *)
(* A JSON object is a record; a member that is missing is a field that is  *)
(* not there.  A reference to a startup configuration is a package and a   *)
(* name, of which the merge and the manager both look at the name only.    *)
(***************************************************************************)
EXTENDS JsonParser, SequencesExt

CONSTANTS
    Worlds          \* what the build and the manager are given, see WorldType

Member(object, key) == key \in DOMAIN object
Has(object, keys) == keys \subseteq DOMAIN object

\* The machine manifest is a file of which nothing is known but its tokens.
Foreign == "foreign"

\* Calls of the merge for each application, in order.
Categories == <<"processes", "executables", "startupConfigs">>

IsList(s) == s \in Seq(ToSet(s))

\* A manifest has a list of each category, and may have other members.
IsManifest(m) ==
    /\ m = [k \in DOMAIN m |-> m[k]]
    /\ \A c \in ToSet(Categories) : Member(m, c) /\ IsList(m[c])

\* What the conversion of an ARXML gives each entry: a name, a configuration the list of
\* its states, and a startup configuration its arguments; a path it gives none.
Regular(m) ==
    /\ \A c \in ToSet(Categories) : \A e \in ToSet(m[c]) : Member(e, "shortName")
    /\ \A e \in ToSet(m.startupConfigs) : Member(e, "processArguments")

StatesListed(configs) == \A d \in ToSet(configs) : Member(d, "functionGroupStates")

\* apps: the ARXML of each application; platform: the JSON of the platform;
\* machine: the function groups of the machine manifest, whose "name" is shortName here;
\* older: the output of an earlier build, if there is one.
WellFormed(w) ==
    /\ IsManifest(w.platform) /\ Regular(w.platform)
    /\ \A p \in ToSet(w.platform.processes) : ~Member(p, "executablePath")
    /\ IsList(w.apps)
    /\ \A a \in ToSet(w.apps) :
        /\ \A c \in ToSet(Categories) : IsList(a[c])
        /\ Regular(a)
        /\ \A p \in ToSet(a.processes) : Member(p, "configs") => StatesListed(p.configs)

ASSUME WorldAssumption == \A w \in Worlds : WellFormed(w)

VARIABLES
    world,          \* an element of Worlds; it does not change
    build,          \* the control point of the merge
    app, category, position,    \* the entry that the merge looks at next
    merged,         \* the manifest under construction
    out,            \* the file execution_manifest.json
    em,             \* the control point of the manager
    loaded,         \* the execution manifest that the manager has read
    settings,       \* platform_config_
    machine_state,
    turn,           \* the process that the loop over them looks at next
    started         \* the processes that were started, in order

mergeVars == <<build, app, category, position, merged>>
managerVars == <<em, loaded, settings, machine_state, turn, started>>
vars == <<world, mergeVars, out, managerVars, parserVars>>

Absent == [status |-> "absent"]
Cut == [status |-> "cut"]
Whole(manifest) == [status |-> "whole", manifest |-> manifest]

DefaultSettings == [reportingTimeoutMs |-> 2000, shutdownGracePeriodMs |-> 1000]

Init ==
    /\ world \in Worlds
    /\ build = "load" /\ app = 1 /\ category = 1 /\ position = 1
    /\ merged = world.platform
    /\ out = world.older
    /\ em = "off" /\ loaded = Absent /\ settings = DefaultSettings
    /\ machine_state = "" /\ turn = 1 /\ started = <<>>
    /\ ParserInit
-----------------------------------------------------------------------------
(* arxml2json.py *)

\* The configurations of a process; a process that has none of its own is given the
\* first ones in the document.
StateDependentConfigs(doc, process) ==
    IF Member(process, "configs") THEN process.configs
    ELSE LET with == {i \in DOMAIN doc.processes : Member(doc.processes[i], "configs")} IN
         IF with = {} THEN <<>>
         ELSE doc.processes[CHOOSE i \in with : \A j \in with : i <= j].configs

\* executableName is there only if the process names an executable.
ProcessObject(doc, process) ==
    [k \in (DOMAIN process \ {"configs"}) \cup {"stateDependentStartupConfigs"} |->
        IF k = "stateDependentStartupConfigs" THEN StateDependentConfigs(doc, process)
        ELSE process[k]]

\* An entry of the JSON that stands for an element of the ARXML; the package of a
\* startup configuration is lost.
Converted(doc, c, element) ==
    CASE c = "processes" -> ProcessObject(doc, element)
      [] c = "executables" -> element
      [] c = "startupConfigs" -> [k \in DOMAIN element \ {"package"} |-> element[k]]
-----------------------------------------------------------------------------
(* merge_execution_manifests.py *)

Goto(label) == build = "merge" /\ build' = label

\* The index of add_unique_by_short_name: of two entries of one name, the last.
Named(items, name) == {i \in DOMAIN items : items[i].shortName = name}
Existing(items, name) ==
    items[CHOOSE i \in Named(items, name) : \A j \in Named(items, name) : j <= i]

NamesAgree(items) == \A e, f \in ToSet(items) : e.shortName = f.shortName => e = f

\* Mutant: the platform's own entries are not compared with each other.
PlatformUnchecked == TRUE

\* Its executables and startup configurations are; its processes are not looked at.
PlatformAgrees ==
    NamesAgree(world.platform.executables) /\ NamesAgree(world.platform.startupConfigs)

LoadPlatform ==
    /\ build = "load"
    /\ build' = IF PlatformAgrees THEN "merge" ELSE "failed"
    /\ UNCHANGED <<world, app, category, position, merged, out, managerVars, parserVars>>

Items == world.apps[app][Categories[category]]
Here == app <= Len(world.apps) /\ position <= Len(Items)

\* The program lies next to the manifest of its application.
Located(a, process) ==
    [k \in DOMAIN process \cup {"executablePath"} |->
        IF k = "executablePath" THEN <<a, process.executableName>> ELSE process[k]]

JsonEntry(a, c, i) ==
    LET entry == Converted(world.apps[a], Categories[c], world.apps[a][Categories[c]][i])
    IN IF c = 1 THEN Located(a, entry) ELSE entry

Incoming == JsonEntry(app, category, position)
Known == merged[Categories[category]]

Incomplete == category = 1 /\ ~Member(Items[position], "executableName")

\* Mutant: of two entries of one name the first is kept, whatever the second says.
FirstWins == Incomplete

\* A process without an executable, or two definitions of one name that differ.
Conflicts ==
    IF Incomplete THEN TRUE
    ELSE /\ Named(Known, Incoming.shortName) # {}
         /\ Existing(Known, Incoming.shortName) # Incoming

EntryFails ==
    /\ Here /\ Goto("failed")
    /\ Conflicts
    /\ UNCHANGED <<world, app, category, position, merged, out, managerVars, parserVars>>

AddEntry ==
    /\ Here /\ Goto("merge")
    /\ ~Conflicts
    /\ merged' = IF Named(Known, Incoming.shortName) # {} THEN merged
                 ELSE [merged EXCEPT ![Categories[category]] = Append(@, Incoming)]
    /\ position' = position + 1
    /\ UNCHANGED <<world, app, category, out, managerVars, parserVars>>

NextCategory ==
    /\ app <= Len(world.apps) /\ position > Len(Items) /\ Goto("merge")
    /\ position' = 1
    /\ category' = IF category = 3 THEN 1 ELSE category + 1
    /\ app' = IF category = 3 THEN app + 1 ELSE app
    /\ UNCHANGED <<world, merged, out, managerVars, parserVars>>

\* Mutant: references are not checked.
AnyReference(manifest) == TRUE

\* A process without startupConfigRef is passed over.
ReferencesResolve(manifest) ==
    \A p \in ToSet(manifest.processes) :
        Member(p, "stateDependentStartupConfigs") =>
            \A d \in ToSet(p.stateDependentStartupConfigs) :
                Member(d, "startupConfigRef") =>
                    Named(manifest.startupConfigs, d.startupConfigRef.name) # {}

Validate ==
    /\ app > Len(world.apps)
    /\ Goto(IF ReferencesResolve(merged) THEN "write" ELSE "failed")
    /\ UNCHANGED <<world, app, category, position, merged, out, managerVars, parserVars>>

\* Opening the file for writing empties it.
OpenOutput ==
    /\ build = "write" /\ build' = "dump"
    /\ out' = Cut
    /\ UNCHANGED <<world, app, category, position, merged, managerVars, parserVars>>

DumpOutput ==
    /\ build = "dump" /\ build' = "done"
    /\ out' = Whole(merged)
    /\ UNCHANGED <<world, app, category, position, merged, managerVars, parserVars>>
-----------------------------------------------------------------------------
(* The Execution Manager reads its manifests *)

EmGoto(from, to) == em = from /\ em' = to

First(items, name) ==
    items[CHOOSE i \in Named(items, name) : \A j \in Named(items, name) : i <= j]

\* The machine manifest names an initial state for MachineFG.
MachineLoads(groups) ==
    /\ Named(groups, "MachineFG") # {}
    /\ Member(First(groups, "MachineFG"), "initialState")
    /\ First(groups, "MachineFG").initialState # ""

LoadMachineManifest ==
    /\ world.machine # Foreign
    /\ EmGoto("off", IF MachineLoads(world.machine) THEN "processes" ELSE "failed")
    /\ machine_state' = IF MachineLoads(world.machine)
                        THEN First(world.machine, "MachineFG").initialState ELSE ""
    /\ UNCHANGED <<world, mergeVars, out, loaded, settings, turn, started, parserVars>>

\* The text of an unknown file is read; if it is JSON, it has no member "machine".
ReadForeign ==
    /\ world.machine = Foreign /\ em = "off"
    /\ ParserNext
    /\ em' = IF expect' \in Verdicts THEN "failed" ELSE "off"
    /\ UNCHANGED <<world, mergeVars, out, loaded, settings, machine_state, turn, started>>

ReportingLoads(manifest, executable) ==
    Named(manifest.executables, executable) # {} =>
        Member(First(manifest.executables, executable), "reportingBehavior")

ConfigLoads(manifest, d) ==
    /\ Has(d, {"startupConfigRef", "functionGroupStates"})
    /\ Named(manifest.startupConfigs, d.startupConfigRef.name) # {}
    /\ Has(First(manifest.startupConfigs, d.startupConfigRef.name),
           {"processArguments", "terminationBehavior"})

ProcessLoads(manifest, p) ==
    /\ Has(p, {"executableName", "executablePath", "stateDependentStartupConfigs"})
    /\ ReportingLoads(manifest, p.executableName)
    /\ \A d \in ToSet(p.stateDependentStartupConfigs) : ConfigLoads(manifest, d)

ProcessesLoad(file) ==
    /\ file.status = "whole"
    /\ \A p \in ToSet(file.manifest.processes) : ProcessLoads(file.manifest, p)

LoadProcesses ==
    /\ EmGoto("processes", IF ProcessesLoad(out) THEN "settings" ELSE "failed")
    /\ loaded' = out
    /\ UNCHANGED <<world, mergeVars, out, settings, machine_state, turn, started, parserVars>>

\* The file is read a second time, for the settings of the platform.
Settings(manifest) == IF Member(manifest, "platform") THEN manifest.platform ELSE <<>>

SettingsLoad(file) ==
    /\ file.status = "whole"
    /\ \A k \in DOMAIN DefaultSettings \cap DOMAIN Settings(file.manifest) :
         Settings(file.manifest)[k].kind = "number"

LoadPlatformConfig ==
    /\ EmGoto("settings", IF SettingsLoad(out) THEN "start" ELSE "failed")
    /\ settings' = IF ~SettingsLoad(out) THEN settings
                   ELSE [k \in DOMAIN DefaultSettings |->
                           IF Member(Settings(out.manifest), k)
                           THEN Settings(out.manifest)[k].value ELSE DefaultSettings[k]]
    /\ UNCHANGED <<world, mergeVars, out, loaded, machine_state, turn, started, parserVars>>
-----------------------------------------------------------------------------
(* The manager starts its processes, see ExecutionManager for their lives *)

\* A configuration counts once for each of its selectors that match.
Matches(d, state) ==
    SelectSeq(d.functionGroupStates,
              LAMBDA s : s.functionGroup = "MachineFG" /\ s.state = state)

\* Mutant: the function group of a selector is not looked at.
HasMatchingState(p, state) ==
    \E d \in ToSet(p.stateDependentStartupConfigs) :
        \E s \in ToSet(d.functionGroupStates) : s.state = state

HasMatchingStartupConfig(p, state) ==
    \E d \in ToSet(p.stateDependentStartupConfigs) : Matches(d, state) # <<>>

\* Environment variables are collected by the same loop.
ArgumentsFor(manifest, p, state) ==
    LET configs == p.stateDependentStartupConfigs
        Of(d) == FlattenSeq([i \in DOMAIN Matches(d, state) |->
                    First(manifest.startupConfigs, d.startupConfigRef.name).processArguments])
    IN FlattenSeq([i \in DOMAIN configs |-> Of(configs[i])])

ReportingBehavior(manifest, executable) ==
    IF Named(manifest.executables, executable) = {} THEN "DOES-NOT-REPORT-EXECUTION-STATE"
    ELSE First(manifest.executables, executable).reportingBehavior

StartRecord(manifest, p, state) ==
    [process |-> p.shortName, path |-> p.executablePath, state |-> state,
     arguments |-> ArgumentsFor(manifest, p, state),
     reporting |-> ReportingBehavior(manifest, p.executableName)]

StartNext(starts) ==
    /\ EmGoto("start", "start") /\ turn <= Len(loaded.manifest.processes)
    /\ HasMatchingStartupConfig(loaded.manifest.processes[turn], machine_state) <=> starts
    /\ turn' = turn + 1
    /\ UNCHANGED <<world, mergeVars, out, loaded, settings, machine_state, parserVars>>

StartProcess ==
    /\ StartNext(TRUE)
    /\ started' = Append(started, StartRecord(loaded.manifest,
                                             loaded.manifest.processes[turn], machine_state))

PassProcess == StartNext(FALSE) /\ UNCHANGED started

\* All are started; from Startup the machine goes on to Running, and starts again.
Started(next) ==
    /\ EmGoto("start", next) /\ turn > Len(loaded.manifest.processes)
    /\ UNCHANGED <<world, mergeVars, out, loaded, settings, started, parserVars>>

StartThenRun ==
    /\ Started("start")
    /\ machine_state = "Startup" /\ machine_state' = "Running" /\ turn' = 1

EnterLoop ==
    /\ Started("loop")
    /\ machine_state # "Startup" /\ UNCHANGED <<machine_state, turn>>
-----------------------------------------------------------------------------
MergeNext ==
    \/ LoadPlatform \/ EntryFails \/ AddEntry \/ NextCategory \/ Validate
    \/ OpenOutput \/ DumpOutput

ManagerNext ==
    \/ LoadMachineManifest \/ ReadForeign \/ LoadProcesses \/ LoadPlatformConfig
    \/ StartProcess \/ PassProcess \/ StartThenRun \/ EnterLoop

Next == MergeNext \/ ManagerNext

Spec == Init /\ [][Next]_vars
-----------------------------------------------------------------------------
(* Properties *)

\* The manifest in this file was written by the build of this behaviour.
Fresh(file) == file.status = "whole" /\ file # world.older

\* Before the place that the merge has come to.
Passed(a, c, i) ==
    \/ a < app
    \/ (a = app /\ c < category)
    \/ (a = app /\ c = category /\ i < position)

\* Where an entry of the merged manifest comes from.
OfWorld(c, e) ==
    \/ e \in ToSet(world.platform[Categories[c]])
    \/ \E a \in DOMAIN world.apps : \E i \in DOMAIN world.apps[a][Categories[c]] :
        /\ e = JsonEntry(a, c, i)
        /\ c = 1 => Member(world.apps[a].processes[i], "executableName")

NamedOnce(items) ==
    \A i, j \in DOMAIN items : items[i].shortName = items[j].shortName => i = j

PositionInv ==
    /\ WellFormed(world) /\ IsManifest(merged)
    /\ app \in 1..(Len(world.apps) + 1) /\ category \in 1..3 /\ position \in Nat \ {0}
    /\ build = "load" => <<app, category, position>> = <<1, 1, 1>> /\ merged = world.platform
    /\ build \in {"write", "dump", "done"} => app = Len(world.apps) + 1

\* The merge keeps the platform's entries. Of every name, it has one definition, and it
\* has those of all entries that the merge has passed, and no others.
MergedInv ==
    build \notin {"load", "failed"} =>
        /\ NamesAgree(merged.executables) /\ NamesAgree(merged.startupConfigs)
        /\ world.platform.processes = <<>> => NamedOnce(merged.processes)
        /\ \A c \in 1..3 : ToSet(world.platform[Categories[c]]) \subseteq ToSet(merged[Categories[c]])
        /\ \A a \in DOMAIN world.apps, c \in 1..3 :
             \A i \in DOMAIN world.apps[a][Categories[c]] :
                Passed(a, c, i) => JsonEntry(a, c, i) \in ToSet(merged[Categories[c]])
        /\ \A c \in 1..3 : \A e \in ToSet(merged[Categories[c]]) : OfWorld(c, e)

\* What is written, and what the manager has read of it, is the merged manifest.
WrittenInv ==
    /\ build \in {"write", "dump", "done"} => ReferencesResolve(merged)
    /\ out \in {world.older, Cut} \/ (build = "done" /\ out = Whole(merged))
    /\ build = "done" => out = Whole(merged)
    /\ loaded \in {Absent, world.older, Cut} \/ (build = "done" /\ loaded = Whole(merged))

\* What the manager has found out of the file it has read.
LoadedInv ==
    /\ em \in {"off", "processes"} => loaded = Absent
    /\ em \in {"settings", "start", "loop"} => ProcessesLoad(loaded)
    /\ em = "failed" /\ Fresh(loaded) => ~ProcessesLoad(loaded) \/ ~SettingsLoad(loaded)
    /\ em \notin {"start", "loop"} => started = <<>> /\ turn = 1

\* The processes that the loop has come past in a state of the machine.
Initial == First(world.machine, "MachineFG").initialState
Past(i, state) ==
    \/ state = machine_state /\ i < turn
    \/ state = "Startup" /\ state = Initial /\ machine_state = "Running"

MachineInv ==
    /\ em \in {"processes", "settings"} => machine_state = Initial
    /\ em \in {"start", "loop"} =>
        /\ machine_state = Initial \/ (Initial = "Startup" /\ machine_state = "Running")
        /\ IsList(started) /\ turn \in Nat \ {0}
    /\ em = "loop" => machine_state # "Startup"

\* A process that the loop has come past was started if it is to be, as the manifest says,
\* and nothing else was.
Due(i, state) ==
    Past(i, state) /\ HasMatchingStartupConfig(loaded.manifest.processes[i], state)
Record(i, state) == StartRecord(loaded.manifest, loaded.manifest.processes[i], state)

StartedInv ==
    em \in {"start", "loop"} /\ Fresh(loaded) =>
        /\ em = "loop" => turn > Len(loaded.manifest.processes)
        /\ \A k \in DOMAIN started : \E i \in DOMAIN loaded.manifest.processes :
             Due(i, started[k].state) /\ started[k] = Record(i, started[k].state)
        /\ \A i \in DOMAIN loaded.manifest.processes, state \in {Initial, machine_state} :
             Due(i, state) => Record(i, state) \in ToSet(started)
        /\ \A k, l \in DOMAIN started :
             started[k].process = started[l].process /\ started[k].state = started[l].state
                 => k = l

\* The inductive invariant.
IInv == PositionInv /\ MergedInv /\ WrittenInv /\ LoadedInv /\ MachineInv /\ StartedInv

\* Whatever a manifest of an application defines, the written manifest gives to those
\* who look for its name, although packages are forgotten and the definitions of all
\* applications share one space of names.
DefinitionsKeepMeaning ==
    Fresh(out) => \A a \in DOMAIN world.apps, c \in {2, 3} :
        \A i \in DOMAIN world.apps[a][Categories[c]] :
            LET entry == JsonEntry(a, c, i)
            IN /\ Named(out.manifest[Categories[c]], entry.shortName) # {}
               /\ First(out.manifest[Categories[c]], entry.shortName) = entry

\* A written manifest is refused only for a member that the ARXML left out.
WrittenManifestLoads ==
    em = "failed" /\ Fresh(loaded) =>
        \/ \E p \in ToSet(loaded.manifest.processes) :
             \/ ~Member(p, "executablePath")
             \/ \E d \in ToSet(p.stateDependentStartupConfigs) : ~Member(d, "startupConfigRef")
        \/ \E e \in ToSet(loaded.manifest.executables) : ~Member(e, "reportingBehavior")
        \/ \E c \in ToSet(loaded.manifest.startupConfigs) : ~Member(c, "terminationBehavior")
        \/ ~SettingsLoad(loaded)

\* The reference by path, as the ARXML means it.
At(doc, ref) == {c \in ToSet(doc.startupConfigs) : c.package = ref.package /\ c.shortName = ref.name}

\* Configurations of its own, whose references the same document defines.
SelfContained(doc, p) ==
    /\ Has(p, {"configs", "executableName"})
    /\ \A d \in ToSet(p.configs) : Member(d, "startupConfigRef") /\ At(doc, d.startupConfigRef) # {}
    /\ \E e \in ToSet(doc.executables) : e.shortName = p.executableName

DeclaredArguments(doc, p, state) ==
    FlattenSeq([i \in DOMAIN p.configs |->
        LET c == CHOOSE c \in At(doc, p.configs[i].startupConfigRef) : TRUE
        IN FlattenSeq([j \in DOMAIN Matches(p.configs[i], state) |-> c.processArguments])])

DeclaredIn(p, state) == \E d \in ToSet(p.configs) : Matches(d, state) # <<>>

Visited == IF em # "loop" THEN {} ELSE {Initial, machine_state}

\* A process whose ARXML is complete in itself is started once in each state that the
\* machine enters and that the ARXML names, in no other, with the arguments and the
\* reporting behaviour that the ARXML gives by path.
StartedAsDeclared ==
    Fresh(loaded) => \A a \in DOMAIN world.apps : LET doc == world.apps[a] IN
        \A p \in {q \in ToSet(doc.processes) : SelfContained(doc, q)} :
            LET Starts(state) == {i \in DOMAIN started : /\ started[i].process = p.shortName
                                                        /\ started[i].state = state}
            IN /\ \A state \in Visited : DeclaredIn(p, state) <=> Cardinality(Starts(state)) = 1
               /\ \A i \in DOMAIN started : started[i].process = p.shortName =>
                    /\ DeclaredIn(p, started[i].state)
                    /\ started[i].arguments = DeclaredArguments(doc, p, started[i].state)
                    /\ started[i].path = <<a, p.executableName>>
                    /\ \E e \in ToSet(doc.executables) :
                         /\ e.shortName = p.executableName
                         /\ e.reportingBehavior = started[i].reporting
=============================================================================
