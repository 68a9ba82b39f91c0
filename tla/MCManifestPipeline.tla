------------------------- MODULE MCManifestPipeline -------------------------
(***************************************************************************)
(* Small manifests for ManifestPipeline.                                   *)
(***************************************************************************)
EXTENDS ManifestPipeline

Config(package, name, argument) ==
    [package |-> package, shortName |-> name, processArguments |-> <<argument>>,
     terminationBehavior |-> "self"]
NoTermination == [package |-> "P", shortName |-> "s", processArguments |-> <<"x">>]

ConfigSets == {<<>>, <<NoTermination>>, <<Config("P", "s", "x")>>, <<Config("P", "s", "y")>>,
    <<Config("P", "s", "x"), Config("P", "t", "y")>>,
    <<Config("P", "s", "x"), Config("Q", "s", "x")>>,
    <<Config("P", "s", "x"), Config("Q", "s", "y")>>}

Selector(group, state) == [functionGroup |-> group, state |-> state]
In(states, package, name) ==
    [functionGroupStates |-> states, startupConfigRef |-> [package |-> package, name |-> name]]
Running == <<Selector("MachineFG", "Running")>>
Startup == <<Selector("MachineFG", "Startup")>>

ContainerSets == {<<>>, <<In(Running, "P", "s")>>, <<In(Running, "Q", "s")>>,
    <<[functionGroupStates |-> Running]>>,
    <<In(<<Selector("OtherFG", "Running")>>, "P", "s")>>,
    <<In(Startup, "P", "s"), In(Running, "P", "t")>>,
    <<In(Running \o Running \o <<Selector("OtherFG", "Running")>>, "P", "s"), In(Running, "P", "t")>>}

Process(name, configs) == [shortName |-> name, executableName |-> "e", configs |-> configs]
Inheriting(name) == [shortName |-> name, executableName |-> "e"]
Programless(name) == [shortName |-> name, configs |-> <<>>]

Reports == <<[shortName |-> "e", reportingBehavior |-> "reports"]>>
Silent == <<[shortName |-> "e", reportingBehavior |-> "silent"]>>
Unsaid == <<[shortName |-> "e"]>>

Doc(processes, executables, configs) ==
    [processes |-> processes, executables |-> executables, startupConfigs |-> configs]

FirstApps ==
    {Doc(<<Process("p", k)>>, e, c) : k \in ContainerSets, e \in {Reports, Unsaid}, c \in ConfigSets}
    \cup {Doc(<<Process("p", k), Inheriting("r")>>, Reports, c) : k \in ContainerSets, c \in ConfigSets}
    \cup {Doc(<<Programless("p")>>, Reports, <<>>), Doc(<<Inheriting("p")>>, <<>>, <<>>)}

SecondApps ==
    {Doc(<<>>, <<>>, <<>>), Doc(<<Process("p", <<In(Running, "P", "s")>>)>>, <<>>, <<>>)}
    \cup {Doc(<<Process("q", <<In(Running, "P", "s")>>)>>, e, c) :
            e \in {<<>>, Reports, Silent}, c \in {<<>>, <<Config("P", "s", "x")>>, <<Config("R", "s", "x")>>}}

Empty == [processes |-> <<>>, executables |-> <<>>, startupConfigs |-> <<>>]
Number(n) == [kind |-> "number", value |-> n]
Tuned == [platform |-> [reportingTimeoutMs |-> Number(500)]] @@ Empty
Mistuned == [platform |-> [reportingTimeoutMs |-> [kind |-> "string"]]] @@ Empty
Unplaced == [Empty EXCEPT !.processes =
    <<[shortName |-> "z", executableName |-> "z", stateDependentStartupConfigs |-> <<>>]>>]
Twofold == [Empty EXCEPT !.executables = Reports \o Silent]

StartsUp == <<[shortName |-> "OtherFG"], [shortName |-> "MachineFG", initialState |-> "Startup"]>>
Runs == <<[shortName |-> "MachineFG", initialState |-> "Running"]>>
Stateless == <<[shortName |-> "MachineFG"]>>

World(apps, platform, machine, older) ==
    [apps |-> apps, platform |-> platform, machine |-> machine, older |-> older]

SmallWorlds ==
    {World(<<a, b>>, Empty, m, o) : a \in FirstApps, b \in SecondApps, m \in {StartsUp, Runs},
                                    o \in {Absent, Whole(Tuned)}}
    \cup {World(<<a>>, p, m, o) :
            a \in {Doc(<<Process("p", <<In(Running, "P", "s")>>)>>, Reports, <<Config("P", "s", "x")>>),
                   Doc(<<Programless("p")>>, Reports, <<>>)},
            p \in {Empty, Tuned, Mistuned, Unplaced, Twofold},
            m \in {StartsUp, Runs, Stateless},
            o \in {Absent, Whole(Tuned)}}
    \cup {World(<<>>, Twofold, Foreign, Absent)}

\* Two strings that the reader takes, of which JSON has one, and two that it does not
\* take, of which JSON has one; the same of numbers, without one that neither has.
SmallSpelling ==
    "key" :> <<"quote", "other", "backslash", "quote", "quote">>
    @@ "raw" :> <<"quote", "control", "quote">>
    @@ "unicode" :> <<"quote", "backslash", "u", "0", "9", "a", "e", "quote">>
    @@ "open" :> <<"quote", "backslash", "quote">>
    @@ "number" :> <<"-", "0", ".", "9", "e", "+", "0">>
    @@ "padded" :> <<"0", "0", "9", ".">>
    @@ "huge" :> <<"9", "e", "9", "9">>
HugeNumber == {"huge"}
=============================================================================
