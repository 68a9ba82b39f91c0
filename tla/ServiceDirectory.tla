--------------------------- MODULE ServiceDirectory ---------------------------
(***************************************************************************)
(* What the registry of ara::com promises its callers: every operation     *)
(* takes effect at one moment between its call and its return, on a        *)
(* directory that knows for every service instance the endpoint under      *)
(* which it is offered, and for every instance specifier the instance it   *)
(* stands for.  Each half of the directory holds at most Capacity entries. *)
(*                                                                         *)
(* An operation that is refused because a string does not fit leaves what  *)
(* it had already overwritten, as the program does.                        *)
(***************************************************************************)
EXTENDS Naturals, FiniteSets

CONSTANTS
    Processes, Operations,
    ServiceKeys,    \* pairs of a service and an instance identifier
    Specifiers,     \* instance specifiers
    TooLong,        \* the strings that exceed the array they are copied to
    Capacity        \* kMaxRegistryEntries

CONSTANTS Nothing, Unknown      \* no operation, no answer; not in the directory

VARIABLES
    offers,         \* what every service key is offered under, or Unknown
    mappings,       \* what every specifier is mapped to, or Unknown
    call,           \* the operation each process is in, or Nothing
    answer          \* what the operation answered, or Nothing

directoryVars == <<offers, mappings, call, answer>>

Fits(x) == x \notin TooLong
Known(directory) == {k \in DOMAIN directory : directory[k] # Unknown}
Room(directory) == Cardinality(Known(directory)) < Capacity

Init ==
    /\ offers = [k \in ServiceKeys |-> Unknown]
    /\ mappings = [s \in Specifiers |-> Unknown]
    /\ call = [p \in Processes |-> Nothing]
    /\ answer = [p \in Processes |-> Nothing]

Invoke(p, op) ==
    /\ call[p] = Nothing
    /\ call' = [call EXCEPT ![p] = op]
    /\ answer' = [answer EXCEPT ![p] = Nothing]
    /\ UNCHANGED <<offers, mappings>>

\* What an operation answers: a status, and what a search found.
Status(status) == [status |-> status, found |-> {}]
Found(found) == [status |-> "ok", found |-> found]

Answer(p, value) == answer' = [answer EXCEPT ![p] = value]

Offer(p, key, metadata) ==
    \/ /\ key \in Known(offers) \/ (Fits(key) /\ Room(offers))
       /\ Fits(metadata.endpoint)
       /\ offers' = [offers EXCEPT ![key] = metadata]
       /\ Answer(p, Status("ok"))
    \/ /\ key \in Known(offers) /\ ~Fits(metadata.endpoint)
       /\ offers' = [offers EXCEPT ![key].binding_type = metadata.binding_type]
       /\ Answer(p, Status("kCommunicationFailure"))
    \/ /\ key \notin Known(offers) /\ Room(offers)
       /\ ~Fits(key) \/ ~Fits(metadata.endpoint)
       /\ Answer(p, Status("kCommunicationFailure"))
       /\ UNCHANGED offers
    \/ /\ key \notin Known(offers) /\ ~Room(offers)
       /\ Answer(p, Status("kMaxSamplesExceeded"))
       /\ UNCHANGED offers

StopOffer(p, key) ==
    /\ offers' = [offers EXCEPT ![key] = Unknown]
    /\ Answer(p, Status(IF key \in Known(offers) THEN "ok" ELSE "kServiceNotOffered"))

Find(p, key) ==
    /\ Answer(p, Found({offers[key]} \ {Unknown}))
    /\ UNCHANGED offers

Register(p, specifier, mapping) ==
    \/ /\ specifier \in Known(mappings) \/ (Fits(specifier) /\ Room(mappings))
       /\ Fits(mapping.instance) /\ Fits(mapping.endpoint)
       /\ mappings' = [mappings EXCEPT ![specifier] = mapping]
       /\ Answer(p, Status("ok"))
    \/ /\ specifier \in Known(mappings)
       /\ ~Fits(mapping.instance) \/ ~Fits(mapping.endpoint)
       /\ mappings' = [mappings EXCEPT
            ![specifier].binding_type = mapping.binding_type,
            ![specifier].instance = IF Fits(mapping.instance) THEN mapping.instance ELSE @]
       /\ Answer(p, Status("kCommunicationFailure"))
    \/ /\ specifier \notin Known(mappings) /\ Room(mappings)
       /\ ~Fits(specifier) \/ ~Fits(mapping.instance) \/ ~Fits(mapping.endpoint)
       /\ Answer(p, Status("kCommunicationFailure"))
       /\ UNCHANGED mappings
    \/ /\ specifier \notin Known(mappings) /\ ~Room(mappings)
       /\ Answer(p, Status("kMaxSamplesExceeded"))
       /\ UNCHANGED mappings

Resolve(p, specifier) ==
    /\ Answer(p, IF specifier \in Known(mappings)
                 THEN Found({mappings[specifier].instance})
                 ELSE Status("kInstanceIDNotResolvable"))
    /\ UNCHANGED mappings

\* The moment at which the operation of p takes effect.
Apply(p) ==
    /\ call[p] # Nothing /\ answer[p] = Nothing
    /\ UNCHANGED call
    /\ LET op == call[p] IN
        \/ op.kind = "offer" /\ Offer(p, op.key, op.data) /\ UNCHANGED mappings
        \/ op.kind = "stop" /\ StopOffer(p, op.key) /\ UNCHANGED mappings
        \/ op.kind = "find" /\ Find(p, op.key) /\ UNCHANGED mappings
        \/ op.kind = "register" /\ Register(p, op.key, op.data) /\ UNCHANGED offers
        \/ op.kind = "resolve" /\ Resolve(p, op.key) /\ UNCHANGED offers

\* The registry cannot be opened, and the operation fails without an effect.
Fail(p) ==
    /\ call[p] # Nothing /\ answer[p] = Nothing
    /\ call' = [call EXCEPT ![p] = Nothing]
    /\ Answer(p, Status("kCommunicationFailure"))
    /\ UNCHANGED <<offers, mappings>>

Return(p) ==
    /\ call[p] # Nothing /\ answer[p] # Nothing
    /\ call' = [call EXCEPT ![p] = Nothing]
    /\ UNCHANGED <<offers, mappings, answer>>

\* The process is killed, before or after its operation took effect.
Restart(p) ==
    /\ call' = [call EXCEPT ![p] = Nothing]
    /\ Answer(p, Nothing)
    /\ UNCHANGED <<offers, mappings>>

Next ==
    \E p \in Processes :
        \/ \E op \in Operations : Invoke(p, op)
        \/ Apply(p) \/ Fail(p) \/ Return(p) \/ Restart(p)

Spec == Init /\ [][Next]_directoryVars
=============================================================================
