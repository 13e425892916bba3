------------------------------ MODULE Admission ------------------------------
(***************************************************************************)
(* What a request is given to run with: the configuration's default and    *)
(* maximum limits, checked when the process starts, the limits of the      *)
(* language version, and those the request names.  Service.Create resolves *)
(* the version, merges the limits and stores both; the engine resolves the *)
(* stored version again and uses the stored limits, perhaps in a later     *)
(* process with another configuration and another catalogue.               *)
(*                                                                         *)
(* All numeric limits are checked and merged alike: Fields names some, or  *)
(* all.  A number is in the field's unit; what uses it multiplies it to an *)
(* int64, of which Half is 2^63.                                           *)
(***************************************************************************)
EXTENDS Integers

CONSTANTS
    Fields,      \* the numeric limits
    Unit,        \* what each is multiplied by when it is used
    Fallback,    \* what is used for one that is not positive
    Half,        \* int64 runs from -Half to Half - 1
    Slugs,       \* languages
    Versions,    \* their versions
    Unnamed,     \* the version of a request that names none
    Configs,     \* [default, max]: what the environment may say
    NoConfig,    \* that of a process that does not run
    Catalogues,  \* catalogues that releases may embed
    Asked,       \* the limits that requests may name; a number left out is 0
    NoLimits     \* a request without limits

Limits    == [num : [Fields -> Int], network : BOOLEAN]
Overrides == [num : [Fields -> Int], network : {"unset", "on", "off"}]
Families  == [on : BOOLEAN, default : Versions, enabled : SUBSET Versions,
              limits : [Versions -> Overrides]]

ASSUME UnitAssumption ==
    /\ Half \in Nat \ {0}
    /\ Unit \in [Fields -> Nat \ {0}] /\ Fallback \in [Fields -> 1..(Half - 1)]
ASSUME InputAssumption ==
    /\ Configs \subseteq [default : Limits, max : Limits] /\ NoConfig \notin Configs
    /\ \A k \in Catalogues : DOMAIN k \subseteq Slugs /\ k \in [DOMAIN k -> Families]
    /\ Asked \subseteq Overrides /\ NoLimits \notin Overrides
    /\ Unnamed \notin Versions

VARIABLES
    config,     \* the configuration of the process that serves
    catalogue,  \* its catalogue, or the last one's: a family per listed language
    same,       \* the catalogue is still the one the submission was created with
    sub         \* the submission

vars == <<config, catalogue, same, sub>>

NoSub == [state |-> "none"]

-----------------------------------------------------------------------------
(* The start of a process. *)

\* validateDefaultLimits; 0 is no maximum.
ValidDefaults(c) ==
    /\ \A f \in Fields :
          /\ c.default.num[f] >= 0 /\ c.max.num[f] >= 0
          /\ c.max.num[f] > 0 => c.default.num[f] <= c.max.num[f]
    /\ c.default.network => c.max.network

\* LoadCatalog.
ValidCatalogue(k) ==
    \A s \in DOMAIN k :
        /\ k[s].on => k[s].default \in k[s].enabled
        /\ \A v \in Versions, f \in Fields : k[s].limits[v].num[f] >= 0

Init ==
    /\ config = NoConfig
    /\ catalogue \in Catalogues /\ ValidCatalogue(catalogue)
    /\ same = TRUE
    /\ sub = NoSub

\* A configuration or a catalogue that is not valid ends main() before it serves.
Start ==
    /\ config = NoConfig
    /\ config' \in Configs /\ ValidDefaults(config')
    /\ catalogue' \in Catalogues /\ ValidCatalogue(catalogue')
    /\ same' = (same /\ catalogue' = catalogue)
    /\ UNCHANGED sub

Stop ==
    /\ config # NoConfig
    /\ config' = NoConfig
    /\ UNCHANGED <<catalogue, same, sub>>

-----------------------------------------------------------------------------
(* Service.Create *)

\* Registry.Resolve takes enabled versions of enabled languages; one that looks
\* at the language alone would be AnyVersion.
Named(s, v)      == IF v = Unnamed THEN catalogue[s].default ELSE v
AnyVersion(s, v) == s \in DOMAIN catalogue /\ catalogue[s].on
Resolves(s, v)   ==
    /\ s \in DOMAIN catalogue /\ catalogue[s].on
    /\ Named(s, v) \in catalogue[s].enabled

\* mergeLanguageLimits and mergeLimits; limits that were not merged would be
\* RequestAlone's.  The network of a request that does not mention it is off: its
\* field is decoded to false, while a language's may be absent.
FirstPositive(over, base) ==
    [f \in Fields |-> IF over.num[f] > 0 THEN over.num[f] ELSE base.num[f]]
OfLanguage(base, over) ==
    [num     |-> FirstPositive(over, base),
     network |-> IF over.network = "unset" THEN base.network ELSE over.network = "on"]
RequestAlone(base, asked) ==
    IF asked = NoLimits THEN base
    ELSE [num |-> asked.num, network |-> asked.network = "on"]
OfRequest(base, asked)    ==
    IF asked = NoLimits THEN base
    ELSE [num |-> FirstPositive(asked, base), network |-> asked.network = "on"]

\* validateLimitOverrides; one that takes 0 for a bound like any other would be
\* NotNegative.
NotNegative(asked, max) ==
    /\ \A f \in Fields : asked.num[f] >= 0
    /\ asked.network = "on" => max.network
ValidOverrides(asked, max) ==
    /\ \A f \in Fields :
          /\ asked.num[f] >= 0
          /\ max.num[f] > 0 => asked.num[f] <= max.num[f]
    /\ asked.network = "on" => max.network

\* The limits of a request that names none.
Standard(s, v) == OfLanguage(config.default, catalogue[s].limits[v])

\* Any other request is answered with an error and leaves nothing behind.
Create(s, v, asked) ==
    /\ config # NoConfig
    /\ sub = NoSub
    /\ Resolves(s, v)
    /\ asked # NoLimits => ValidOverrides(asked, config.max)
    /\ sub' = [state |-> "queued", language |-> s, version |-> Named(s, v),
               asked |-> asked,
               limits |-> OfRequest(Standard(s, Named(s, v)), asked)]
    /\ same' = TRUE
    /\ UNCHANGED <<config, catalogue>>

-----------------------------------------------------------------------------
(* Engine.Run and the drivers. *)

Wrap(x) == ((x + Half) % (2 * Half)) - Half

\* runCount, MaxOutputBytes with NewOutputBuffer, and the time-outs of direct and
\* docker.
Used(f, x) ==
    IF x > 0 /\ Wrap(x * Unit[f]) > 0 THEN Wrap(x * Unit[f]) ELSE Fallback[f]

Execute ==
    /\ config # NoConfig
    /\ sub.state = "queued"
    /\ sub' = [sub EXCEPT !.state =
                  IF Resolves(sub.language, sub.version) THEN "ran" ELSE "unsupported"]
    /\ UNCHANGED <<config, catalogue, same>>

Next ==
    \/ Start \/ Stop \/ Execute
    \/ \E s \in Slugs, v \in Versions \cup {Unnamed}, asked \in Asked \cup {NoLimits} :
          Create(s, v, asked)

Spec == Init /\ [][Next]_vars

-----------------------------------------------------------------------------
(* What the limits promise. *)

Created  == sub = NoSub /\ sub' # NoSub
Executed == sub.state = "queued" /\ sub'.state = "ran"

\* A number counts as named when it is positive.
Names(asked, f)       == asked # NoLimits /\ asked.num[f] > 0
AsksNetwork(asked, n) == asked # NoLimits /\ asked.network = n

\* docs/development.md: "Submission-provided limits can lower or raise per-request
\* limits, but they cannot exceed MAX_LIMIT_* values."  A number that the request
\* names is given as it is and within the maximum; any other is the standard one,
\* exactly, so a request cannot switch a limit off that the operator has set.  A
\* request that says "on" has the network and the operator allows it, one that says
\* "off" has none, and one without limits has the standard's.  One with limits that
\* does not mention the network gains none: nothing is said of its keeping the
\* standard's (Service.Create, mergeLimits, validateLimitOverrides).
LimitsAsDocumented ==
    [][Created =>
        LET standard == Standard(sub'.language, sub'.version)
            given    == sub'.limits
            asked    == sub'.asked
        IN  /\ \A f \in Fields :
                  IF Names(asked, f)
                  THEN /\ given.num[f] = asked.num[f]
                       /\ config.max.num[f] > 0 => given.num[f] <= config.max.num[f]
                  ELSE given.num[f] = standard.num[f]
            /\ asked = NoLimits => (given.network <=> standard.network)
            /\ AsksNetwork(asked, "on") => given.network /\ config.max.network
            /\ AsksNetwork(asked, "off") => ~given.network
            /\ AsksNetwork(asked, "unset") => (given.network => standard.network)
      ]_vars

\* A maximum and a standard that fit keep every limit that is used later within
\* int64: what a run is given is what the row says (MaxOutputBytes and the
\* time-outs multiply without a check).
UsedAsStored ==
    [][Created =>
        LET standard == Standard(sub'.language, sub'.version)
        IN  \A f \in Fields :
                /\ config.max.num[f] > 0 /\ config.max.num[f] * Unit[f] < Half
                /\ standard.num[f] * Unit[f] < Half
                => LET x == sub'.limits.num[f]
                   IN  Used(f, x) = IF x = 0 THEN Fallback[f] ELSE x * Unit[f]
      ]_vars

\* A stored version runs only while the catalogue of the process that runs it
\* offers it, and fails to resolve only when the catalogue has changed since it
\* was named (Create stores the version it resolved, Run resolves it again).
RunsWhatWasNamed ==
    /\ [][Executed => /\ catalogue[sub.language].on
                      /\ sub.version \in catalogue[sub.language].enabled]_vars
    /\ [](sub.state = "unsupported" => ~same)

=============================================================================
