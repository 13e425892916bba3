---------------------------- MODULE RequestProofs ----------------------------
(***************************************************************************)
(* Proofs about what a request is told and given, whose two sides share no *)
(* variable: what the limits and the catalogue promise, for every          *)
(* configuration, catalogue and request (Admission); and what an answer to *)
(* wait=true tells, for any number of clients (WaitPoll).                  *)
(***************************************************************************)
EXTENDS Admission, WaitPoll, TLAPS

-----------------------------------------------------------------------------
(* Limits and versions *)

\* A configuration, a catalogue and a request have their types.
LEMMA InputTypes ==
    /\ \A c \in Configs : c \in [default : Limits, max : Limits]
    /\ \A k \in Catalogues : DOMAIN k \subseteq Slugs /\ k \in [DOMAIN k -> Families]
    /\ \A a \in Asked : a \in Overrides
    /\ NoConfig \notin Configs /\ NoLimits \notin Overrides /\ Unnamed \notin Versions
  BY InputAssumption

Stored == [state : {"queued", "ran", "unsupported"}, language : Slugs,
           version : Versions, asked : Asked \cup {NoLimits}, limits : Limits]

TypeOK ==
    /\ config \in Configs \cup {NoConfig}
    /\ config # NoConfig => ValidDefaults(config)
    /\ catalogue \in Catalogues /\ ValidCatalogue(catalogue)
    /\ same \in BOOLEAN
    /\ sub \in Stored \cup {NoSub}

\* While the catalogue is the one the submission was created with, the stored
\* version resolves.
StillNamed ==
    sub # NoSub /\ same =>
        sub.state # "unsupported" /\ Resolves(sub.language, sub.version)

IInv == TypeOK /\ StillNamed

-----------------------------------------------------------------------------
(* What is stored. *)

\* The version that is named or stands for none is one of the language.
LEMMA NamedType ==
    ASSUME TypeOK, NEW s \in Slugs, NEW v \in Versions \cup {Unnamed}, Resolves(s, v)
    PROVE  Named(s, v) \in Versions /\ Resolves(s, Named(s, v))
  <1>1. catalogue[s] \in Families
    BY InputTypes DEF TypeOK, Resolves
  <1>2. Named(s, v) \in Versions
    BY <1>1 DEF Named, Families
  <1>3. Named(s, Named(s, v)) = Named(s, v)
    BY <1>2, InputTypes DEF Named
  <1> QED
    BY <1>2, <1>3 DEF Resolves

\* What is merged onto limits that are not negative is not negative.
LEMMA FirstPositiveType ==
    ASSUME NEW over, NEW base,
           \A f \in Fields : over.num[f] \in Int /\ base.num[f] \in Nat
    PROVE  FirstPositive(over, base) \in [Fields -> Nat]
  <1> SUFFICES ASSUME NEW f \in Fields
               PROVE  (IF over.num[f] > 0 THEN over.num[f] ELSE base.num[f]) \in Nat
    BY DEF FirstPositive
  <1> DEFINE x == over.num[f]
             y == base.num[f]
  <1>1. x \in Int /\ y \in Nat
    OBVIOUS
  <1> HIDE DEF x, y
  <1>2. (IF x > 0 THEN x ELSE y) \in Nat
    BY <1>1
  <1> QED
    BY <1>2 DEF x, y

\* The standard limits are limits, and none of them is negative.
LEMMA StandardType ==
    ASSUME TypeOK, config # NoConfig, NEW s \in DOMAIN catalogue, NEW v \in Versions
    PROVE  /\ Standard(s, v) \in Limits
           /\ \A f \in Fields : Standard(s, v).num[f] >= 0
  <1>1. config.default \in Limits /\ \A f \in Fields : config.default.num[f] >= 0
    BY InputTypes DEF TypeOK, ValidDefaults
  <1>2. catalogue[s].limits[v] \in Overrides
    BY InputTypes DEF TypeOK, Families
  <1>3. \A f \in Fields : catalogue[s].limits[v].num[f] \in Int /\ config.default.num[f] \in Nat
    <2> SUFFICES ASSUME NEW f \in Fields
                 PROVE  catalogue[s].limits[v].num[f] \in Int /\ config.default.num[f] \in Nat
      OBVIOUS
    <2>1. catalogue[s].limits[v].num \in [Fields -> Int]
      BY <1>2 DEF Overrides
    <2>2. config.default.num \in [Fields -> Int] /\ config.default.num[f] >= 0
      BY <1>1 DEF Limits
    <2>3. config.default.num[f] \in Int
      BY <2>2
    <2> QED
      BY <2>1, <2>2, <2>3
  <1> DEFINE num == FirstPositive(catalogue[s].limits[v], config.default)
  <1>4. num \in [Fields -> Nat]
    BY <1>3, FirstPositiveType
  <1>6. Standard(s, v).network \in BOOLEAN
    BY <1>1, <1>2 DEF Standard, OfLanguage, Limits
  <1>7. Standard(s, v).num = num
    BY DEF Standard, OfLanguage
  <1>8. Standard(s, v) = [num |-> num, network |-> Standard(s, v).network]
    BY DEF Standard, OfLanguage
  <1> HIDE DEF num
  <1> QED
    BY <1>4, <1>6, <1>7, <1>8 DEF Limits

\* What a request leaves in its row.
LEMMA CreateStores ==
    ASSUME TypeOK, NEW s \in Slugs, NEW v \in Versions \cup {Unnamed},
           NEW asked \in Asked \cup {NoLimits}, Create(s, v, asked)
    PROVE  /\ config # NoConfig /\ Named(s, v) \in Versions /\ s \in DOMAIN catalogue
           /\ sub' \in Stored
           /\ sub'.language = s /\ sub'.version = Named(s, v) /\ sub'.asked = asked
           /\ sub'.limits = OfRequest(Standard(s, Named(s, v)), asked)
           /\ Resolves(s, Named(s, v))
           /\ same' = TRUE /\ catalogue' = catalogue /\ config' = config
           /\ sub'.state = "queued"
  <1> DEFINE w == Named(s, v)
  <1>1. w \in Versions /\ Resolves(s, w) /\ s \in DOMAIN catalogue /\ config # NoConfig
    BY NamedType DEF Create, Resolves
  <1>2. Standard(s, w) \in Limits
    BY <1>1, StandardType
  <1>3. OfRequest(Standard(s, w), asked) \in Limits
    <2>1. CASE asked = NoLimits
      BY <1>2, <2>1 DEF OfRequest
    <2>2. CASE asked # NoLimits
      <3>1. asked.num \in [Fields -> Int]
        BY <2>2, InputTypes DEF Overrides
      <3>2. FirstPositive(asked, Standard(s, w)) \in [Fields -> Int]
        BY <1>2, <3>1 DEF FirstPositive, Limits
      <3> QED
        BY <2>2, <3>2 DEF OfRequest, Limits
    <2> QED
      BY <2>1, <2>2
  <1>4. sub' = [state |-> "queued", language |-> s, version |-> w, asked |-> asked,
                limits |-> OfRequest(Standard(s, w), asked)]
    BY DEF Create
  <1> HIDE DEF w
  <1>5. sub' \in Stored
    BY <1>1, <1>3, <1>4 DEF Stored
  <1>6. /\ sub'.language = s /\ sub'.version = w /\ sub'.asked = asked
        /\ sub'.limits = OfRequest(Standard(s, w), asked) /\ sub'.state = "queued"
    BY <1>4
  <1> QED
    BY <1>1, <1>5, <1>6 DEF Create, w

-----------------------------------------------------------------------------

\* The process starts with the invariant.
LEMMA InitInv == Init => IInv
  BY DEF Init, IInv, TypeOK, StillNamed

\* Start, stop, Create and Execute keep it.
LEMMA NextInv == IInv /\ [Next]_vars => IInv'
  <1> SUFFICES ASSUME IInv, [Next]_vars PROVE IInv'
    OBVIOUS
  <1>1. CASE Start
    BY <1>1 DEF Start, IInv, TypeOK, StillNamed, Resolves, Named
  <1>2. CASE Stop
    BY <1>2 DEF Stop, IInv, TypeOK, StillNamed, Resolves, Named
  <1>3. CASE Execute
    <2>1. sub \in Stored
      BY <1>3 DEF Execute, IInv, TypeOK, NoSub
    <2>2. /\ sub' \in Stored
          /\ sub'.language = sub.language /\ sub'.version = sub.version
          /\ sub'.state = "unsupported" => ~Resolves(sub.language, sub.version)
      BY <1>3, <2>1 DEF Execute, Stored
    <2> QED
      BY <1>3, <2>1, <2>2 DEF Execute, IInv, TypeOK, StillNamed, Resolves, Named, Stored, NoSub
  <1>4. ASSUME NEW s \in Slugs, NEW v \in Versions \cup {Unnamed},
               NEW asked \in Asked \cup {NoLimits}, Create(s, v, asked)
        PROVE  IInv'
    BY <1>4, CreateStores DEF IInv, TypeOK, StillNamed, Resolves, Named
  <1>5. CASE UNCHANGED vars
    BY <1>5 DEF vars, IInv, TypeOK, StillNamed, Resolves, Named
  <1> QED
    BY <1>1, <1>2, <1>3, <1>4, <1>5 DEF Next

\* The inductive invariant: types, and the stored version that still resolves.
THEOREM Invariance == Spec => []IInv
  BY InitInv, NextInv, PTL DEF Spec

-----------------------------------------------------------------------------

\* Only Create makes a submission.
LEMMA OnlyCreate ==
    ASSUME IInv, [Next]_vars, Created
    PROVE  \E s \in Slugs, v \in Versions \cup {Unnamed}, asked \in Asked \cup {NoLimits} :
               Create(s, v, asked)
  BY DEF IInv, TypeOK, Next, Created, Start, Stop, Execute, vars, NoSub

\* A number that is stored is the request's, within the maximum, or the standard.
LEMMA StoredLimits ==
    ASSUME IInv, [Next]_vars, Created, NEW f \in Fields
    PROVE  LET standard == Standard(sub'.language, sub'.version)
               max == config.max.num[f]
               x   == sub'.limits.num[f]
           IN  /\ standard.num[f] \in Nat /\ max \in Nat
               /\ \/ x = standard.num[f] /\ ~Names(sub'.asked, f)
                  \/ /\ Names(sub'.asked, f) /\ sub'.asked.num[f] = x
                     /\ x > 0 /\ x \in Int /\ (max > 0 => x <= max)
  <1>1. PICK s \in Slugs, v \in Versions \cup {Unnamed}, asked \in Asked \cup {NoLimits} :
            Create(s, v, asked)
    BY OnlyCreate
  <1> DEFINE w == Named(s, v)
  <1> DEFINE standard == Standard(s, w)
  <1>2. /\ config # NoConfig /\ w \in Versions /\ s \in DOMAIN catalogue
        /\ sub'.language = s /\ sub'.version = w /\ sub'.asked = asked
        /\ sub'.limits = OfRequest(standard, asked)
    BY <1>1, CreateStores DEF IInv
  <1>3. standard \in Limits /\ standard.num[f] >= 0
    BY <1>2, StandardType DEF IInv
  <1>4. config.max.num[f] \in Nat
    BY <1>2, InputTypes DEF IInv, TypeOK, ValidDefaults, Limits
  <1>5. asked # NoLimits => asked \in Overrides /\ ValidOverrides(asked, config.max)
    BY <1>1, InputTypes DEF Create
  <1> HIDE DEF w, standard
  <1>6. standard.num[f] \in Nat
    BY <1>3 DEF Limits
  <1>7. CASE asked = NoLimits
    BY <1>2, <1>4, <1>6, <1>7 DEF OfRequest, Names, standard
  <1>8. CASE asked # NoLimits
    <2>1. asked.num[f] \in Int /\ (config.max.num[f] > 0 => asked.num[f] <= config.max.num[f])
      BY <1>5, <1>8 DEF ValidOverrides, Overrides
    <2>2. sub'.limits.num[f] = IF asked.num[f] > 0 THEN asked.num[f] ELSE standard.num[f]
      BY <1>2, <1>8 DEF OfRequest, FirstPositive
    <2> QED
      BY <1>2, <1>4, <1>6, <1>8, <2>1, <2>2 DEF Names, standard
  <1> QED
    BY <1>7, <1>8

\* The network that is stored is the one asked for, and none if a request with limits
\* does not ask for it.
LEMMA StoredNetwork ==
    ASSUME IInv, [Next]_vars, Created
    PROVE  LET standard == Standard(sub'.language, sub'.version)
               given    == sub'.limits
               asked    == sub'.asked
           IN  /\ asked = NoLimits => (given.network <=> standard.network)
               /\ AsksNetwork(asked, "on") => given.network /\ config.max.network
               /\ AsksNetwork(asked, "off") => ~given.network
               /\ AsksNetwork(asked, "unset") => (given.network => standard.network)
  <1>1. PICK s \in Slugs, v \in Versions \cup {Unnamed}, asked \in Asked \cup {NoLimits} :
            Create(s, v, asked)
    BY OnlyCreate
  <1> DEFINE standard == Standard(s, Named(s, v))
  <1>2. /\ sub'.language = s /\ sub'.version = Named(s, v) /\ sub'.asked = asked
        /\ sub'.limits = OfRequest(standard, asked)
    BY <1>1, CreateStores DEF IInv
  <1>3. asked # NoLimits => ValidOverrides(asked, config.max)
    BY <1>1 DEF Create
  <1>4. standard = Standard(sub'.language, sub'.version)
    BY <1>2
  <1> HIDE DEF standard
  <1>5. CASE asked = NoLimits
    BY <1>2, <1>4, <1>5 DEF OfRequest, AsksNetwork
  <1>6. CASE asked # NoLimits
    <2>1. sub'.limits.network <=> asked.network = "on"
      <3> DEFINE given == sub'.limits
                 num   == FirstPositive(asked, standard)
                 on    == asked.network = "on"
      <3>1. given = [num |-> num, network |-> on]
        BY <1>2, <1>6 DEF OfRequest
      <3> HIDE DEF given, num, on
      <3>2. given.network = on
        BY <3>1, Zenon
      <3> QED
        BY <3>2 DEF given, on
    <2>2. asked.network = "on" => config.max.network
      BY <1>3, <1>6 DEF ValidOverrides
    <2> QED
      BY <1>2, <1>4, <1>6, <2>1, <2>2 DEF AsksNetwork
  <1> QED
    BY <1>5, <1>6

\* A number that the request names is given as it is and within the maximum, any
\* other is the standard one, and the network is given as asked, where the operator
\* allows it, or not gained (Service.Create).
THEOREM LimitsHold == Spec => LimitsAsDocumented
  <1> DEFINE Step ==
        Created =>
            LET standard == Standard(sub'.language, sub'.version)
                given    == sub'.limits
                asked    == sub'.asked
            IN  /\ \A f \in Fields :
                      IF Names(asked, f)
                      THEN /\ given.num[f] = asked.num[f]
                           /\ config.max.num[f] > 0 => given.num[f] <= config.max.num[f]
                      ELSE given.num[f] = standard.num[f]
                /\ asked = NoLimits => (given.network <=> standard.network)
                /\ AsksNetwork(asked, "on") => given.network /\ config.max.network
                /\ AsksNetwork(asked, "off") => ~given.network
                /\ AsksNetwork(asked, "unset") => (given.network => standard.network)
  <1>1. IInv /\ [Next]_vars => [Step]_vars
    <2> SUFFICES ASSUME IInv, [Next]_vars, Created PROVE Step
      OBVIOUS
    <2>1. ASSUME NEW f \in Fields
          PROVE  IF Names(sub'.asked, f)
                 THEN /\ sub'.limits.num[f] = sub'.asked.num[f]
                      /\ config.max.num[f] > 0 => sub'.limits.num[f] <= config.max.num[f]
                 ELSE sub'.limits.num[f] = Standard(sub'.language, sub'.version).num[f]
      BY StoredLimits
    <2> QED
      BY <2>1, StoredNetwork
  <1> QED
    BY <1>1, Invariance, PTL DEF Spec, LimitsAsDocumented

\* Multiplication by a unit keeps an order, and a positive number positive.
LEMMA ProductBounded ==
    ASSUME NEW x \in Nat, NEW y \in Nat, NEW u \in Nat \ {0}, x <= y
    PROVE  x * u <= y * u /\ x * u \in Nat /\ (x > 0 => x * u > 0)
  OBVIOUS

\* A number of the upper half of int64 is itself.
LEMMA WrapSmall ==
    ASSUME NEW x \in Nat, x < Half
    PROVE  Wrap(x) = x
  <1>1. x + Half \in Nat /\ 2 * Half \in Nat \ {0} /\ x + Half < 2 * Half
    BY UnitAssumption
  <1>2. ASSUME NEW a \in Nat, NEW b \in Nat \ {0}, a < b PROVE a % b = a
    BY <1>2
  <1> QED
    BY <1>1, <1>2, UnitAssumption DEF Wrap

\* A limit that fits is used as it is stored (runCount, MaxOutputBytes, the drivers).
LEMMA UsedSmall ==
    ASSUME NEW f \in Fields, NEW x \in Nat, x * Unit[f] < Half
    PROVE  Used(f, x) = IF x = 0 THEN Fallback[f] ELSE x * Unit[f]
  <1>1. Unit[f] \in Nat \ {0}
    BY UnitAssumption
  <1>2. x * Unit[f] \in Nat /\ (x > 0 => x * Unit[f] > 0)
    BY <1>1, ProductBounded
  <1>3. Wrap(x * Unit[f]) = x * Unit[f]
    BY <1>2, WrapSmall
  <1> QED
    BY <1>2, <1>3 DEF Used

\* Every limit that a configuration with a maximum admits is used as it is stored.
THEOREM LimitsFit == Spec => UsedAsStored
  <1> DEFINE Step ==
        Created =>
            LET standard == Standard(sub'.language, sub'.version)
            IN  \A f \in Fields :
                    /\ config.max.num[f] > 0 /\ config.max.num[f] * Unit[f] < Half
                    /\ standard.num[f] * Unit[f] < Half
                    => LET x == sub'.limits.num[f]
                       IN  Used(f, x) = IF x = 0 THEN Fallback[f] ELSE x * Unit[f]
  <1>1. IInv /\ [Next]_vars => [Step]_vars
    <2> SUFFICES ASSUME IInv, [Next]_vars, Created, NEW f \in Fields,
                        config.max.num[f] > 0, config.max.num[f] * Unit[f] < Half,
                        Standard(sub'.language, sub'.version).num[f] * Unit[f] < Half
                 PROVE  Used(f, sub'.limits.num[f]) =
                          IF sub'.limits.num[f] = 0 THEN Fallback[f]
                          ELSE sub'.limits.num[f] * Unit[f]
      OBVIOUS
    <2> DEFINE st == Standard(sub'.language, sub'.version).num[f]
               mx == config.max.num[f]
               x  == sub'.limits.num[f]
    <2>1. /\ st \in Nat /\ mx \in Nat
          /\ x = st \/ (x \in Int /\ x > 0 /\ (mx > 0 => x <= mx))
      BY StoredLimits
    <2>2. mx > 0 /\ mx * Unit[f] < Half /\ st * Unit[f] < Half
      OBVIOUS
    <2> HIDE DEF st, mx, x
    <2>3. Unit[f] \in Nat \ {0} /\ Half \in Nat
      BY UnitAssumption
    <2>4. x \in Nat /\ (x = st \/ x <= mx)
      BY <2>1, <2>2
    <2>5. x * Unit[f] < Half
      <3>1. CASE x = st
        BY <2>2, <3>1
      <3>2. CASE x <= mx
        <4>1. x * Unit[f] <= mx * Unit[f] /\ x * Unit[f] \in Nat /\ mx * Unit[f] \in Nat
          BY <2>1, <2>3, <2>4, <3>2, ProductBounded
        <4> QED
          BY <2>2, <2>3, <4>1
      <3> QED
        BY <2>4, <3>1, <3>2
    <2> QED
      BY <2>4, <2>5, UsedSmall DEF x
  <1> QED
    BY <1>1, Invariance, PTL DEF Spec, UsedAsStored

\* A stored version runs while it is offered, and fails only after a change of the
\* catalogue (Registry.Resolve in Create and in Run).
THEOREM NamedVersionsRun == Spec => RunsWhatWasNamed
  <1> DEFINE Step == Executed => /\ catalogue[sub.language].on
                                 /\ sub.version \in catalogue[sub.language].enabled
  <1>1. IInv /\ [Next]_vars => [Step]_vars
    <2> SUFFICES ASSUME IInv, [Next]_vars, Executed PROVE Step
      OBVIOUS
    <2>1. sub # NoSub /\ sub \in Stored
      BY DEF Executed, NoSub, IInv, TypeOK
    <2>2. sub'.state # sub.state
      BY DEF Executed
    <2>3. Execute
      BY <2>1, <2>2 DEF Next, Start, Stop, Create, vars
    <2>4. Resolves(sub.language, sub.version)
      BY <2>1, <2>3 DEF Execute, Executed, Stored
    <2> QED
      BY <2>1, <2>4, InputTypes DEF Resolves, Named, Stored
  <1>2. IInv => (sub.state = "unsupported" => ~same)
    BY DEF IInv, StillNamed, TypeOK, NoSub
  <1> QED
    BY <1>1, <1>2, Invariance, PTL DEF Spec, RunsWhatWasNamed

-----------------------------------------------------------------------------
(* Waiting for the result *)

\* The status that c's loop holds while it waits is one the row has had, and no
\* result; a client that has no answer yet is still asking.
SeenTrue ==
    \A c \in Clients :
        /\ pc[c] = "select" => seen[c] \in {"queued", "processing"} /\ Rank(seen[c]) <= Rank(row[c])
        /\ pc[c] # "answered" => answer[c] = NoAnswer

WaitInv == WaitTypeOK /\ SeenTrue /\ AnswerTrue

\* The ranks are 1, 2 and 3.
LEMMA Ranks ==
    /\ Rank("queued") = 1 /\ Rank("processing") = 2 /\ Rank("finished") = 3
    /\ \A s \in Statuses : Rank(s) \in 1..3
  BY DEF Rank, Statuses

\* A row only gets on.
LEMMA RowsAdvance ==
    ASSUME WaitTypeOK, NEW c \in Clients, MarkProcessing(c) \/ StoreResult(c)
    PROVE  \A d \in Clients : /\ row'[d] \in Statuses /\ Rank(row[d]) <= Rank(row'[d])
                              /\ row[d] = "finished" => row'[d] = "finished"
  BY Ranks DEF WaitTypeOK, MarkProcessing, StoreResult, Statuses

\* A client that starts to wait knows nothing yet.
LEMMA WaitStarts == WaitInit => WaitInv
  BY DEF WaitInit, WaitInv, WaitTypeOK, SeenTrue, AnswerTrue, Statuses, Answers, NoAnswer

\* An answer with a status the row has had, no result unless the code says so.
LEMMA RespondInv ==
    ASSUME WaitInv, NEW c \in Clients, pc[c] # "answered",
           NEW code \in {201, 202, 500}, NEW status \in Statuses \cup {"none"},
           Respond(c, code, status),
           code = 500 <=> status = "none",
           code = 201 => status = "finished" /\ row[c] = "finished",
           code = 202 => status # "finished" /\ Rank(status) <= Rank(row[c]),
           UNCHANGED <<row, expired>>,
           \A d \in Clients \ {c} : seen'[d] = seen[d],
           seen' \in [Clients -> {"none"} \cup Statuses]
    PROVE  WaitInv'
  <1>1. [code |-> code, status |-> status] \in Answers
    BY DEF Answers
  <1>2. WaitTypeOK'
    BY <1>1 DEF WaitInv, WaitTypeOK, Respond
  <1>3. /\ pc'[c] = "answered" /\ answer'[c].code = code /\ answer'[c].status = status
        /\ \A d \in Clients \ {c} : pc'[d] = pc[d] /\ answer'[d] = answer[d]
        /\ row' = row
    BY DEF Respond, WaitInv, WaitTypeOK
  <1>4. SeenTrue'
    BY <1>3 DEF WaitInv, SeenTrue
  <1>5. AnswerTrue'
    BY <1>3 DEF WaitInv, AnswerTrue
  <1>. QED
    BY <1>2, <1>4, <1>5 DEF WaitInv

\* Every step of a client or of the workers keeps the invariant.
LEMMA WaitContinues == WaitInv /\ [WaitNext]_waitVars => WaitInv'
  <1>. SUFFICES ASSUME WaitInv, [WaitNext]_waitVars PROVE WaitInv'
    OBVIOUS
  <1>1. ASSUME NEW c \in Clients, MarkProcessing(c) \/ StoreResult(c)
        PROVE  WaitInv'
    <2>1. \A d \in Clients : /\ row'[d] \in Statuses /\ Rank(row[d]) <= Rank(row'[d])
                             /\ row[d] = "finished" => row'[d] = "finished"
      BY <1>1, RowsAdvance DEF WaitInv
    <2>2. row' \in [Clients -> Statuses] /\ UNCHANGED <<pc, seen, expired, answer>>
      BY <1>1 DEF MarkProcessing, StoreResult, WaitInv, WaitTypeOK, Statuses
    <2>3. WaitTypeOK'
      BY <2>2 DEF WaitInv, WaitTypeOK
    <2>4. \A d \in Clients : Rank(row[d]) \in 1..3 /\ Rank(row'[d]) \in 1..3
      BY <2>1, Ranks DEF WaitInv, WaitTypeOK
    <2>5. SeenTrue'
      <3>. SUFFICES ASSUME NEW d \in Clients
                   PROVE  /\ pc[d] = "select" => /\ seen[d] \in {"queued", "processing"}
                                                 /\ Rank(seen[d]) <= Rank(row'[d])
                          /\ pc[d] # "answered" => answer[d] = NoAnswer
        BY <2>2 DEF SeenTrue
      <3>1. Rank(row[d]) <= Rank(row'[d]) /\ Rank(row[d]) \in Nat /\ Rank(row'[d]) \in Nat
        BY <2>1, <2>4
      <3>2. pc[d] = "select" => Rank(seen[d]) \in Nat
        BY Ranks DEF WaitInv, SeenTrue
      <3>. QED
        BY <3>1, <3>2 DEF WaitInv, SeenTrue
    <2>6. AnswerTrue'
      <3>. SUFFICES ASSUME NEW d \in Clients
                   PROVE  /\ answer[d].code = 201 =>
                                answer[d].status = "finished" /\ row'[d] = "finished"
                          /\ answer[d].code = 202 =>
                                /\ answer[d].status # "finished"
                                /\ Rank(answer[d].status) <= Rank(row'[d])
        BY <2>2 DEF AnswerTrue
      <3>1. Rank(row[d]) <= Rank(row'[d]) /\ Rank(row[d]) \in Nat /\ Rank(row'[d]) \in Nat
        BY <2>1, <2>4
      <3>2. answer[d] \in Answers
        BY DEF WaitInv, WaitTypeOK
      <3>3. answer[d].code = 202 => Rank(answer[d].status) \in Nat
        BY <3>2, Ranks DEF Answers, NoAnswer
      <3>. QED
        BY <2>1, <3>1, <3>3 DEF WaitInv, AnswerTrue
    <2>. QED
      BY <2>3, <2>5, <2>6 DEF WaitInv
  <1>2. ASSUME NEW c \in Clients, Expire(c) PROVE WaitInv'
    BY <1>2 DEF Expire, WaitInv, WaitTypeOK, SeenTrue, AnswerTrue
  <1>3. ASSUME NEW c \in Clients, PollRead(c) PROVE WaitInv'
    <2>1. seen' = [seen EXCEPT ![c] = row[c]] /\ row[c] \in Statuses /\ pc[c] # "answered"
      BY <1>3 DEF PollRead, WaitInv, WaitTypeOK
    <2>2. /\ seen' \in [Clients -> {"none"} \cup Statuses] /\ seen'[c] = row[c]
          /\ \A d \in Clients \ {c} : seen'[d] = seen[d]
      BY <2>1 DEF WaitInv, WaitTypeOK
    <2>3. CASE Terminal(row[c]) /\ Respond(c, 201, row[c])
      BY <1>3, <2>1, <2>2, <2>3, RespondInv DEF PollRead, Terminal
    <2>4. CASE ~Terminal(row[c]) /\ pc' = [pc EXCEPT ![c] = "select"] /\ UNCHANGED answer
      <3>1. UNCHANGED <<row, expired, answer>>
        BY <1>3, <2>4 DEF PollRead
      <3>2. WaitTypeOK'
        BY <2>2, <2>4, <3>1 DEF WaitInv, WaitTypeOK
      <3>3. row[c] \in {"queued", "processing"} /\ Rank(row[c]) <= Rank(row[c])
        BY <2>1, <2>4, Ranks DEF Terminal, Statuses
      <3>4. SeenTrue'
        BY <2>1, <2>2, <2>4, <3>1, <3>3 DEF WaitInv, WaitTypeOK, SeenTrue
      <3>5. AnswerTrue'
        BY <3>1 DEF WaitInv, AnswerTrue
      <3>. QED
        BY <3>2, <3>4, <3>5 DEF WaitInv
    <2>. QED
      BY <1>3, <2>3, <2>4 DEF PollRead
  <1>4. ASSUME NEW c \in Clients, PollExpired(c) PROVE WaitInv'
    <2>1. Rank("queued") <= Rank(row[c])
      BY Ranks DEF WaitInv, WaitTypeOK
    <2>. QED
      BY <1>4, <2>1, RespondInv DEF PollExpired, WaitInv, WaitTypeOK, Statuses
  <1>5. ASSUME NEW c \in Clients, PollFails(c) PROVE WaitInv'
    BY <1>5, RespondInv DEF PollFails, WaitInv, WaitTypeOK
  <1>6. ASSUME NEW c \in Clients, Tick(c) PROVE WaitInv'
    BY <1>6 DEF Tick, WaitInv, WaitTypeOK, SeenTrue, AnswerTrue
  <1>7. ASSUME NEW c \in Clients, SelectExpired(c) PROVE WaitInv'
    <2>1. seen[c] \in {"queued", "processing"} /\ Rank(seen[c]) <= Rank(row[c])
      BY <1>7 DEF SelectExpired, WaitInv, SeenTrue
    <2>2. Respond(c, 202, seen[c]) /\ UNCHANGED <<row, seen, expired>> /\ pc[c] # "answered"
      BY <1>7 DEF SelectExpired
    <2>3. seen' \in [Clients -> {"none"} \cup Statuses]
      BY <2>2 DEF WaitInv, WaitTypeOK
    <2>. QED
      BY <2>1, <2>2, <2>3, RespondInv DEF Statuses
  <1>8. CASE UNCHANGED waitVars
    BY <1>8 DEF waitVars, WaitInv, WaitTypeOK, SeenTrue, AnswerTrue
  <1>. QED
    BY <1>1, <1>2, <1>3, <1>4, <1>5, <1>6, <1>7, <1>8 DEF WaitNext, Wait

\* The inductive invariant: types, what a waiting loop holds, and the answers.
THEOREM WaitInvariance == WaitSpec => []WaitInv
  BY WaitStarts, WaitContinues, PTL DEF WaitSpec

\* Every variable keeps its type (waitForCreatedSubmission).
THEOREM WaitTypeCorrect == WaitSpec => []WaitTypeOK
  BY WaitInvariance, PTL DEF WaitInv

\* 201 carries the stored result, 202 a status the row has had and no result
\* (WaitForCompletion, waitForCreatedSubmission).
THEOREM AnswersAreTrue == WaitSpec => []AnswerTrue
  BY WaitInvariance, PTL DEF WaitInv

=============================================================================
