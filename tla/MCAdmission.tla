----------------------------- MODULE MCAdmission -----------------------------
(* Small configurations, catalogues and requests for the run of Admission. *)
EXTENDS Admission

MCUnit     == [f \in Fields |-> 2]
MCFallback == [f \in Fields |-> 1]

LimitsOver(numbers) == [num : [Fields -> numbers], network : BOOLEAN]

MCConfigs == [default : LimitsOver({-1, 0, 1, 3}), max : LimitsOver({-1, 0, 1, 3, 6})]
MCAsked   == [num : [Fields -> {-1, 0, 1, 2, 3, 4, 5, 6}], network : {"unset", "on", "off"}]

Of(n, network) == [num |-> [f \in Fields |-> n], network |-> network]

\* The limits of the default version; the others have none.
OfDefault == {Of(-1, "unset"), Of(0, "unset"), Of(2, "on"), Of(5, "off"), Of(5, "unset")}

Shapes == {[on |-> TRUE,  default |-> "v1", enabled |-> {"v1"}],
           [on |-> TRUE,  default |-> "v1", enabled |-> {"v1", "v2"}],
           [on |-> TRUE,  default |-> "v2", enabled |-> {"v1"}],
           [on |-> TRUE,  default |-> "v2", enabled |-> {"v2"}],
           [on |-> FALSE, default |-> "v1", enabled |-> {"v1"}]}

MCFamilies ==
    {[on |-> s.on, default |-> s.default, enabled |-> s.enabled,
      limits |-> [v \in Versions |->
                     IF v = s.default THEN o ELSE Of(0, "unset")]] :
        s \in Shapes, o \in OfDefault}

\* Every language is listed, or none is.
MCCatalogues == [Slugs -> MCFamilies] \cup [{} -> MCFamilies]

=============================================================================
