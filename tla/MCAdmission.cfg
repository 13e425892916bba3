SPECIFICATION Spec
CONSTANTS
    Fields = {"wall_time_ms"}
    Unit <- MCUnit
    Fallback <- MCFallback
    Half = 8
    Slugs = {"c"}
    Versions = {"v1", "v2"}
    Unnamed = Unnamed
    NoLimits = NoLimits
    Configs <- MCConfigs
    Catalogues <- MCCatalogues
    NoConfig = NoConfig
    Asked <- MCAsked
PROPERTIES
    LimitsAsDocumented
    UsedAsStored
    RunsWhatWasNamed
CHECK_DEADLOCK FALSE
