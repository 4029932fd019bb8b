SPECIFICATION Spec
CONSTANTS
    Mappings <- SomeMappings
    MaxMappings = 3
    ResolverSets <- SomeResolvers
    Endpoints <- SomeEndpoints
    TLSContexts = {"ctx"}
    MaxName = 4
    ShortName = 3
INVARIANTS
    MappingsAccounted
    OwnService
    NamesDistinct
    GroupsKeptApart
CHECK_DEADLOCK FALSE
