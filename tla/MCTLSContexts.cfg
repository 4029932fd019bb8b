SPECIFICATION Spec
CONSTANTS
    Parts <- SomeParts
    AmbNamespace <- Default
    Secrets <- SomeSecrets
    SecretSets <- SomeSecretSets
    Contexts <- SomeContexts
    Modules <- SomeModules
    MaxContexts = 2
    Hosts = {"h", "g"}
INVARIANTS
    TypeOK
    RightSecret
    ServedOrTold
    ListenersApart
    RoutesFollowHosts
CHECK_DEADLOCK FALSE
