SPECIFICATION Spec
CONSTANTS
    Parts <- SomeParts
    AmbNamespace <- Default
    Secrets <- SomeSecrets
    SecretSets <- SomeSecretSets
    Contexts <- SomeContexts
    Modules <- SomeModules
    MaxContexts = 0
    Hosts = {"h", "g"}
INVARIANT
    ClientCertsOn
CHECK_DEADLOCK FALSE
