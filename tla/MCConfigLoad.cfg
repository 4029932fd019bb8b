SPECIFICATION Spec
CONSTANTS
    Inputs = {"a", "b", "c"}
    BaseOf <- BaseNames
    Contents <- SomeContents
    MaxIRErrors = 1
INVARIANTS
    TypeOK
    NothingLostSilently
    OrderIndependent
    ErrorsFiledRight
CHECK_DEADLOCK FALSE
