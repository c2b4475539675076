CONSTANTS
    Probes <- MCProbes
SPECIFICATION Spec
INVARIANTS WrongCredentialsAreReported
CHECK_DEADLOCK FALSE
