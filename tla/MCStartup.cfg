CONSTANTS
    Probes <- MCProbes
SPECIFICATION FairSpec
INVARIANTS
    TypeOK
    ClientsAreClosed
    UIIsEntitled
    CredentialsComeTogether
PROPERTIES StartupEnds
CHECK_DEADLOCK FALSE
