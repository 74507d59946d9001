SPECIFICATION Spec
CONSTANTS
    Mechanisms = {"ANONYMOUS", "EXTERNAL", "PLAIN", "CRAM-MD5", "DIGEST-MD5", "SCRAM-SHA-256"}
    Channels = {1}
    Secret <- MCSecret
    Claims <- MCClaims
    Admits <- MCAdmits
    Mistakes = {"admin", "stranger"}
    Oddities <- MCOddities
    MaxExchanges = 2
    MaxBlobs = 2
    MaxSwaps = 1
CHECK_DEADLOCK FALSE
INVARIANTS
    ProofFits
    OneGuess
    OverIsOver
    
