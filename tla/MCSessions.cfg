SPECIFICATION Spec
CONSTANTS
    Passwords = {p1, p2}
    Requests = {r1, r2}
    MaxWidth = 2
    MaxPairs = 5
    MaxSecrets = 2
    MaxFailures = 2
SYMMETRY SessionSymmetry
INVARIANTS SecretInForceProved SecondFactorAsked
PROPERTIES LoggedOutStaysOut AnsweredTokensWork
CHECK_DEADLOCK FALSE
