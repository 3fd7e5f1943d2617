SPECIFICATION Spec
CONSTANTS
    Mails = {m1, m2}
    Socials = {g1}
    Requests = {r1, r2}
    MaxId = 4
SYMMETRY AccountSymmetry
INVARIANTS VerifiedAccountStays
CHECK_DEADLOCK FALSE
