\* Three tokens: two rotations, or one and a sign-in, or two sign-ins.
CONSTANTS
    p1 = p1
    p2 = p2
    a = a
    b = b
    Providers = {p1, p2}
    Calls = {a, b}
    Homes <- SameOrTwo
    MaxToken = 3
    MaxSignIns = 2
SPECIFICATION Spec
INVARIANTS
    TypeOK
    CredentialKept
PROPERTIES
    NoFalseAlarm
