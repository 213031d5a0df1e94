SPECIFICATION Spec
CONSTANTS
    Clients = {c1}
    Library = {v1}
    c1 = c1
    v1 = v1
INVARIANTS
    UdfpsTypeOK
    AgreesWithLast
PROPERTY LightGoesOut
