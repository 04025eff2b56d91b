SPECIFICATION Spec
CONSTANTS
    k1 = k1
    k2 = k2
    k3 = k3
    k4 = k4
    k5 = k5
    k6 = k6
    k7 = k7
    empty = empty
    shipped = shipped
    plain = plain
    torn = torn
    gone = gone
    Keys <- MCKeys
    Empty <- empty
    Shipped <- shipped
    Plain <- plain
    Torn <- torn
    Gone <- gone
    Mishaps <- MCLostReply
INVARIANTS
    NoPasswordMeansPlain
