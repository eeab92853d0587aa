\* Two accounts, two requests at a time, two Centers.
SPECIFICATION Spec
CONSTANTS
    Users = {u1, u2}
    Tokens = {t1, t2}
    Centers = {c1, c2}
    Requests = {q1, q2}
    NoRequest = NoRequest
    NoUser = NoUser
    MaxResets = 1
INVARIANTS
    AdminRemains
    SessionsAreRevoked
PROPERTIES
    OneBootstrap
    ImplementsRegistry
SYMMETRY Symmetry
