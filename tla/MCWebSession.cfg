CONSTANTS
    t1 = t1
    t2 = t2
    c1 = c1
    c2 = c2
    ann = ann
    bob = bob
    k1 = k1
    k2 = k2
    None = None
    Tabs = {t1, t2}
    Calls = {c1, c2}
    Users = {ann, bob}
    Tokens = {k1, k2}
SYMMETRY Symmetry
SPECIFICATION Spec
INVARIANTS
    SessionIsCoherent
PROPERTIES
    SessionsHaveReasons
