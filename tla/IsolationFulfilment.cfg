SPECIFICATION IsolationSpec
CONSTANTS
    t1 = t1
    t2 = t2
    ann = ann
    bob = bob
    cyd = cyd
    pat = pat
    Tenants = {t1, t2}
    Users = {ann, bob, cyd, pat}
    PlatformAdmins = {pat}
    Memberships <- MCMemberships
    Clients = {c1, c2}
    Pool = {n1}
    None = None
INVARIANT FulfilmentIsAnswered
SYMMETRY Symmetry
