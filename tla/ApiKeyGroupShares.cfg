SPECIFICATION SpecG
CONSTANTS
    u1 = u1
    u2 = u2
    g1 = g1
    k1 = k1
    k2 = k2
    k3 = k3
    dflt = dflt
    s1 = s1
    s2 = s2
    Users = {u1, u2}
    Groups = {g1}
    Keys = {k1, k2, k3}
    Scopes = {dflt, s1, s2}
    DefaultScope = dflt
    NoUser = NoUser
    MaxKeysPerUser = 3
SYMMETRY Symmetry
INVARIANT GroupShareFollowsGroup
