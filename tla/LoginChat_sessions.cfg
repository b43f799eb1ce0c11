SPECIFICATION MCSpec
SYMMETRY Alike
CONSTANTS
    c1 = c1
    c2 = c2
    c3 = c3
    t0 = t0
    t1 = t1
    t2 = t2
    a1 = a1
    a2 = a2
    k1 = k1
    kz = kz
    zero = zero
    Clients = {c1, c2, c3}
    Accounts = {a1, a2}
    Keys = {k1, kz}
    WithNul = {kz}
    None = None
    ContentThreads = {t0, t1, t2}
    ThreadOf <- OnThreads
    Zero = zero
    Registered = {a1}
    LoginRequests <- Requests
    Width = 3
    Height = 1
    ChatLogins <- OneKey
    Targets <- Places
    MaxPackets = 6
INVARIANTS
    ChatTypeOK
    KeyAdmitsOnce
    OnlyProvenReplace
    OneSession
    SectorsExact
    StayersHear
    OnlyLateJoins
    ToldIsStored
CHECK_DEADLOCK FALSE
