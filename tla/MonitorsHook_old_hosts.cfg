SPECIFICATION Spec
CONSTANTS
    ma = ma
    mb = mb
    mc = mc
    h0 = h0
    h1 = h1
    h2 = h2
    app = app
    u1 = u1
    u2 = u2
    u3 = u3
    u4 = u4
    a1 = a1
    a2 = a2
    m1 = m1
    host0 = host0
    cont0 = cont0
    Models = {ma, mb, mc}
    NoModel = NoModel
    Targets = {h0, h1}
    Apps = {app}
    NoApp = NoApp
    AppOf <- AllInApp
    HexDigits = {0, 1}
    Sha <- Digests
    HOST_PREFIX_MIN_LENGTH = 1
    HOST_PREFIX_MAX_LENGTH = 3
    Units = {u1, u2, u3, u4}
    Generic = {}
    GenericTarget <- FakedTargets
    Position <- Listing
    Offers <- OffersGroups
    NoTarget = NoTarget
    Addresses = {a1, a2}
    NoAddress = NoAddress
    Monitors = {m1, NoServices, Malformed}
    NoMonitors = NoMonitors
    NoServices = NoServices
    Malformed = Malformed
    Machines = {host0, cont0}
    NoMachine = NoMachine
    ParentOf <- Containers
    NoHost = NoHost
    NoHook = NoHook
    Escaped = {}
INVARIANT NoOldHosts
