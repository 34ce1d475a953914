SPECIFICATION Spec
CONSTANTS
    max_attempts = 3
    Polls = 2
    MaxWrites = 2
    MaxTime = 1
    Keys = {k1, k2}
    Values = {v1, v2}
    NoValue = NoValue
    Deleted = Deleted
    NoCopy = NoCopy
    Empty = Empty
    Torn = Torn
    NoText = NoText
    Units = {u, v}
    local_unit = u
    NoSettings = NoSettings
    Nothing = Nothing
    Shared = Shared
    MaxSets = 2
    NoFile = NoFile
    Partial = Partial
    NoCall = NoCall
    NoService = NoService
    CMD_RETRY_COUNT = 3
    ExitCodes = {1, 2, 100}
    MaxCommands = 2
    MaxHooks = 2
    MaxChanges = 2
    MaxFailures = 2
    MaxCuts = 1
    MaxCalls = 2
    Devices = {d1, d2, d3}
    Prefixes <- MCPrefixes
    Settings <- MCSettings
    WithLists = {"some and a list"}
    Order <- MCOrder
    Remotes = {"remote"}
    required_keys <- MCRequired
    Definitions <- MCDefinitions
    Relations = {r1, r2}
    Checks <- MCChecks
    EndsWith <- MCEndsWith
    Versions <- MCVersions
    Paths <- MCPaths
    ca_file = "cert"
    Daemons <- MCServices
    restart_map <- MCRestartMap
    Sources <- MCSources
    PackageNames = {"ubuntu-cloud-keyring", "apache2"}
    keyring_package = "ubuntu-cloud-keyring"
    SNAP_NO_LOCK_RETRY_COUNT = 4
    Monitors = {"mem"}
    Extras <- MCExtras
    Spelled <- MCSpelled
    CheckConfigs <- MCConfigs
    valid_name_chars = {"a"}
    Characters = {"a", "$"}
    KeySets <- MCKeySets
    MaxContacts = 2
    MaxKeys = 4
CHECK_DEADLOCK FALSE
INVARIANT TypeOK
INVARIANT ConfirmedIsLoading
PROPERTY StorageIsAtomic
INVARIANT HistoryFollowsStore
INVARIANT AnswersAreJujus
INVARIANT ChangesHandled
INVARIANT ServicesFollowData
INVARIANT MonitorsHaveCommands
INVARIANT ServicesUseFiles
INVARIANT DoneOrRaised
INVARIANT CommandsFit
INVARIANT VolumeInPlace
INVARIANT ContactsParsed
INVARIANT CertificatesFit
