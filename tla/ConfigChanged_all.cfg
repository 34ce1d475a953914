SPECIFICATION FairSpec
CONSTANTS
    Options <- AllOptions
    NoOptions = NoOptions
    NameOf <- Names
    Within <- Texts
    Bad = Bad
    NotRunning = NotRunning
    NoText = NoText
    Empty = Empty
    Malformed = {"no base64"}
    SelfSigned = SelfSigned
    Sites = {"000-default", "extra-ssl"}
    SslNamed = {"extra-ssl"}
    MaxEvents = 2
INVARIANT TypeOK
INVARIANT FilesFollowOptions
INVARIANT PortsFollowSites
INVARIANT KeyFitsCertificate
INVARIANT LoadedIsWhole
PROPERTY UnfitOnlyInBetween
INVARIANT AccountsFollowOptions
PROPERTY ComesInForce
