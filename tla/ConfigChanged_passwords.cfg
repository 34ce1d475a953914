SPECIFICATION Spec
CONSTANTS
    Options <- TwoPasswords
    NoOptions = NoOptions
    NameOf <- Names
    Within <- Texts
    Bad = Bad
    NotRunning = NotRunning
    NoText = NoText
    Empty = Empty
    Malformed = {"no base64"}
    SelfSigned = SelfSigned
    Sites = {"000-default", "extra-ssl"}
    SslNamed = {"extra-ssl"}
    MaxEvents = 2
INVARIANT PasswordInForce
