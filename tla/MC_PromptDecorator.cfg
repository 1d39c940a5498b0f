CONSTANTS
    Configs <- MCConfigs
    JsonPaths <- MCJsonPaths
    Payloads <- MCPayloads
    NoIndex = NoIndex
    Blank = Blank
    NotAString = NotAString
    EmptyBody = EmptyBody
    Malformed = Malformed
    ConfigError = ConfigError
    ErrorResponse = ErrorResponse
    Nil = Nil
    None = None

SPECIFICATION Spec

INVARIANTS
    TypeOK
    OnRequestMatchesReference
