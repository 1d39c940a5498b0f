CONSTANTS
    CustomPool <- MCCustomPool
    MaxCustoms = 2
    EmailRegex <- MCEmailRegex
    PhoneRegex <- MCPhoneRegex
    SSNRegex <- MCSSNRegex
    Payloads <- MCPayloads
    Responses <- MCResponses
    InvalidRegex = InvalidRegex
    Unextractable = Unextractable
    ConfigError = ConfigError
    None = None
SPECIFICATION Spec
INVARIANTS
    PayloadRoundTrip
