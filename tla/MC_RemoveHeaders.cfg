CONSTANTS
    Params <- MCParams
    Absent = Absent
    NotObject = NotObject
    NoHeaders = NoHeaders
    NotArray = NotArray
    NoName = NoName
    None = None

SPECIFICATION Spec

INVARIANTS
    TypeOK
    ValidatedConfigRemovesItsHeaders
