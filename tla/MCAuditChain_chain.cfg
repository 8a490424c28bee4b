SPECIFICATION Spec
CONSTANTS
    sha256 = sha256
    md5 = md5
    a = a
    b = b
    Algo <- MCAlgo
    Supported <- MCSupported
    Header <- MCHeader
    List = {a, b}
    Payload <- MCPayload
    Rendering <- MCRendering
    NotCanonical = "TypeError"
    Render <- MCRender
    MaxEntries = 2
    MaxDamage = 1

SYMMETRY Callers
INVARIANTS
    TypeOK
    VerdictExact
    ChainLinked
PROPERTY
    ImplementsLog
