CONSTANTS
    c1 = c1
    u1 = u1
    u2 = u2
    d1 = d1
    l1 = l1
    oldKey = oldKey
    admin123 = admin123
    tiny = tiny
    short = short
    long = long
    huge = huge
    wide = wide
    Creates = {c1}
    Updates = {u1, u2}
    Deletes = {d1}
    Logs = {l1}
    Field = {"enabled", "limit"}
    Value = {"on", "off", "low", "high"}
    Body <- MCBody
    Target = {1, 2}
    InitialKeys <- MCInitialKeys
    Plain = {admin123, tiny, short, long, huge, wide}
    Length <- MCLength
    Bytes <- MCBytes
    Default = admin123
    Empty = Empty
    Nothing = Nothing
    Address = {a1, a2}
    MaxFailures = 2
    Lockout = 2
    MaxAttempts = 3
    MaxTime = 3
    MaxSetBack = 1
    DateAt <- MCDateAt
    MonthStart <- MCMonthStart
    Bodies <- MCBodies
    InitialConfig <- MCInitialConfig
    KnownStrategies = {"api_key"}
    KnownProtocols = {"http", "https", "socks5"}
    NoStrategy = NoStrategy
    MaxPending = 2
    Lister = {h1, h2, h3}
    Name = {"alice", "bob"}
    KeyId = {k1, k2}
    OldLog <- MCOldLog
    MaxRows = 4
    PerPage = 2
    NoName = NoName

SPECIFICATION AdminSpec
PROPERTY OnlyProvidedFieldsUpdated
