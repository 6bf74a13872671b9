SPECIFICATION Spec
CONSTANTS
    Sessions = {s1, s2}
    Workers = {w1}
    Rows = {r1}
    GoodTtl = {ttl}
    BadTtl = BadTtl
    Absent = Absent
    Unwritten = Unwritten
    Texts = {good, bad}
    Untranslatable = {bad}
    NoSql = NoSql
    NoEngine = NoEngine
    NoReply = NoReply
    TableCounts = {1, 2}
    MaxCommits = 1
SYMMETRY MCSymmetry
INVARIANTS
    TypeOK
    CacheCoherent
    EnginesSeeCommitted
    NoBadMapping
    HitsNeedTwoTables
