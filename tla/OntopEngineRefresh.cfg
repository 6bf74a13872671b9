SPECIFICATION FairSpec
CONSTANTS
    Sessions = {s1}
    Workers = {w1}
    Rows = {r1}
    GoodTtl = {ttl}
    BadTtl = BadTtl
    Absent = Absent
    Unwritten = Unwritten
    Texts = {good}
    Untranslatable = {}
    NoSql = NoSql
    NoEngine = NoEngine
    NoReply = NoReply
    TableCounts = {1, 2}
    MaxCommits = 1
PROPERTY
    RefreshReachesWorkers
