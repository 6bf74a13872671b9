\* The work on a query stops when its SQL is there.
SPECIFICATION Spec
CONSTANTS
    Null = Null
    NoColumn = NoColumn
    NoConstant = NoConstant
    NoLimit = NoLimit
    RdfType = "type"
    Mappings <- MCMappings
    PrimaryKeys <- MCPrimaryKeys
    NotNull <- MCNotNull
    ForeignKeys <- MCUnknown
    BaseAlias <- MCBaseAlias
    SnakeCase <- MCSnakeCase
    LowerCase <- MCLowerCase
    Columns <- MCColumns
    Databases <- MCDatabases
    Queries <- MCQueries
    MaxIterations = 10
INVARIANTS
    TypeOK
    ParserKeepsQuery
    PlanMeansQuery
    RoundsSettle
    SqlIsWellFormed
    SqlAnswersQuery
    SqlPagesQuery
PROPERTY PassesKeepMeaning
CHECK_DEADLOCK FALSE
