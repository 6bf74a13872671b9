\* Two sequence paths in a query, over the metadata that the server loads.
SPECIFICATION Spec
CONSTANTS
    Null = Null
    NoColumn = NoColumn
    NoConstant = NoConstant
    NoLimit = NoLimit
    RdfType = "type"
    Mappings <- MCMappings
    PrimaryKeys <- MCUnknown
    NotNull <- MCUnknown
    ForeignKeys <- MCUnknown
    BaseAlias <- MCBaseAlias
    SnakeCase <- MCSnakeCase
    LowerCase <- MCLowerCase
    Columns <- MCColumns
    Databases <- MCDatabases
    Queries <- MCPathQueries
    MaxIterations = 10
INVARIANT PathVariablesAreUnique
CHECK_DEADLOCK FALSE
