\* A database of nine tables of which the policy hides three and introspection one, a view, one ambiguous name,
\* two tenants; two rows at most are returned.
CONSTANTS
    t1 = 11
    t2 = 12
    NoTenant = NoTenant
    NoName = NoName
    NoRow = NoRow
    Tables <- MCTables
    Views <- MCViews
    IncludeViews = FALSE
    ColumnsOf <- MCColumnsOf
    Place <- MCPlace
    Rows <- MCRows
    JoinColumn = "id"
    DefaultSchema = "dbo"
    SystemSchemas = {"sys"}
    AllowedSchemas = {"dbo", "ops"}
    BlockedTables <- MCBlockedTables
    BlockedColumns <- MCBlockedColumns
    MaskedColumns <- MCMaskedColumns
    TenantColumns = {"tenant", "owner"}
    AllowedKinds = {"SELECT"}
    BlockedKeywords = {"DROP", "EXEC", "EXECUTE"}
    Tolerated = {}
    TenancyEnabled = TRUE
    RequireTenant = TRUE
    MaxRows = 2
    MaxTables = 2
    MaxJoins = 1
    MaxDepth = 1
    Requests <- MCRequests
SPECIFICATION Spec
\* A question's statement ends refused, failed or shown.
CHECK_DEADLOCK FALSE
INVARIANT FiltersKeepTheTopRows
