SPECIFICATION SchemaSpec
CONSTANTS
    MigratorBypassesRls = FALSE
INVARIANTS
    SchemaIsTheRevision
    TenantTablesAreGuarded
    ModelsAreTheSchema
