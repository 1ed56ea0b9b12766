SPECIFICATION SchemaSpec
CONSTANTS
    MigratorBypassesRls = FALSE
INVARIANTS
    BackfillNormalises
