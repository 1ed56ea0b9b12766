----------------------------- MODULE Migrations ------------------------------
(* alembic upgrade and downgrade over the chain of Schema, with the rows the *)
(* application of the day has stored.                                        *)
EXTENDS Models

CONSTANT MigratorBypassesRls    \* whether the role Alembic connects as does

VARIABLES
    rev,        \* how many revisions of the chain are applied
    objects,    \* the objects of the schema
    rows,       \* the kinds of row that exist and that some revision minds
    refused     \* whether the last command failed, and was rolled back

schema == <<rev, objects, rows, refused>>

\* What a kind of row is a row of, and the objects it contradicts.
RowColumn == [unlinked_asset        |-> Column("media_assets", "entity_type"),
              mixed_case_invite     |-> Column("tenant_members", "invited_email"),
              cashier               |-> Column("tenant_members", "role"),
              pos_sale              |-> Column("stock_movements", "reason"),
              two_variants_restored |-> Column("stock_movements", "variant_id")]

Contradicts(r, o) ==
    \/ /\ r = "unlinked_asset"
       /\ o \in {NotNull("media_assets", "entity_type"), NotNull("media_assets", "entity_id")}
    \/ r \in {"cashier", "pos_sale"} /\ o[1] = "check" /\ Column(o[2], o[3]) = RowColumn[r]
         /\ r \notin o[4]
    \/ r = "two_variants_restored" /\ o = cancel_restore

\* A statement over a database d: its objects and its rows, or its refusal.
\* UPDATE sees the rows the policies show the migrator, who has no tenant.
Execute(d, s) ==
    IF \/ d.refused
       \/ ~ Accepts(d.objects, s)
       \/ s.do = "add" /\ \E r \in d.rows, o \in s.objs : Contradicts(r, o)
    THEN [d EXCEPT !.refused = TRUE]
    ELSE LET objs == Effect(d.objects, s) IN
         [d EXCEPT !.objects = objs,
                   !.rows = {r \in @ : /\ RowColumn[r] \in objs
                                       /\ ~ (s.do = "update" /\ s.row = r /\ MigratorBypassesRls)}]

RunAll(d, statements) == FoldLeft(Execute, d, statements)

\* alembic upgrade, downgrade: a transaction. Several revisions are one
\* transaction too; taken one by one they pass through the same schemas.
Migrate(to, statements) ==
    LET d == RunAll([objects |-> objects, rows |-> rows, refused |-> FALSE], statements) IN
    IF d.refused
    THEN refused' = TRUE /\ UNCHANGED <<rev, objects, rows>>
    ELSE rev' = to /\ objects' = d.objects /\ rows' = d.rows /\ refused' = FALSE

Upgrade == rev < Latest /\ Migrate(rev + 1, Chain[rev + 1].up)

Downgrade == rev > 0 /\ Migrate(rev - 1, Chain[rev].down)

\* The application of the day stores a row of a kind. From the revision that
\* normalises the addresses on, it normalises them itself.
Store(r) ==
    /\ RowColumn[r] \in objects /\ r \notin rows
    /\ \A o \in objects : ~ Contradicts(r, o)
    /\ r = "mixed_case_invite" => \A i \in 1 .. rev : Chain[i] # revp0q1
    /\ rows' = rows \cup {r}
    /\ refused' = FALSE
    /\ UNCHANGED <<rev, objects>>

SchemaInit == rev = 0 /\ objects = {} /\ rows = {} /\ refused = FALSE

SchemaNext == Upgrade \/ Downgrade \/ \E r \in DOMAIN RowColumn : Store(r)

SchemaSpec == SchemaInit /\ [][SchemaNext]_schema

-----------------------------------------------------------------------------
\* However a database got to its revision, by upgrades and downgrades, it has
\* the schema the upgrades alone lead to: every downgrade undoes its upgrade,
\* the policies it replaced and the index it rebuilt included. No upgrade is ever
\* refused, whatever the rows; a downgrade only for rows the older schema has no
\* place for, never for a statement out of order (a table still referenced, a
\* column a policy reads).
SchemaIsTheRevision ==
    /\ objects = Built[rev]
    /\ rev = Latest => LatestPolicies = {o \in objects : o[1] = "policy"}
    /\ rev < Latest => LET d == [objects |-> objects, rows |-> rows, refused |-> FALSE] IN
                     ~ RunAll(d, Chain[rev + 1].up).refused
    /\ rev > 0 => LET d == [objects |-> objects, rows |-> {}, refused |-> FALSE] IN
                  ~ RunAll(d, Chain[rev].down).refused

Ledgers == {"audit_events", "stock_movements", "ai_usage_log", "storefront_ai_usage_log",
            "attribution_events"}

WriteClauses == {"bare tenant", "raw tenant", "tenant"}
ReadClauses == WriteClauses \cup {"tenant and user"}
MemberClauses == {"raw tenant or user", "tenant or user", "tenant or user or email"}

\* At every revision, a table with a tenant has row-level security and policies
\* to read and insert; what is written through a policy is of the tenant, and
\* what is read is too, or the caller's own, or a platform administrator's. The
\* ledgers (audit trail, stock movements, AI usage, analytics events) can only be
\* appended to: no policy lets the application change or delete their rows.
TenantTablesAreGuarded ==
    /\ \A t \in {x \in Tables(objects) : "tenant_id" \in Columns(objects, x)} :
           LET policies == {o \in objects : o[1] = "policy" /\ o[2] = t} IN
           /\ Rls(t) \in objects
           /\ \A cmd \in ReadInsert : \E p \in policies : p[4] = cmd
           /\ \A p \in policies :
                \/ p[5] \in WriteClauses
                \/ p[4] = "select" /\ p[5] \in ReadClauses
                \/ p[4] = "select" /\ p[5] \in MemberClauses /\ t = "tenant_members"
                \/ p[4] = "select" /\ p[5] = "platform_admin"
                     /\ t \in {"tenant_members", "orders", "donations", "pledges"}
    /\ \A o \in objects : o[1] = "policy" /\ o[2] \in Ledgers => o[4] \in ReadInsert

\* p0q1r2s3t4u5: "normalize all existing invited_email values".
BackfillNormalises ==
    \A i \in 1 .. rev : Chain[i] = revp0q1 => "mixed_case_invite" \notin rows

\* At the latest revision the application and the database agree, over 37
\* revisions and 26 models written by hand: the same tables and columns (a
\* column a model lacks is never written, one the table lacks fails every
\* query), no column is NOT NULL that a model leaves out, and every NOT NULL,
\* foreign key, unique index and check a model declares is there, the drift of
\* KnownDrift excepted, all of which is real.
ModelsAreTheSchema ==
    rev = Latest =>
        /\ {o \in objects : o[1] \in {"table", "column"}}
               = {o \in AllModels : o[1] \in {"table", "column"}}
        /\ {o \in objects : o[1] = "notnull"} \subseteq AllModels
        /\ AllModels \ objects = KnownDrift

==============================================================================
