------------------------------- MODULE Schema --------------------------------
(* The chain of Alembic revisions (src/backend/alembic/versions) that builds *)
(* the database. A revision is the statements of its upgrade() and of its    *)
(* downgrade(), in their order; a statement adds or drops objects of the     *)
(* schema, or updates rows.                                                  *)
(*                                                                           *)
(* Objects: tables, columns and whether they are NOT NULL, foreign keys,     *)
(* unique indexes, checks, row-level security and policies. Defaults,        *)
(* primary keys named id and the indexes that constrain nothing are left     *)
(* out; so are types, but of the two columns that are created as JSON and    *)
(* that the models take for JSONB. Grants too: the default privileges give   *)
(* app_user all four commands on every table the migrator creates, so what   *)
(* it may do to the rows of a table is what the table's policies say.        *)
EXTENDS Naturals, Sequences, FiniteSets, SequencesExt

Commands == {"select", "insert", "update", "delete"}

Table(t) == <<"table", t>>
Column(t, c) == <<"column", t, c>>
NotNull(t, c) == <<"notnull", t, c>>
Type(t, c, type) == <<"type", t, c, type>>
Fk(t, c, to, rule) == <<"fk", t, c, to, rule>>
Unique(t, cols, where) == <<"unique", t, cols, where>>
Check(t, c, values) == <<"check", t, c, values>>
Rls(t) == <<"rls", t>>                      \* enabled and forced
\* A policy's name is a prefix and its command. Its clause names the setting
\* it compares with, and how it reads it:
\*   bare   current_setting(..)::uuid: an error when unset
\*   raw    current_setting(.., true)::uuid: an error when empty
\*   else   NULLIF(current_setting(.., true), '')::uuid: no row when unset or empty
Policy(t, prefix, cmd, clause) == <<"policy", t, prefix, cmd, clause>>
Policies(t, prefix, cmds, clause) == {Policy(t, prefix, cmd, clause) : cmd \in cmds}

Tables(objs) == {o[2] : o \in {x \in objs : x[1] = "table"}}
Columns(objs, t) == {o[3] : o \in {x \in objs : x[1] = "column" /\ x[2] = t}}

Required(t, c) == {Column(t, c), NotNull(t, c)}
Create(t, required, optional) ==
    {Table(t)} \cup {Column(t, c) : c \in optional} \cup UNION {Required(t, c) : c \in required}
TenantTable(t, required, optional) ==
    Create(t, required \cup {"tenant_id"}, optional)
    \cup {Fk(t, "tenant_id", "tenants", "no action"), Rls(t)}

-----------------------------------------------------------------------------
(* Statements.                                                               *)

Add(S) == [do |-> "add", objs |-> S]
Drop(S) == [do |-> "drop", objs |-> S]
DropPolicies(t, prefix, cmds) ==
    [do |-> "drop_policies", on |-> t, prefix |-> prefix, cmds |-> cmds]
DropTable(t) == [do |-> "drop_table", on |-> t]
DropColumns(t, cols) == [do |-> "drop_columns", on |-> t, cols |-> cols]
Update(row) == [do |-> "update", row |-> row]

\* The columns an object cannot do without.
Uses(o) == CASE o[1] \in {"column", "notnull", "type", "fk", "check"} -> {o[3]}
             [] o[1] = "unique" -> o[3]
             [] OTHER -> {}

\* The tenant_members and orders policies for platform admins read this column.
ReadByPolicies(objs, t, cols) ==
    /\ t = "users" /\ "is_platform_admin" \in cols
    /\ \E o \in objs : o[1] = "policy" /\ o[5] = "platform_admin"

SameName(o, p) == o = p \/ (o[1] = "policy" /\ p[1] = "policy" /\ \A i \in 2 .. 4 : o[i] = p[i])

\* Whether PostgreSQL accepts a statement, the rows aside.
Accepts(objs, s) ==
    CASE s.do = "add" ->
           \A o \in s.objs :
             /\ \A p \in objs : ~ SameName(o, p)
             /\ o[2] \in Tables(objs \cup s.objs)
             /\ Uses(o) \subseteq Columns(objs \cup s.objs, o[2])
             /\ o[1] = "fk" => o[4] \in Tables(objs \cup s.objs)
      [] s.do = "drop" -> s.objs \subseteq objs
      [] s.do = "drop_policies" -> s.on \in Tables(objs)
      [] s.do = "drop_table" ->
           /\ s.on \in Tables(objs)
           /\ \A o \in objs : o[1] = "fk" /\ o[4] = s.on => o[2] = s.on
      [] s.do = "drop_columns" ->
           /\ s.cols \subseteq Columns(objs, s.on)
           /\ ~ ReadByPolicies(objs, s.on, s.cols)
      [] OTHER -> TRUE

Effect(objs, s) ==
    CASE s.do = "add" -> objs \cup s.objs
      [] s.do = "drop" -> objs \ s.objs
      [] s.do = "drop_policies" ->
           {o \in objs : ~ (o[1] = "policy" /\ o[2] = s.on /\ o[3] = s.prefix /\ o[4] \in s.cmds)}
      [] s.do = "drop_table" -> {o \in objs : o[2] # s.on}
      [] s.do = "drop_columns" -> {o \in objs : ~ (o[2] = s.on /\ Uses(o) \cap s.cols # {})}
      [] OTHER -> objs

\* 001
plans ==
    Create("plans", {"id", "name", "ai_token_quota", "price_amount", "currency", "max_members"},
        {"created_at"})

tenants ==
    Create("tenants", {"id", "name", "slug", "is_active"}, {"plan_id", "created_at",
        "updated_at"})
    \cup {Unique("tenants", {"slug"}, "all"), Fk("tenants", "plan_id", "plans", "no action")}

users ==
    Create("users", {"id", "cognito_sub", "email", "full_name", "is_active"}, {"created_at",
        "updated_at"})
    \cup {Unique("users", {"cognito_sub"}, "all"), Unique("users", {"email"}, "all")}

tenant_members ==
    TenantTable("tenant_members", {"id", "role", "status"}, {"user_id", "invited_email",
        "invited_at", "joined_at"})
    \cup {Fk("tenant_members", "user_id", "users", "no action"),
          Unique("tenant_members", {"tenant_id", "user_id"}, "all"),
          Check("tenant_members", "role", {"owner", "admin", "member"}),
          Check("tenant_members", "status", {"active", "invited", "removed"})}

tenant_members_policies ==
    {Policy("tenant_members", "tenant_isolation", "select", "raw tenant or user")}
    \cup Policies("tenant_members", "tenant_isolation", Commands \ {"select"}, "bare tenant")

rev001 == [
    up |-> <<Add(plans), Add(tenants), Add(users), Add(tenant_members),
             Add(tenant_members_policies)>>,
    down |-> <<DropPolicies("tenant_members", "tenant_isolation", Commands),
               Drop({Rls("tenant_members")}),
               DropTable("tenant_members"), DropTable("users"), DropTable("tenants"),
               DropTable("plans")>>]

\* 002
categories ==
    TenantTable("categories", {"id", "name", "sort_order", "is_active"}, {"description",
        "created_at", "updated_at"})
    \cup {Unique("categories", {"tenant_id", "name"}, "all")}

products ==
    TenantTable("products", {"id", "name", "price_amount", "is_active", "sort_order"},
        {"category_id", "description", "currency", "metadata", "created_at", "updated_at"})
    \cup {Fk("products", "category_id", "categories", "set null"),
          Unique("products", {"tenant_id", "name"}, "all"), Type("products", "metadata", "json"),
          Check("products", "currency", {"[A-Z]{3}"})}

\* The downgrade of a table of its own: policies, RLS, table.
DropTenantTable(t, prefix) ==
    <<DropPolicies(t, prefix, Commands), Drop({Rls(t)}), DropTable(t)>>

rev002 == [
    up |-> <<Add(Required("tenants", "default_currency")),
             Add({Check("tenants", "default_currency", {"[A-Z]{3}"})}),
             Add(categories), Add(products),
             Add(Policies("categories", "tenant_isolation", Commands, "raw tenant")),
             Add(Policies("products", "tenant_isolation", Commands, "raw tenant"))>>,
    down |-> <<DropPolicies("products", "tenant_isolation", Commands), Drop({Rls("products")}),
               DropPolicies("categories", "tenant_isolation", Commands), Drop({Rls("categories")}),
               DropTable("products"), DropTable("categories"),
               Drop({Check("tenants", "default_currency", {"[A-Z]{3}"})}),
               DropColumns("tenants", {"default_currency"})>>]

\* 003
storefront_config ==
    TenantTable("storefront_config", {"id"}, {"logo_s3_key", "primary_color", "secondary_color",
        "hero_text", "custom_css", "created_at", "updated_at"})
    \cup {Unique("storefront_config", {"tenant_id"}, "all"),
          Type("storefront_config", "custom_css", "json")}

rev003 == [
    up |-> <<Add(storefront_config),
             Add(Policies("storefront_config", "tenant_isolation", Commands, "raw tenant"))>>,
    down |-> DropTenantTable("storefront_config", "tenant_isolation")]

\* 15e696ca6d7d
rev15e6 == [
    up |-> <<Drop({Type("storefront_config", "custom_css", "json")}),
             Add({Type("storefront_config", "custom_css", "jsonb")})>>,
    down |-> <<Drop({Type("storefront_config", "custom_css", "jsonb")}),
               Add({Type("storefront_config", "custom_css", "json")})>>]

\* 9513201a399e
media_assets ==
    TenantTable("media_assets", {"id", "entity_type", "entity_id", "s3_key", "sort_order"},
        {"product_id", "file_name", "content_type", "created_at", "updated_at"})
    \cup {Fk("media_assets", "product_id", "products", "set null")}

rev9513 == [
    up |-> <<Add(media_assets),
             Add(Policies("media_assets", "tenant_isolation", Commands, "raw tenant"))>>,
    down |-> DropTenantTable("media_assets", "tenant_isolation")]

\* 6d8d3ca665cb
visits ==
    TenantTable("visits", {"id", "session_id"}, {"ip_hash", "user_agent", "utm_source",
        "utm_medium", "utm_campaign", "utm_content", "utm_term", "landed_at"})

rev6d8d == [
    up |-> <<Add(visits),
             Add(Policies("visits", "tenant_isolation", Commands, "raw tenant"))>>,
    down |-> DropTenantTable("visits", "tenant_isolation")]

\* a1b2c3d4e5f6: an asset need not belong to an entity.
reva1b2 == [
    up |-> <<Drop({NotNull("media_assets", "entity_type")}),
             Drop({NotNull("media_assets", "entity_id")})>>,
    down |-> <<Update("unlinked_asset"), Add({NotNull("media_assets", "entity_type")}),
               Add({NotNull("media_assets", "entity_id")})>>]

\* b3c4d5e6f7a8: empty settings must not reach the casts.
STANDARD_TABLES == <<"categories", "products", "storefront_config", "media_assets", "visits">>

Recreate(t, clause) ==
    <<DropPolicies(t, "tenant_isolation", Commands),
      Add(Policies(t, "tenant_isolation", Commands, clause))>>

create_standard_policies_fixed ==
    FlattenSeq([i \in 1 .. 5 |-> Recreate(STANDARD_TABLES[i], "tenant")])
create_standard_policies_old ==
    FlattenSeq([i \in 1 .. 5 |-> Recreate(STANDARD_TABLES[i], "raw tenant")])

revb3c4 == [
    up |-> create_standard_policies_fixed \o
           <<DropPolicies("tenant_members", "tenant_isolation", Commands),
             Add({Policy("tenant_members", "tenant_isolation", "select", "tenant or user")}),
             Add(Policies("tenant_members", "tenant_isolation", Commands \ {"select"}, "tenant"))>>,
    down |-> create_standard_policies_old \o
             <<DropPolicies("tenant_members", "tenant_isolation", Commands),
               Add(tenant_members_policies)>>]

\* c4d5e6f7a8b9
orders ==
    TenantTable("orders", {"id", "order_number", "customer_name", "items", "total_amount",
        "currency", "status"}, {"product_id", "customer_phone", "customer_email",
        "payment_link", "payment_notes", "notes", "visit_id", "created_at", "updated_at"})
    \cup {Fk("orders", "product_id", "products", "set null"),
          Fk("orders", "visit_id", "visits", "set null"),
          Unique("orders", {"tenant_id", "order_number"}, "all"),
          Check("orders", "status", {"pending", "confirmed", "fulfilled", "cancelled"})}

donations ==
    TenantTable("donations", {"id", "donation_number", "donor_name", "amount", "currency",
        "receipt_requested", "status"}, {"product_id", "donor_phone", "donor_email", "campaign",
        "payment_link", "payment_notes", "notes", "visit_id", "created_at", "updated_at"})
    \cup {Fk("donations", "product_id", "products", "set null"),
          Fk("donations", "visit_id", "visits", "set null"),
          Unique("donations", {"tenant_id", "donation_number"}, "all"),
          Check("donations", "status", {"pending", "received", "receipted", "cancelled"})}

pledges ==
    TenantTable("pledges", {"id", "pledge_number", "pledgor_name", "amount", "currency",
        "target_date", "fulfilled_amount", "status"}, {"product_id", "pledgor_phone",
        "pledgor_email", "payment_link", "payment_notes", "notes", "visit_id", "created_at",
        "updated_at"})
    \cup {Fk("pledges", "product_id", "products", "set null"),
          Fk("pledges", "visit_id", "visits", "set null"),
          Unique("pledges", {"tenant_id", "pledge_number"}, "all"),
          Check("pledges", "status", {"pledged", "partially_fulfilled", "fulfilled", "lapsed"})}

utm_events ==
    TenantTable("utm_events", {"id", "visit_id", "event_type", "event_ref_id"}, {"created_at"})
    \cup {Fk("utm_events", "visit_id", "visits", "cascade"),
          Check("utm_events", "event_type", {"page_view", "order", "donation", "pledge"})}

revc4d5 == [
    up |-> <<Add(orders), Add(Policies("orders", "tenant_isolation", Commands, "tenant")),
             Add(donations), Add(Policies("donations", "tenant_isolation", Commands, "tenant")),
             Add(pledges), Add(Policies("pledges", "tenant_isolation", Commands, "tenant")),
             Add(utm_events), Add(Policies("utm_events", "tenant_isolation", Commands, "tenant"))>>,
    down |-> DropTenantTable("utm_events", "tenant_isolation")
             \o DropTenantTable("pledges", "tenant_isolation")
             \o DropTenantTable("donations", "tenant_isolation")
             \o DropTenantTable("orders", "tenant_isolation")]

ReadInsert == {"select", "insert"}
ReadWrite == {"select", "insert", "update"}

\* d5e6f7a8b9c0
audit_events ==
    TenantTable("audit_events", {"id", "actor_user_id", "entity_type", "entity_id", "action",
        "created_at"}, {"from_status", "to_status", "metadata_"})
    \cup {Fk("audit_events", "actor_user_id", "users", "no action")}

revd5e6 == [
    up |-> <<Add(audit_events),
             Add(Policies("audit_events", "audit_events", ReadInsert, "tenant"))>>,
    down |-> <<DropPolicies("audit_events", "audit_events", ReadInsert),
               DropTable("audit_events")>>]

\* e6f7a8b9c0d1
ai_conversations ==
    TenantTable("ai_conversations", {"id", "user_id", "messages", "created_at"}, {"updated_at"})
    \cup {Fk("ai_conversations", "user_id", "users", "no action"),
          Unique("ai_conversations", {"tenant_id", "user_id"}, "all")}

ai_usage_log ==
    TenantTable("ai_usage_log", {"id", "user_id", "conversation_id", "model", "tokens_in",
        "tokens_out", "cost_usd", "created_at"}, {})
    \cup {Fk("ai_usage_log", "user_id", "users", "no action"),
          Fk("ai_usage_log", "conversation_id", "ai_conversations", "no action")}

reve6f7 == [
    up |-> <<Add(ai_conversations),
             Add(Policies("ai_conversations", "ai_conversations", ReadWrite, "tenant")),
             Add(ai_usage_log),
             Add(Policies("ai_usage_log", "ai_usage_log", ReadInsert, "tenant"))>>,
    down |-> <<DropPolicies("ai_usage_log", "ai_usage_log", ReadInsert),
               DropTable("ai_usage_log"),
               DropPolicies("ai_conversations", "ai_conversations", ReadWrite),
               DropTable("ai_conversations")>>]

\* f7a8b9c0d1e2
storefront_ai_conversations ==
    TenantTable("storefront_ai_conversations", {"id", "session_id", "messages", "created_at"},
        {"updated_at"})
    \cup {Unique("storefront_ai_conversations", {"tenant_id", "session_id"}, "all")}

storefront_ai_usage_log ==
    TenantTable("storefront_ai_usage_log", {"id", "session_id", "conversation_id", "model",
        "tokens_in", "tokens_out", "cost_usd", "created_at"}, {})
    \cup {Fk("storefront_ai_usage_log", "conversation_id", "storefront_ai_conversations",
             "no action")}

revf7a8 == [
    up |-> <<Add(storefront_ai_conversations),
             Add(Policies("storefront_ai_conversations", "sf_ai_conv", ReadWrite, "tenant")),
             Add(storefront_ai_usage_log),
             Add(Policies("storefront_ai_usage_log", "sf_ai_usage", ReadInsert, "tenant"))>>,
    down |-> <<DropPolicies("storefront_ai_usage_log", "sf_ai_usage", ReadInsert),
               DropTable("storefront_ai_usage_log"),
               DropPolicies("storefront_ai_conversations", "sf_ai_conv", ReadWrite),
               DropTable("storefront_ai_conversations")>>]

\* g1h2i3j4k5l6: a read needs a signed-in user, a write only the tenant.
attribution_visitors ==
    TenantTable("attribution_visitors", {"visitor_id", "first_seen_at", "last_seen_at"}, {})
    \cup {Unique("attribution_visitors", {"visitor_id"}, "all"),
          Unique("attribution_visitors", {"tenant_id", "visitor_id"}, "all")}

attribution_sessions ==
    TenantTable("attribution_sessions", {"session_id", "visitor_id", "first_seen_at",
        "last_seen_at"}, {"utm_source", "utm_medium", "utm_campaign", "utm_content", "utm_term",
        "referrer"})
    \cup {Unique("attribution_sessions", {"session_id"}, "all"),
          Unique("attribution_sessions", {"tenant_id", "session_id"}, "all"),
          Fk("attribution_sessions", "visitor_id", "attribution_visitors", "no action")}

EventNames == {"storefront_view", "product_view", "add_to_cart", "begin_checkout",
    "submit_order", "submit_donation", "submit_pledge", "chat_open", "chat_message_sent"}

attribution_events ==
    TenantTable("attribution_events", {"id", "session_id", "occurred_at", "event_name"},
        {"props"})
    \cup {Fk("attribution_events", "session_id", "attribution_sessions", "no action"),
          Check("attribution_events", "event_name", EventNames)}

AttributionPolicies(t, prefix, cmds) ==
    {Policy(t, prefix, "select", "tenant and user")} \cup Policies(t, prefix, cmds, "tenant")

revg1h2 == [
    up |-> <<Add(attribution_visitors),
             Add(AttributionPolicies("attribution_visitors", "attr", {"insert", "update"})),
             Add(attribution_sessions),
             Add(AttributionPolicies("attribution_sessions", "attr", {"insert", "update"})),
             Add(attribution_events),
             Add(AttributionPolicies("attribution_events", "attr", {"insert"}))>>,
    down |-> <<DropPolicies("attribution_events", "attr", ReadInsert),
               DropTable("attribution_events"),
               DropPolicies("attribution_sessions", "attr", ReadWrite),
               DropTable("attribution_sessions"),
               DropPolicies("attribution_visitors", "attr", ReadWrite),
               DropTable("attribution_visitors")>>]

\* h2i3j4k5l6m7. Its UPDATE finds nothing: the default has filled the new column.
revh2i3 == [
    up |-> <<Add(Required("products", "track_inventory")), Add({Column("products", "stock_qty")}),
             Add({Check("products", "stock_qty", {">= 0"})})>>,
    down |-> <<Drop({Check("products", "stock_qty", {">= 0"})}),
               DropColumns("products", {"stock_qty"}),
               DropColumns("products", {"track_inventory"})>>]

manual_and_restore == {"manual_restock", "manual_adjustment", "order_cancel_restore"}
cancel_restore == Unique("stock_movements", {"order_id", "product_id"}, "order_cancel_restore")
cancel_restore_variant ==
    Unique("stock_movements", {"order_id", "product_id", "variant_id"}, "order_cancel_restore")

\* i3j4k5l6m7n8
stock_movements ==
    TenantTable("stock_movements", {"id", "product_id", "delta_qty", "reason", "created_at"},
        {"note", "order_id", "actor_user_id"})
    \cup {Fk("stock_movements", "product_id", "products", "no action"),
          Fk("stock_movements", "order_id", "orders", "no action"),
          Fk("stock_movements", "actor_user_id", "users", "no action"),
          Check("stock_movements", "reason", manual_and_restore), cancel_restore}

revi3j4 == [
    up |-> <<Add(stock_movements),
             Add(Policies("stock_movements", "stock_movements", ReadInsert, "tenant"))>>,
    down |-> <<DropPolicies("stock_movements", "stock_movements", ReadInsert),
               DropTable("stock_movements")>>]

\* A revision that adds columns and, over them, constraints.
AddsColumns(t, cols, constraints) == [
    up |-> <<Add({Column(t, c) : c \in cols}), Add(constraints)>>,
    down |-> <<Drop(constraints), DropColumns(t, cols)>>]

revj4k5 == AddsColumns("products", {"low_stock_threshold"}, {})

revk5l6 == [
    up |-> <<Add(Required("users", "is_platform_admin")),
             Add({Policy("tenant_members", "platform_admin", "select", "platform_admin")})>>,
    down |-> <<DropPolicies("tenant_members", "platform_admin", {"select"}),
               DropColumns("users", {"is_platform_admin"})>>]

PLATFORM_TABLES == <<"orders", "donations", "pledges">>

revl6m7 == [
    up |-> [i \in 1 .. 3 |->
              Add({Policy(PLATFORM_TABLES[i], "platform_admin", "select", "platform_admin")})],
    down |-> [i \in 1 .. 3 |-> DropPolicies(PLATFORM_TABLES[i], "platform_admin", {"select"})]]

\* m7n8o9p0q1r2: written like 002, without NULLIF.
notification_preferences ==
    TenantTable("notification_preferences", {"id", "email_enabled", "telegram_enabled"},
        {"telegram_chat_id", "telegram_bot_token_ref", "created_at", "updated_at"})
    \cup {Unique("notification_preferences", {"tenant_id"}, "all")}

revm7n8 == [
    up |-> <<Add(notification_preferences),
             Add(Policies("notification_preferences", "tenant_isolation", Commands,
                           "raw tenant"))>>,
    down |-> DropTenantTable("notification_preferences", "tenant_isolation")]

\* n8o9p0q1r2s3: INSERT .. ON CONFLICT and RETURNING read too.
ATTRIBUTION_TABLES == <<"attribution_visitors", "attribution_sessions", "attribution_events">>

revn8o9 == [
    up |-> [i \in 1 .. 3 |-> Add({Policy(ATTRIBUTION_TABLES[i], "ingest", "select", "tenant")})],
    down |-> [i \in 1 .. 3 |-> DropPolicies(ATTRIBUTION_TABLES[4 - i], "ingest", {"select"})]]

revo9p0 == [
    up |-> <<Add({Column("categories", c) : c \in {"name_ar", "description_ar"}}),
             Add({Column("products", c) : c \in {"name_ar", "description_ar"}})>>,
    down |-> <<DropColumns("products", {"name_ar", "description_ar"}),
               DropColumns("categories", {"name_ar", "description_ar"})>>]

revp0q1 == [
    up |-> <<Update("mixed_case_invite"),
             DropPolicies("tenant_members", "tenant_isolation", {"select"}),
             Add({Policy("tenant_members", "tenant_isolation", "select",
                          "tenant or user or email")})>>,
    down |-> <<DropPolicies("tenant_members", "tenant_isolation", {"select"}),
               Add({Policy("tenant_members", "tenant_isolation", "select", "tenant or user")})>>]

source_check == Check("orders", "source", {"storefront", "pos"})

revq1r2 == [
    up |-> <<Add(Required("orders", "source")), Add({source_check})>>,
    down |-> <<Drop({source_check}), DropColumns("orders", {"source"})>>]

\* r2s3t4u5v6w7 and s3t4u5v6w7x8 widen a check.
Widens(t, c, from, to) == [
    up |-> <<Drop({Check(t, c, from)}), Add({Check(t, c, to)})>>,
    down |-> <<Drop({Check(t, c, to)}), Add({Check(t, c, from)})>>]

\* Mutant: the check is rebuilt with its old values.
revr2s3Same == Widens("tenant_members", "role", {"owner", "admin", "member"},
                      {"owner", "admin", "member"})

revr2s3 == Widens("tenant_members", "role", {"owner", "admin", "member"},
                  {"owner", "admin", "member", "cashier"})

revs3t4 == Widens("stock_movements", "reason", manual_and_restore,
                  manual_and_restore \cup {"pos_sale"})

revt4u5 == AddsColumns("products", {"sku", "barcode"},
                       {Unique("products", {"tenant_id", "sku"}, "sku IS NOT NULL"),
                        Unique("products", {"tenant_id", "barcode"}, "barcode IS NOT NULL")})

payment_method_check ==
    Check("orders", "payment_method", {"cash", "knet", "bank_transfer", "cod", "manual"})

revu5v6 == [
    up |-> <<Add({Column("orders", "payment_method")}), Add({payment_method_check}),
             Add({Column("storefront_config", "payment_methods")})>>,
    down |-> <<Drop({payment_method_check}), DropColumns("orders", {"payment_method"}),
               DropColumns("storefront_config", {"payment_methods"})>>]

customers ==
    TenantTable("customers", {"id", "name", "created_at"}, {"phone", "email", "notes",
        "updated_at"})
    \cup {Unique("customers", {"tenant_id", "phone"}, "phone IS NOT NULL"),
          Unique("customers", {"tenant_id", "email"}, "email IS NOT NULL")}

\* Mutant: row-level security is never enabled on the new table.
revv6w7NoRls == [
    up |-> <<Add(customers \ {Rls("customers")}),
             Add(Policies("customers", "customers", Commands, "tenant"))>>,
    down |-> <<DropPolicies("customers", "customers", Commands), DropTable("customers")>>]

revv6w7 == [
    up |-> <<Add(customers),
             Add(Policies("customers", "customers", Commands, "tenant"))>>,
    down |-> <<DropPolicies("customers", "customers", Commands), DropTable("customers")>>]

\* Dropping the column drops its foreign key.
AddsReference(t, c, to) == [
    up |-> <<Add({Column(t, c), Fk(t, c, to, "set null")})>>,
    down |-> <<DropColumns(t, {c})>>]

revw7x8 == AddsReference("orders", "customer_id", "customers")

revx8y9 == AddsReference("donations", "customer_id", "customers")

product_variants ==
    TenantTable("product_variants", {"id", "product_id", "name", "is_active", "sort_order",
        "created_at"}, {"size", "color", "sku", "barcode", "price_amount", "stock_qty",
        "updated_at"})
    \cup {Fk("product_variants", "product_id", "products", "cascade"),
          Unique("product_variants", {"tenant_id", "sku"}, "sku IS NOT NULL"),
          Unique("product_variants", {"tenant_id", "barcode"}, "barcode IS NOT NULL")}

revy9z0 == [
    up |-> <<Add(product_variants),
             Add(Policies("product_variants", "product_variants", Commands, "tenant"))>>,
    down |-> <<DropPolicies("product_variants", "product_variants", Commands),
               DropTable("product_variants")>>]

\* Mutant: the downgrade leaves out the index it had replaced.
revz0a1NoIndex == [
    up |-> <<Add({Column("stock_movements", "variant_id"),
                  Fk("stock_movements", "variant_id", "product_variants", "no action")}),
             Drop({cancel_restore}), Add({cancel_restore_variant})>>,
    down |-> <<DropColumns("stock_movements", {"variant_id"})>>]

revz0a1 == [
    up |-> <<Add({Column("stock_movements", "variant_id"),
                  Fk("stock_movements", "variant_id", "product_variants", "no action")}),
             Drop({cancel_restore}), Add({cancel_restore_variant})>>,
    down |-> <<Drop({cancel_restore_variant}), Add({cancel_restore}),
               DropColumns("stock_movements", {"variant_id"})>>]

one_open_per_tenant == Unique("pos_shifts", {"tenant_id"}, "status = open")

\* b2c3d4e5f6a7
pos_shifts ==
    TenantTable("pos_shifts", {"id", "status", "starting_cash", "opened_at", "created_at"},
        {"counted_cash", "closing_cash_sales", "opened_by", "closed_by", "closed_at", "notes",
        "updated_at"})
    \cup {Fk("pos_shifts", "opened_by", "users", "set null"),
          Fk("pos_shifts", "closed_by", "users", "set null"), one_open_per_tenant,
          Check("pos_shifts", "status", {"open", "closed"})}
    \cup {Check("pos_shifts", c, {">= 0"}) :
           c \in {"starting_cash", "counted_cash", "closing_cash_sales"}}

shift_reference == Fk("orders", "shift_id", "pos_shifts", "set null")

revb2c3 == [
    up |-> <<Add(pos_shifts), Add(Policies("pos_shifts", "pos_shifts", Commands, "tenant")),
             Add({Column("orders", "shift_id")}), Add({shift_reference})>>,
    down |-> <<Drop({shift_reference}), DropColumns("orders", {"shift_id"}),
               DropPolicies("pos_shifts", "pos_shifts", Commands),
               Drop({one_open_per_tenant}), DropTable("pos_shifts")>>]

revc3d4 == AddsColumns("orders", {"cancel_reason"}, {})

revd4e5 == AddsColumns("orders", {"shipping_address"}, {})

reve5f6 == [
    up |-> <<Add({Column("storefront_config", "shipping")}),
             Add({Column("orders", c) : c \in {"shipping_fee", "shipping_method"}})>>,
    down |-> <<DropColumns("orders", {"shipping_fee", "shipping_method"}),
               DropColumns("storefront_config", {"shipping"})>>]

revf6a7 == AddsColumns("orders", {"fulfillment_status"},
                       {Check("orders", "fulfillment_status", {"packed", "shipped", "delivered"})})

-----------------------------------------------------------------------------
Chain == <<rev001, rev002, rev003, rev15e6, rev9513, rev6d8d, reva1b2, revb3c4, revc4d5,
           revd5e6, reve6f7, revf7a8, revg1h2, revh2i3, revi3j4, revj4k5, revk5l6, revl6m7,
           revm7n8, revn8o9, revo9p0, revp0q1, revq1r2, revr2s3, revs3t4, revt4u5, revu5v6,
           revv6w7, revw7x8, revx8y9, revy9z0, revz0a1, revb2c3, revc3d4, revd4e5, reve5f6,
           revf6a7>>
Latest == Len(Chain)

\* The schema the upgrades lead to.
Built[n \in 0 .. Latest] == IF n = 0 THEN {} ELSE FoldLeft(Effect, Built[n - 1], Chain[n].up)

\* The policies the application meets: those that an upgrade creates and no
\* later statement drops.
LatestPolicies ==
    LET Drops(s, p) == /\ s.do = "drop_policies"
                       /\ p[2] = s.on /\ p[3] = s.prefix /\ p[4] \in s.cmds
        Kept(p, i, j) == \A k \in i .. Latest : \A l \in 1 .. Len(Chain[k].up) :
                             Drops(Chain[k].up[l], p) => k = i /\ l < j
        Created(i, j) == LET s == Chain[i].up[j] IN
                         IF s.do = "add" THEN {o \in s.objs : o[1] = "policy"} ELSE {} IN
    UNION {UNION {{p \in Created(i, j) : Kept(p, i, j)} : j \in 1 .. Len(Chain[i].up)} :
             i \in 1 .. Latest}

==============================================================================
