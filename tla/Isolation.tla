------------------------------ MODULE Isolation ------------------------------
(* Who sees and writes whose rows: the requests of the API and the tasks of  *)
(* the workers, statement by statement, against the row-level security of    *)
(* the latest schema.                                                        *)
(*                                                                           *)
(* A request borrows a connection from the pool for a transaction. SET LOCAL *)
(* tells PostgreSQL who asks (core/dependencies.py); when the transaction    *)
(* ends the settings become empty strings, and the next borrower finds them. *)
(* An endpoint is the list of its statements: the guarded table each is on   *)
(* and how it selects its rows. Statements on plans, tenants and users,      *)
(* which have no policies, are left out, and so are the conditions of a      *)
(* query that say nothing of the tenant: they only narrow it. Foreign keys   *)
(* are checked, and followed by ON DELETE, outside row-level security: the   *)
(* checks of ids that a body gives are statements here, the rest is not.     *)
EXTENDS Schema

CONSTANTS
    Tenants, Users, PlatformAdmins,
    Memberships,    \* the rows of tenant_members
    Clients,        \* requests served at once
    Pool,           \* pooled connections
    None

VARIABLES
    request,        \* request[c]: what client c's request has come to
    settings,       \* settings[n]: the settings of connection n
    holder          \* holder[n]: the client that has borrowed it, or None

isolation == <<request, settings, holder>>

TenantMember == [tenant : Tenants, user : Users \cup {None}, email : Users \cup {None},
                 role : {"owner", "admin", "member", "cashier"},
                 status : {"active", "invited", "removed"}]

ASSUME IsolationAssumption ==
    /\ PlatformAdmins \subseteq Users
    /\ Memberships \subseteq TenantMember
    /\ None \notin Tenants \cup Users \cup Clients \cup Pool \cup {"unset", ""}
    /\ {"unset", ""} \cap (Tenants \cup Users) = {}
    /\ Pool \cap Clients = {}

\* uq_tenant_members_tenant_user: a user has one membership of a tenant.
ASSUME MembershipsAssumption ==
    /\ IsFiniteSet(Tenants) /\ IsFiniteSet(Memberships)
    /\ \A m, n \in Memberships :
         m.user # None /\ m.user = n.user /\ m.tenant = n.tenant => m = n

\* One row of every table per tenant, but the members. An address stands for
\* the user it is the address of.
Row(t) == [tenant |-> t, user |-> None, email |-> None, role |-> "member", status |-> "active"]
Rows(table) == IF table = "tenant_members" THEN Memberships ELSE {Row(t) : t \in Tenants}

-----------------------------------------------------------------------------
(* Row-level security.                                                       *)

Fresh == [tenant |-> "unset", user |-> "unset", email |-> "unset"]

\* Mutant: set_config(.., false).
AtEndKept(g) == g

\* SET LOCAL lasts until the transaction ends. What was never set stays unset.
AtEnd(g) == [x \in DOMAIN g |-> IF g[x] = "unset" THEN "unset" ELSE ""]

Satisfies(clause, g, row) ==
    CASE clause \in {"tenant", "raw tenant"} -> g.tenant = row.tenant
      [] clause = "tenant and user" -> g.tenant = row.tenant /\ g.user \in Users
      [] clause = "tenant or user or email" ->
           g.tenant = row.tenant \/ g.user = row.user \/ g.email = row.email
      [] clause = "platform_admin" -> g.user \in PlatformAdmins

\* ''::uuid is an error where the clause has no NULLIF.
Raises(clause, g) == clause = "raw tenant" /\ g.tenant = ""

\* The policies on a table and a command.
PlatformTables == {"tenant_members", "orders", "donations", "pledges"}
AttributionTables == {"attribution_visitors", "attribution_sessions", "attribution_events"}
AppendOnly == {"attribution_events", "audit_events", "stock_movements", "ai_usage_log",
               "storefront_ai_usage_log"}
Undeletable == AppendOnly \cup AttributionTables
                 \cup {"ai_conversations", "storefront_ai_conversations"}

Clauses(table, cmd) ==
    CASE table = "notification_preferences" -> {"raw tenant"}
      [] cmd = "select" /\ table = "tenant_members" ->
           {"tenant or user or email", "platform_admin"}
      [] cmd = "select" /\ table \in PlatformTables \ {"tenant_members"} ->
           {"tenant", "platform_admin"}
      [] cmd = "select" /\ table \in AttributionTables -> {"tenant", "tenant and user"}
      [] (cmd = "update" /\ table \in AppendOnly) \/ (cmd = "delete" /\ table \in Undeletable) -> {}
      [] OTHER -> {"tenant"}

\* They are the ones the migrations leave.
ASSUME PoliciesAssumption ==
    \A p \in LatestPolicies : \A cmd \in {"select", "insert", "update", "delete"} :
        Clauses(p[2], cmd) = {q[5] : q \in {x \in LatestPolicies : x[2] = p[2] /\ x[4] = cmd}}

\* The rows a command may touch. One that finds its rows by a condition, or
\* returns them, reads them too.
Permitted(g, table, cmd, rows) ==
    LET read == Clauses(table, "select")
        write == Clauses(table, cmd) IN
    {row \in rows : /\ \E clause \in read : Satisfies(clause, g, row)
                    /\ \E clause \in write : Satisfies(clause, g, row)}
Fails(g, table, cmd) == \E clause \in Clauses(table, cmd) : Raises(clause, g)

-----------------------------------------------------------------------------
(* Statements.                                                               *)

Statement(do, on, by) == [do |-> do, on |-> on, by |-> by]

Set(name) == Statement("set", name, "")
Select(t, by) == Statement("select", t, by)     \* reads for the handler
List(t, by) == Statement("list", t, by)         \* reads for the answer
Load(t, by) == Statement("load", t, by)         \* refuses when there is no row
Insert(t) == Statement("insert", t, "")
Change(t, by) == Statement("change", t, by)     \* UPDATE .. WHERE: what there is
Delete(t, by) == Statement("delete", t, by)
Save(t) == Statement("save", t, "")             \* flush: exactly the loaded rows
Discard(t) == Statement("discard", t, "")     \* flush of a delete
Refresh(t) == Statement("refresh", t, "")       \* exactly the loaded rows again
\* The flush before it stored an id of the body as a foreign key into t, looked
\* up by nothing but the key's check; how an id of no row is answered.
Refer(t, refusal) == Statement("refer", t, refusal)
Commit == Statement("commit", "", "")
Resolve == Statement("resolve", "tenant_members", "own")
Require(role) == Statement("require", role, "own and tenant")
AcceptAll == Statement("accept", "tenant_members", "invited")

\* Mutant: a removed member is still one.
OwnOnce(r, row) == row.user = r.caller /\ (r.at # None => row.tenant = r.at)

\* The memberships a caller may act by: of the tenant of X-Tenant-Id, if it is sent.
Own(r, row) ==
    row.user = r.caller /\ row.status = "active" /\ (r.at # None => row.tenant = r.at)

\* The rows a request's condition selects; ids named in it are of r.target.
Matches(r, by, row) ==
    CASE by = "any" -> TRUE
      [] by = "tenant" -> row.tenant = r.tenant
      [] by = "id" -> row.tenant = r.target
      [] by = "id and tenant" -> row.tenant = r.target /\ row.tenant = r.tenant
      [] by = "own" -> Own(r, row)
      [] by = "own and tenant" -> row.user = r.caller /\ row.status = "active"
                                    /\ row.tenant = r.tenant
      [] by = "invited" -> row.email = r.caller /\ row.status = "invited"

role_hierarchy == [owner |-> 3, admin |-> 2, member |-> 1, cashier |-> 0]

-----------------------------------------------------------------------------
(* The endpoints and the tasks.                                              *)

Endpoint(kind, does) == [kind |-> kind, does |-> does]

set_user_context == <<Set("user"), Set("email")>>
get_db_with_tenant == set_user_context \o <<Resolve, Set("tenant")>>
get_db_with_slug == <<Set("tenant")>>

Tenant(role, does) == Endpoint("tenant", get_db_with_tenant \o <<Require(role)>> \o does)
Public(does) == Endpoint("slug", get_db_with_slug \o does)

\* api/v1/auth.py, tenants.py, platform_admin.py
build_bootstrap == <<Select("tenant_members", "own"), Select("tenant_members", "invited")>>
login == Endpoint("user", set_user_context \o build_bootstrap)
bootstrap == Endpoint("user", set_user_context \o build_bootstrap)
accept_invite ==
    Endpoint("user", set_user_context \o <<Load("tenant_members", "invited"), AcceptAll>>)

create_tenant == Endpoint("new", <<Set("tenant"), Insert("tenant_members")>>)
get_current_tenant == Endpoint("tenant", get_db_with_tenant)

list_tenants == Endpoint("platform", <<Set("user"), List("tenant_members", "any"),
    Select("orders", "any"), Select("donations", "any"), Select("pledges", "any")>>)
set_suspension == <<Set("user"), Set("tenant"), Insert("audit_events")>>
suspend_tenant == Endpoint("platform", set_suspension)
reactivate_tenant == Endpoint("platform", set_suspension)

\* api/v1/members.py
list_members == Tenant("admin", <<List("tenant_members", "any")>>)
invite_member == Tenant("admin", <<Select("tenant_members", "tenant"), Insert("tenant_members")>>)
remove_member == Tenant("admin", <<Load("tenant_members", "id and tenant"),
    Select("tenant_members", "tenant"), Save("tenant_members")>>)
update_member_role == Tenant("owner", <<Load("tenant_members", "id and tenant"),
    Select("tenant_members", "tenant"), Save("tenant_members"), Insert("audit_events")>>)

\* api/v1/categories.py
list_categories == Tenant("member", <<List("categories", "any")>>)
create_category == Tenant("admin", <<Insert("categories"), Refresh("categories")>>)
get_category == Tenant("member", <<Load("categories", "id")>>)
update_category == Tenant("admin",
    <<Load("categories", "id"), Save("categories"), Refresh("categories")>>)
bulk_delete_categories == Tenant("admin", <<Delete("categories", "id")>>)
delete_category == Tenant("admin", <<Load("categories", "id"), Discard("categories")>>)

\* api/v1/products.py, product_variants.py, services/catalog_codes.py, inventory.py
assert_catalog_code_available ==
    <<Select("products", "tenant"), Select("product_variants", "tenant")>>
record_stock_movement == <<Change("products", "id and tenant"),
    Change("product_variants", "id and tenant"), Insert("stock_movements")>>
restore_stock_for_cancelled_order ==
    <<Select("products", "id"), Select("stock_movements", "id")>> \o record_stock_movement

list_products == Tenant("cashier",
    <<List("products", "tenant"), Select("product_variants", "tenant")>>)
create_product == Tenant("admin",
    assert_catalog_code_available
    \o <<Insert("products"), Refer("categories", "conflict"), Refresh("products")>>)
get_product == Tenant("member", <<Load("products", "id")>>)
update_product == Tenant("admin", <<Load("products", "id")>> \o assert_catalog_code_available
    \o <<Save("products"), Refer("categories", "conflict"), Refresh("products")>>)
restock_product == Tenant("admin",
    <<Load("products", "id")>> \o record_stock_movement \o <<Refresh("products")>>)
list_stock_movements == Tenant("member",
    <<Load("products", "id"), List("stock_movements", "id")>>)
bulk_delete_products == Tenant("admin", <<Delete("products", "id")>>)
delete_product == Tenant("admin", <<Load("products", "id"), Discard("products")>>)

get_product_or_404 == Load("products", "id and tenant")
get_variant_or_404 == Load("product_variants", "id and tenant")
list_variants == Tenant("cashier",
    <<get_product_or_404, List("product_variants", "id and tenant")>>)
create_variant == Tenant("admin", <<get_product_or_404>> \o assert_catalog_code_available
    \o <<Insert("product_variants"), Refresh("product_variants")>>)
get_variant == Tenant("member", <<get_product_or_404, get_variant_or_404>>)
update_variant == Tenant("admin",
    <<get_product_or_404, get_variant_or_404>> \o assert_catalog_code_available
    \o <<Save("product_variants"), Refresh("product_variants")>>)
delete_variant == Tenant("admin",
    <<get_product_or_404, get_variant_or_404, Discard("product_variants")>>)

\* api/v1/media.py: the entity of an upload is the key of no table.
\* storefront_config.py, notification_preferences.py: they save the tenant's row,
\* or insert it when there is none yet.
list_media == Tenant("member", <<List("media_assets", "any")>>)
create_upload_url == Tenant("admin", <<Insert("media_assets"), Refer("products", "error")>>)
get_download_url == Tenant("member", <<Load("media_assets", "id")>>)
delete_media == Tenant("member", <<Load("media_assets", "id"), Discard("media_assets")>>)

SaveOrInsert(t) ==
    <<Select(t, "tenant"), Change(t, "tenant"), Insert(t), Refresh(t)>>
get_storefront_config == Tenant("member", <<List("storefront_config", "tenant")>>)
upsert_storefront_config == Tenant("admin", SaveOrInsert("storefront_config"))
get_notification_preferences == Tenant("member",
    <<Select("notification_preferences", "tenant"), Insert("notification_preferences"),
      Refresh("notification_preferences")>>)
update_notification_preferences == Tenant("admin", SaveOrInsert("notification_preferences"))

\* api/v1/customers.py, services/customer_link.py
find_or_create_customer == <<Select("customers", "tenant"), Insert("customers")>>
list_customers == Tenant("member", <<List("customers", "tenant")>>)
create_customer == Tenant("admin", <<Insert("customers"), Refresh("customers")>>)
get_customer == Tenant("member", <<Load("customers", "id and tenant")>>)
update_customer == Tenant("admin",
    <<Load("customers", "id and tenant"), Save("customers"), Refresh("customers")>>)
delete_customer == Tenant("admin",
    <<Load("customers", "id and tenant"), Discard("customers")>>)
list_customer_orders == Tenant("member",
    <<Load("customers", "id and tenant"), List("orders", "id and tenant")>>)

\* services/order_create.py, services/numbering.py, api/v1/pos.py
create_order ==
    <<Load("products", "id and tenant"), Load("product_variants", "id and tenant"),
      Change("product_variants", "id and tenant"), Change("products", "id and tenant")>>
    \o find_or_create_customer \o <<Select("orders", "tenant"), Insert("orders")>>

get_open_shift == Select("pos_shifts", "tenant")
compute_cash_sales == Select("orders", "tenant")
list_pos_orders == Tenant("cashier", <<List("orders", "tenant")>>)
get_pos_order == Tenant("cashier", <<Load("orders", "id and tenant")>>)
get_pos_payment_methods == Tenant("cashier", <<Select("storefront_config", "tenant")>>)
get_current_shift == Tenant("cashier", <<get_open_shift, compute_cash_sales>>)
open_shift == Tenant("cashier",
    <<get_open_shift, Insert("pos_shifts"), Refresh("pos_shifts"), Commit>>)
close_shift == Tenant("cashier",
    <<get_open_shift, compute_cash_sales, Change("pos_shifts", "tenant"), Commit>>)
create_pos_order == Tenant("cashier", <<get_open_shift>> \o create_order
    \o record_stock_movement \o <<Save("orders"), Commit>>)
cancel_pos_order == Tenant("cashier",
    <<Load("orders", "id and tenant"), Save("orders")>> \o restore_stock_for_cancelled_order
    \o <<Insert("audit_events"), Commit>>)

\* api/v1/status_transitions.py
log_audit == Insert("audit_events")
transition_order_status == Tenant("admin",
    <<Load("orders", "id"), Save("orders"), log_audit>>
    \o restore_stock_for_cancelled_order \o <<Refresh("orders")>>)
transition_donation_status == Tenant("admin",
    <<Load("donations", "id"), Save("donations"), log_audit, Refresh("donations")>>)
transition_pledge_status == Tenant("admin",
    <<Load("pledges", "id"), Save("pledges"), log_audit, Refresh("pledges")>>)
transition_order_fulfillment == Tenant("admin",
    <<Load("orders", "id and tenant"), Save("orders"), log_audit, Commit, Refresh("orders")>>)

\* api/v1/admin_lists.py, dashboard_analytics.py
list_orders == Tenant("member", <<List("orders", "tenant")>>)
list_donations == Tenant("member", <<List("donations", "tenant")>>)
list_pledges == Tenant("member", <<List("pledges", "tenant")>>)
export_orders == Tenant("admin", <<List("orders", "tenant")>>)
export_donations == Tenant("admin", <<List("donations", "tenant")>>)
export_pledges == Tenant("admin", <<List("pledges", "tenant")>>)

get_order == Tenant("member", <<Load("orders", "id and tenant")>>)

get_analytics_summary == Endpoint("tenant", get_db_with_tenant
    \o <<List("attribution_sessions", "tenant"), Select("attribution_events", "tenant")>>)
get_sales_summary == Tenant("member", <<List("orders", "tenant")>>)
get_revenue_analytics == Tenant("member", <<List("orders", "tenant")>>)
get_pos_today == Tenant("member", <<List("orders", "tenant")>>)
get_repeat_customers == Tenant("member",
    <<List("orders", "tenant"), Select("customers", "tenant")>>)

\* api/v1/ai_chat.py, services/ai_gateway.py
Conversation(t, log) == <<Select(t, "tenant"), Insert(t), Select("products", "any"),
    Change(t, "tenant"), Insert(log)>>
ai_chat == Tenant("member", Conversation("ai_conversations", "ai_usage_log"))

\* api/v1/public_storefront.py, services/analytics_ingest.py
list_public_categories == Public(<<List("categories", "any")>>)
list_public_products == Public(<<List("products", "any"), Select("media_assets", "any"),
    Select("product_variants", "tenant")>>)
get_public_storefront_config == Public(<<List("storefront_config", "tenant")>>)
capture_visit == Public(<<Insert("visits")>>)
validate_visit == <<Load("visits", "id and tenant")>>
create_utm_event == <<Insert("utm_events")>>
submit_order == Public(validate_visit \o <<Select("storefront_config", "tenant")>>
    \o create_order \o create_utm_event \o <<Commit>>)
submit_donation == Public(validate_visit \o <<Load("products", "id and tenant")>>
    \o find_or_create_customer \o <<Select("donations", "tenant"), Insert("donations")>>
    \o create_utm_event \o <<Commit>>)
submit_pledge == Public(validate_visit \o <<Load("products", "id and tenant"),
    Select("pledges", "tenant"), Insert("pledges")>> \o create_utm_event)
storefront_ai_chat == Public(
    Conversation("storefront_ai_conversations", "storefront_ai_usage_log"))
ingest_analytics_events == Public(
    <<Insert("attribution_visitors"), Change("attribution_visitors", "tenant"),
      Insert("attribution_sessions"), Change("attribution_sessions", "tenant"),
      Select("attribution_events", "tenant"), Insert("attribution_events")>>)

\* workers/tasks/notifications.py: a connection of its own, gone with the task.
send_order_notification == Endpoint("task", <<Set("tenant"),
    Select("notification_preferences", "tenant"), Load("orders", "id")>>)
send_donation_notification == Endpoint("task", <<Set("tenant"),
    Select("notification_preferences", "tenant"), Load("donations", "id")>>)
send_donation_receipt == Endpoint("task", <<Set("tenant"), Load("donations", "id")>>)

Endpoints == [
    login |-> login, bootstrap |-> bootstrap, accept_invite |-> accept_invite,
    create_tenant |-> create_tenant, get_current_tenant |-> get_current_tenant,
    list_tenants |-> list_tenants, suspend_tenant |-> suspend_tenant,
    reactivate_tenant |-> reactivate_tenant, list_members |-> list_members,
    invite_member |-> invite_member, remove_member |-> remove_member,
    update_member_role |-> update_member_role, list_categories |-> list_categories,
    create_category |-> create_category, get_category |-> get_category,
    update_category |-> update_category, bulk_delete_categories |-> bulk_delete_categories,
    delete_category |-> delete_category, list_products |-> list_products,
    create_product |-> create_product, get_product |-> get_product,
    update_product |-> update_product, restock_product |-> restock_product,
    list_stock_movements |-> list_stock_movements, bulk_delete_products |-> bulk_delete_products,
    delete_product |-> delete_product, list_variants |-> list_variants,
    create_variant |-> create_variant, get_variant |-> get_variant,
    update_variant |-> update_variant, delete_variant |-> delete_variant,
    list_media |-> list_media, create_upload_url |-> create_upload_url,
    get_download_url |-> get_download_url, delete_media |-> delete_media,
    get_storefront_config |-> get_storefront_config,
    upsert_storefront_config |-> upsert_storefront_config,
    get_notification_preferences |-> get_notification_preferences,
    update_notification_preferences |-> update_notification_preferences,
    list_customers |-> list_customers, create_customer |-> create_customer,
    get_customer |-> get_customer, update_customer |-> update_customer,
    delete_customer |-> delete_customer, list_customer_orders |-> list_customer_orders,
    list_pos_orders |-> list_pos_orders, get_pos_order |-> get_pos_order,
    get_pos_payment_methods |-> get_pos_payment_methods, get_current_shift |-> get_current_shift,
    open_shift |-> open_shift, close_shift |-> close_shift, create_pos_order |-> create_pos_order,
    cancel_pos_order |-> cancel_pos_order, transition_order_status |-> transition_order_status,
    transition_donation_status |-> transition_donation_status,
    transition_pledge_status |-> transition_pledge_status,
    transition_order_fulfillment |-> transition_order_fulfillment, list_orders |-> list_orders,
    list_donations |-> list_donations, list_pledges |-> list_pledges,
    export_orders |-> export_orders, export_donations |-> export_donations,
    export_pledges |-> export_pledges, get_order |-> get_order,
    get_analytics_summary |-> get_analytics_summary, get_sales_summary |-> get_sales_summary,
    get_revenue_analytics |-> get_revenue_analytics, get_pos_today |-> get_pos_today,
    get_repeat_customers |-> get_repeat_customers, ai_chat |-> ai_chat,
    list_public_categories |-> list_public_categories,
    list_public_products |-> list_public_products,
    get_public_storefront_config |-> get_public_storefront_config,
    capture_visit |-> capture_visit, submit_order |-> submit_order,
    submit_donation |-> submit_donation, submit_pledge |-> submit_pledge,
    storefront_ai_chat |-> storefront_ai_chat,
    ingest_analytics_events |-> ingest_analytics_events]

Tasks == [
    send_order_notification |-> send_order_notification,
    send_donation_notification |-> send_donation_notification,
    send_donation_receipt |-> send_donation_receipt]

\* The order the routes keep. Nobody is named to the database who has shown no
\* token, nor a tenant before it is resolved; a list is read with the tenant
\* named, and one of an id after a row of that id was found in the tenant;
\* invitations are accepted at the end of accept_invite alone.
SetsTenant(s) == s.do = "set" /\ s.on = "tenant"
Scoped(does, i) ==
    /\ \E j \in 1 .. (i - 1) : SetsTenant(does[j])
    /\ \A j \in 1 .. (i - 1) : does[j].do # "commit"
Identifies(s) ==
    s.do = "load" /\ (s.by = "id and tenant" \/ (s.by = "id" /\ s.on \notin PlatformTables))
Narrows(name, does, i) ==
    \/ does[i].by = "tenant"
    \/ does[i].by = "any" /\ (does[i].on \notin PlatformTables \/ name = "list_members")
    \/ does[i].by \in {"id", "id and tenant"}
         /\ \E j \in 1 .. (i - 1) : Scoped(does, j) /\ Identifies(does[j])

InOrder(name, kind, does) ==
    /\ kind \in {"tenant", "user", "new", "platform", "slug", "task"}
    /\ Len(does) \in Nat
    /\ \A i \in 1 .. Len(does) : LET s == does[i] IN
        /\ s.do = "set" /\ s.on # "tenant" => kind \notin {"slug", "task"}
        /\ SetsTenant(s) => kind # "user"
             /\ (kind = "tenant" => \E j \in 1 .. (i - 1) : does[j].do = "resolve")
        /\ s.do = "resolve" =>
             s = Resolve /\ kind = "tenant" /\ \A j \in 1 .. (i - 1) : ~ SetsTenant(does[j])
        /\ s.do = "list" /\ kind \in {"tenant", "slug"} =>
             Scoped(does, i) /\ Narrows(name, does, i)
        /\ s.do = "accept" => name = "accept_invite" /\ i = Len(does)
        /\ s.do = "refer" => s.by \in {"conflict", "error"}
        /\ name = "accept_invite" => s.do # "insert" /\ (s.do = "load" => s.by = "invited")
        /\ name = "list_members" /\ s.do = "list" => s.on = "tenant_members"

ASSUME RoutesAssumption ==
    \A routes \in {Endpoints, Tasks} : \A name \in DOMAIN routes :
        InOrder(name, routes[name].kind, routes[name].does)

\* What keeps a statement from being refused: a row is loaded by its id, written
\* and read again while the tenant is named, by commands its policies allow. The
\* transitions select by the id alone, and one route goes on after its commit.
\* A reference is stored unchecked by three routes, after all they look up.
TransitionsById ==
    {"transition_order_status", "transition_donation_status", "transition_pledge_status"}
StoresReferences == {"create_product", "update_product", "create_upload_url"}
Careful(name, kind, does) ==
    \A i \in 1 .. Len(does) : LET s == does[i]
                                 before == 1 .. (i - 1) IN
        /\ s.do \in {"insert", "save", "discard", "delete"} \/ s.on = "notification_preferences"
             => Scoped(does, i)
        /\ s.do = "load" => \/ name = "accept_invite" /\ s.on = "tenant_members"
                            \/ Scoped(does, i) /\ s.by \in {"id", "id and tenant"}
        /\ s.do = "load" /\ s.by = "id" /\ s.on \in PlatformTables =>
             s.on # "tenant_members" /\ (name \in TransitionsById \/ kind = "task")
        /\ s.do = "save" => s.on \notin AppendOnly
        /\ s.do = "discard" => s.on \notin Undeletable
        /\ s.do = "delete" => s.by = "id" /\ \A j \in 1 .. Len(does) :
                                does[j].do \in {"set", "resolve", "require", "delete"}
        /\ s.do = "refresh" =>
             \/ Scoped(does, i)
             \/ name = "transition_order_fulfillment" /\ \E j \in before : does[j].do = "commit"
        /\ s.do = "commit" /\ name = "transition_order_fulfillment" =>
             \E j \in before : Scoped(does, j) /\ Identifies(does[j])
        /\ s.do = "refer" =>
             /\ name \in StoresReferences
             /\ s.by = "error" => name = "create_upload_url"
             /\ \A j \in 1 .. Len(does) : does[j].do \in {"load", "delete"} => j < i
        /\ s.do = "resolve" => \A j \in before : does[j].do # "resolve"
        /\ s.do = "accept" => \E j \in before : does[j] = Set("email")
        /\ name = "accept_invite" => kind = "user" /\ s.do \in {"set", "load", "accept"}

ASSUME CarefulRoutesAssumption ==
    \A routes \in {Endpoints, Tasks} : \A name \in DOMAIN routes :
        Careful(name, routes[name].kind, routes[name].does)

-----------------------------------------------------------------------------
(* Requests.                                                                 *)

\* caller: the bearer of the token; at: the tenant of the header or the slug;
\* target: whose the ids that are looked up, in the path or the body, are.
Asked(kind) ==
    CASE kind = "tenant" -> [caller : Users, at : Tenants \cup {None}, target : Tenants]
      [] kind = "user" -> [caller : Users, at : {None}, target : {None}]
      [] kind = "new" -> [caller : Users, at : {None}, target : Tenants]
      [] kind = "platform" -> [caller : PlatformAdmins, at : {None}, target : Tenants]
      [] kind = "slug" -> [caller : {None}, at : Tenants, target : Tenants]
      [] kind = "task" -> {[caller |-> None, at |-> t, target |-> t] : t \in Tenants}

Started(name, endpoint, asked, n) ==
    [name |-> name, kind |-> endpoint.kind, does |-> endpoint.does,
     caller |-> asked.caller, at |-> asked.at, target |-> asked.target,
     tenant |-> CASE endpoint.kind \in {"slug", "task"} -> asked.at
                  [] endpoint.kind \in {"new", "platform"} -> asked.target
                  [] OTHER -> None,
     pc |-> 1, conn |-> n, loaded |-> {}, listed |-> {}, reads |-> {}, writes |-> {},
     refers |-> {}, committed |-> FALSE, status |-> "running"]

\* Over connection n, one of the routes.
Start(c, n, routes) ==
    /\ request[c] = None /\ holder[n] = None
    /\ \E name \in DOMAIN routes : \E asked \in Asked(routes[name].kind) :
         request' = [request EXCEPT ![c] = Started(name, routes[name], asked, n)]
    /\ holder' = [holder EXCEPT ![n] = c]
    /\ UNCHANGED settings

Begin(c) == \E n \in Pool : LET routes == Endpoints IN Start(c, n, routes)
Deliver(c) == LET routes == Tasks IN Start(c, c, routes)

Ended(r) == r.status # "running" \/ r.pc > Len(r.does)
Outcome(r) == IF r.status = "running" THEN "ok" ELSE r.status

\* Client c is about to execute a statement s of one of the kinds, as r over g.
At(c, kinds) ==
    request[c] # None /\ ~ Ended(request[c]) /\ request[c].conn # None
      /\ request[c].does[request[c].pc].do \in kinds
Current(c) == request[c].does[request[c].pc]
Context(c) == settings[request[c].conn]

Proceed(c, r) == request' = [request EXCEPT ![c] = [r EXCEPT !.pc = @ + 1]]
Stop(c, status) == request' = [request EXCEPT ![c].status = status]

Tagged(table, rows) == {[on |-> table, row |-> x] : x \in rows}
Loaded(r, table) == {x.row : x \in {y \in r.loaded : y.on = table}}

SetConfig(c) ==
    /\ At(c, {"set"})
    /\ LET s == Current(c)
           r == request[c] IN
       /\ settings' = [settings EXCEPT ![r.conn][s.on] =
                         IF s.on = "tenant" THEN r.tenant ELSE r.caller]
       /\ Proceed(c, r)
    /\ UNCHANGED holder

Found(c) == LET s == Current(c) IN
    {row \in Permitted(Context(c), s.on, "select", Rows(s.on)) : Matches(request[c], s.by, row)}

\* Mutant: the row is not there, and the handler goes on.
ReadAnyway(c) ==
    /\ At(c, {"select", "list", "load"})
    /\ LET s == Current(c)
           r == request[c]
           rows == Tagged(s.on, Found(c)) IN
       IF Fails(Context(c), s.on, "select") THEN Stop(c, "error")
       ELSE Proceed(c, [r EXCEPT !.reads = @ \cup rows,
                                 !.loaded = IF s.do = "load" THEN @ \cup rows ELSE @,
                                 !.listed = IF s.do = "list" THEN rows ELSE @])
    /\ UNCHANGED <<settings, holder>>

Read(c) ==
    /\ At(c, {"select", "list", "load"})
    /\ LET s == Current(c)
           r == request[c]
           rows == Tagged(s.on, Found(c)) IN
       CASE Fails(Context(c), s.on, "select") -> Stop(c, "error")
         [] s.do = "load" /\ rows = {} -> Stop(c, "not found")
         [] OTHER -> Proceed(c, [r EXCEPT !.reads = @ \cup rows,
                                        !.loaded = IF s.do = "load" THEN @ \cup rows ELSE @,
                                        !.listed = IF s.do = "list" THEN rows ELSE @])
    /\ UNCHANGED <<settings, holder>>

InsertRow(c) ==
    /\ At(c, {"insert"})
    /\ LET s == Current(c)
           r == request[c]
           rows == Tagged(s.on, {Row(r.tenant)}) IN
       IF /\ ~ Fails(Context(c), s.on, "insert")
          /\ Permitted(Context(c), s.on, "insert", {Row(r.tenant)}) # {}
       THEN Proceed(c, [r EXCEPT !.writes = @ \cup rows, !.loaded = @ \cup rows])
       ELSE Stop(c, "error")
    /\ UNCHANGED <<settings, holder>>

Command == [change |-> "update", save |-> "update", delete |-> "delete", discard |-> "delete"]

\* UPDATE and DELETE by a condition take the rows there are; the flush of
\* loaded rows fails when it matches fewer.
WriteRows(c) ==
    /\ At(c, DOMAIN Command)
    /\ LET s == Current(c)
           r == request[c]
           flush == s.do \in {"save", "discard"}
           meant == IF flush THEN Loaded(r, s.on)
                             ELSE {row \in Rows(s.on) : Matches(r, s.by, row)}
           met == Permitted(Context(c), s.on, Command[s.do], meant) IN
       IF Fails(Context(c), s.on, Command[s.do]) \/ (flush /\ met # meant)
       THEN Stop(c, "error")
       ELSE Proceed(c, [r EXCEPT !.writes = @ \cup Tagged(s.on, met)])
    /\ UNCHANGED <<settings, holder>>

\* The check of the foreign key sees every tenant's rows. None may be named.
StoreReference(c) ==
    /\ At(c, {"refer"})
    /\ LET s == Current(c)
           r == request[c] IN
       \/ \E rows \in {{}} \cup {{row} : row \in Rows(s.on)} :
            Proceed(c, [r EXCEPT !.refers = @ \cup Tagged(s.on, rows)])
       \/ Stop(c, s.by)
    /\ UNCHANGED <<settings, holder>>

RefreshRows(c) ==
    /\ At(c, {"refresh"})
    /\ LET s == Current(c)
           rows == Loaded(request[c], s.on) IN
       IF Permitted(Context(c), s.on, "select", rows) = rows
       THEN Proceed(c, request[c])
       ELSE Stop(c, "error")
    /\ UNCHANGED <<settings, holder>>

\* Mutant: scalar_one raises when there is none as well.
ResolveOne(c) ==
    /\ At(c, {"resolve"})
    /\ IF Cardinality(Found(c)) # 1 THEN Stop(c, "error")
       ELSE \E row \in Found(c) : Proceed(c, [request[c] EXCEPT !.tenant = row.tenant])
    /\ UNCHANGED <<settings, holder>>

\* get_db_with_tenant, steps 2 to 4: scalar_one_or_none raises when there are several.
ResolveTenant(c) ==
    /\ At(c, {"resolve"})
    /\ CASE Cardinality(Found(c)) > 1 -> Stop(c, "error")
         [] Found(c) = {} -> Stop(c, "forbidden")
         [] OTHER -> \E row \in Found(c) : Proceed(c, [request[c] EXCEPT !.tenant = row.tenant])
    /\ UNCHANGED <<settings, holder>>

RequireRole(c) ==
    /\ At(c, {"require"})
    /\ LET s == Current(c)
           seen == Permitted(Context(c), "tenant_members", "select", Memberships)
           mine == {row \in seen : Matches(request[c], s.by, row)} IN
       IF \E row \in mine : role_hierarchy[row.role] >= role_hierarchy[s.on]
       THEN Proceed(c, request[c])
       ELSE Stop(c, "forbidden")
    /\ UNCHANGED <<settings, holder>>

\* The loop of accept_invite sets the tenant of each invitation in turn; the
\* flush after it updates them all under the last.
AcceptInvitations(c) ==
    /\ At(c, {"accept"})
    /\ LET r == request[c]
           invitations == Loaded(r, "tenant_members") IN
       \E last \in invitations :
         LET g == [Context(c) EXCEPT !.tenant = last.tenant] IN
         /\ settings' = [settings EXCEPT ![r.conn] = g]
         /\ IF Permitted(g, "tenant_members", "update", invitations) = invitations
            THEN Proceed(c, [r EXCEPT !.writes = @ \cup r.loaded])
            ELSE Stop(c, "error")
    /\ UNCHANGED holder

\* The end of a transaction; the connection goes back to the pool.
Release(c) ==
    LET n == request[c].conn IN
    /\ settings' = [settings EXCEPT ![n] = IF n = c THEN Fresh ELSE AtEnd(settings[n])]
    /\ holder' = [holder EXCEPT ![n] = None]

\* A rule of the endpoint, not modelled here, refuses the request: rolled back.
Refuse(c) ==
    /\ request[c] # None /\ ~ Ended(request[c]) /\ request[c].tenant # None
    /\ ~ request[c].committed
    /\ request' = [request EXCEPT ![c] = None]
    /\ Release(c)

CommitEarly(c) ==
    /\ At(c, {"commit"})
    /\ Proceed(c, [request[c] EXCEPT !.conn = None, !.committed = TRUE])
    /\ Release(c)

\* The session borrows a connection again for the statement after its commit.
Borrow(c) ==
    /\ request[c] # None /\ ~ Ended(request[c]) /\ request[c].conn = None
    /\ \E n \in Pool : /\ holder[n] = None
                       /\ holder' = [holder EXCEPT ![n] = c]
                       /\ request' = [request EXCEPT ![c].conn = n]
    /\ UNCHANGED settings

\* get_db commits, or rolls back when the request failed, and answers.
Answer(c) ==
    /\ request[c] # None /\ Ended(request[c])
    /\ request' = [request EXCEPT ![c] = None]
    /\ IF request[c].conn = None THEN UNCHANGED <<settings, holder>> ELSE Release(c)

IsolationInit ==
    /\ request = [c \in Clients |-> None]
    /\ settings = [n \in Pool \cup Clients |-> Fresh]
    /\ holder = [n \in Pool \cup Clients |-> None]

IsolationNext == \E c \in Clients :
    \/ Begin(c) \/ Deliver(c) \/ SetConfig(c)
    \/ Read(c) \/ InsertRow(c) \/ WriteRows(c) \/ StoreReference(c) \/ RefreshRows(c)
    \/ ResolveTenant(c) \/ RequireRole(c) \/ AcceptInvitations(c) \/ Refuse(c)
    \/ CommitEarly(c) \/ Borrow(c) \/ Answer(c)

IsolationSpec == IsolationInit /\ [][IsolationNext]_isolation

-----------------------------------------------------------------------------
(* Properties.                                                               *)

TypeOK ==
    /\ \A c \in Clients : request[c] = None
         \/ (/\ request[c].name \in DOMAIN Endpoints \cup DOMAIN Tasks
             /\ request[c].conn \in Pool \cup {c, None}
             /\ request[c].conn # None => holder[request[c].conn] = c)
    /\ settings \in [Pool \cup Clients -> [DOMAIN Fresh -> {"unset", ""} \cup Tenants \cup Users]]
    /\ holder \in [Pool \cup Clients -> Clients \cup {None}]

TenantsOf(u) == {m.tenant : m \in {x \in Memberships : x.user = u /\ x.status = "active"}}

\* The tenants a request may act in.
Entitled(r) ==
    CASE r.kind = "tenant" ->
           TenantsOf(r.caller) \cap (IF r.at = None THEN Tenants ELSE {r.at})
      [] r.kind = "user" -> {}
      [] r.kind \in {"slug", "task"} -> {r.at}
      [] OTHER -> {r.target}

Requests == {request[c] : c \in {x \in Clients : request[x] # None}}
Answered == {r \in Requests : Ended(r)}

\* Whatever the connection was used for before, and whatever condition its
\* queries lack, a request reads only rows of the tenants its caller is an
\* active member of (or its storefront's), and its caller's own memberships
\* and invitations; a platform administrator reads four tables whole.
ReadsInTheTenant ==
    \A r \in Requests : \A x \in r.reads :
        \/ x.row.tenant \in Entitled(r)
        \/ x.on = "tenant_members" /\ r.caller # None /\ r.caller \in {x.row.user, x.row.email}
        \/ x.on \in PlatformTables /\ r.caller \in PlatformAdmins

\* A request writes only there, even a platform administrator's who could read
\* more; an invited user writes the invitations to the address of the token.
WritesInTheTenant ==
    \A r \in Requests : \A x \in r.writes :
        \/ x.row.tenant \in Entitled(r)
        \/ r.name = "accept_invite" /\ x.row.email = r.caller

\* A list shows all rows of the one tenant and no other. The page of the
\* members alone relies on the policies, which show callers their memberships
\* and invitations of other tenants too, and platform administrators everyone's.
ListsAreOfOneTenant ==
    \A r \in Answered : \A x \in r.listed :
        LET own == {y \in Rows(x.on) : y.tenant = r.tenant}
            shown == {y.row : y \in r.listed} IN
        r.status = "running" /\ r.kind \in {"tenant", "slug"} =>
            IF r.name # "list_members" THEN shown = own
            ELSE /\ own \subseteq shown
                 /\ \A y \in shown \ own :
                      r.caller \in {y.user, y.email} \cup PlatformAdmins

\* The three together: no caller, header or id, no id of a row and no earlier
\* borrower of the connection makes a statement of a request read, change or list
\* another tenant.
StaysInTheTenant == ReadsInTheTenant /\ WritesInTheTenant /\ ListsAreOfOneTenant

LooksUpAnId(r) == \E i \in 1 .. Len(r.does) :
    r.does[i].do \in {"load", "delete"} /\ r.does[i].by \in {"id", "id and tenant"}

\* An id of another tenant's row is refused like an id of none, and nothing is
\* written, by every endpoint that looks it up. A platform administrator, who can
\* read the row, is answered an error by the three that select by the id alone.
\* Not looked up is the category of a product that is created or updated, and the
\* product of an upload: these three alone can store a reference to a row of
\* another tenant.
ForeignIdsAreNotFound ==
    \A r \in Answered : r.tenant # None =>
        /\ r.tenant # r.target /\ LooksUpAnId(r) =>
             \/ Outcome(r) \in {"forbidden", "not found"}
             \/ \E i \in 1 .. Len(r.does) : r.does[i].do = "delete" /\ r.writes = {}
             \/ r.name \in TransitionsById /\ r.caller \in PlatformAdmins
        /\ \A x \in r.refers : x.row.tenant = r.tenant \/ r.name \in StoresReferences

\* No statement is refused by a policy, or fails for the settings the last
\* borrower left, and no foreign key fails unhandled, but in five known cases: a
\* member of several tenants who sends no X-Tenant-Id; the transitions above; the
\* order refreshed after the commit of its fulfilment; invitations of several
\* tenants accepted at once; an upload for a product that is not there.
FailuresAreKnown ==
    \A r \in Answered : Outcome(r) = "error" =>
        \/ r.at = None /\ Cardinality(TenantsOf(r.caller)) > 1 /\ r.tenant = None
             /\ r.kind = "tenant"
        \/ r.name \in TransitionsById /\ r.caller \in PlatformAdmins /\ r.target # r.tenant
        \/ r.name = "transition_order_fulfillment" /\ r.committed
        \/ r.name = "accept_invite" /\ Cardinality({x.row.tenant : x \in r.loaded}) > 1
        \/ r.name = "create_upload_url" /\ r.does[r.pc].do = "refer"

\* A connection nobody has borrowed names no tenant and no user, however the
\* last transaction ended (adr-0002: SET LOCAL "to prevent leakage across
\* pooled connections").
PooledConnectionsCarryNoTenant ==
    \A n \in Pool : holder[n] = None =>
        \A x \in DOMAIN Fresh : settings[n][x] \in {"unset", ""}

\* tests/test_m12_fulfillment.py: each fulfilment step is answered 200. A
\* change that is committed is not answered an error.
FulfilmentIsAnswered == \A r \in Answered : r.committed => Outcome(r) = "ok"

\* What ForeignIdsAreNotFound leaves out: a reference to another tenant's row is
\* not accepted. A foreign key alone does not see to it.
ReferencesAreOfTheTenant ==
    \A r \in Answered : Outcome(r) = "ok" => \A x \in r.refers : x.row.tenant = r.tenant

==============================================================================
