------------------------------- MODULE Models --------------------------------
(* The SQLAlchemy models (src/backend/app/models): what the application      *)
(* believes the tables to be, written as objects of a schema. Nothing in the *)
(* code compares them with what the migrations of Schema build.              *)
EXTENDS Schema

\* db/base.py: TenantScopedBase.
TenantScoped(t, required, optional) ==
    Create(t, required \cup {"tenant_id"}, optional)
    \cup {Fk(t, "tenant_id", "tenants", "no action")}

Utm == {"utm_source", "utm_medium", "utm_campaign", "utm_content", "utm_term"}

Plan ==
    Create("plans", {"id", "name", "ai_token_quota", "price_amount", "currency", "max_members",
        "created_at"}, {})

Tenant ==
    Create("tenants", {"id", "name", "slug", "is_active", "default_currency", "created_at"},
        {"plan_id", "updated_at"})
    \cup {Unique("tenants", {"slug"}, "all"), Fk("tenants", "plan_id", "plans", "no action")}

User ==
    Create("users", {"id", "cognito_sub", "email", "full_name", "is_active",
        "is_platform_admin", "created_at"}, {"updated_at"})
    \cup {Unique("users", {"cognito_sub"}, "all"), Unique("users", {"email"}, "all")}

TenantMember ==
    TenantScoped("tenant_members", {"id", "role", "status"}, {"user_id", "invited_email",
        "invited_at", "joined_at"})
    \cup {Fk("tenant_members", "user_id", "users", "no action"),
          Unique("tenant_members", {"tenant_id", "user_id"}, "all"),
          Check("tenant_members", "role", {"owner", "admin", "member", "cashier"}),
          Check("tenant_members", "status", {"active", "invited", "removed"})}

Category ==
    TenantScoped("categories", {"id", "name", "sort_order", "is_active", "created_at"},
        {"description", "name_ar", "description_ar", "updated_at"})
    \cup {Unique("categories", {"tenant_id", "name"}, "all")}

Product ==
    TenantScoped("products", {"id", "name", "price_amount", "is_active", "sort_order",
        "track_inventory", "created_at"}, {"category_id", "description", "name_ar",
        "description_ar", "currency", "stock_qty", "low_stock_threshold", "sku", "barcode",
        "metadata", "updated_at"})
    \cup {Fk("products", "category_id", "categories", "set null"),
          Type("products", "metadata", "jsonb"), Unique("products", {"tenant_id", "name"}, "all"),
          Unique("products", {"tenant_id", "sku"}, "sku IS NOT NULL"),
          Unique("products", {"tenant_id", "barcode"}, "barcode IS NOT NULL"),
          Check("products", "currency", {"[A-Z]{3}"})}

ProductVariant ==
    TenantScoped("product_variants", {"id", "product_id", "name", "is_active", "sort_order",
        "created_at"}, {"size", "color", "sku", "barcode", "price_amount", "stock_qty",
        "updated_at"})
    \cup {Fk("product_variants", "product_id", "products", "cascade")}

StockMovement ==
    TenantScoped("stock_movements", {"id", "product_id", "delta_qty", "reason", "created_at"},
        {"variant_id", "note", "order_id", "actor_user_id"})
    \cup {Fk("stock_movements", "product_id", "products", "no action"),
          Fk("stock_movements", "variant_id", "product_variants", "no action"),
          Fk("stock_movements", "order_id", "orders", "no action"),
          Fk("stock_movements", "actor_user_id", "users", "no action"),
          Check("stock_movements", "reason",
                {"manual_restock", "manual_adjustment", "order_cancel_restore", "pos_sale"})}

StorefrontConfig ==
    TenantScoped("storefront_config", {"id", "created_at"}, {"logo_s3_key", "primary_color",
        "secondary_color", "hero_text", "custom_css", "payment_methods", "shipping",
        "updated_at"})
    \cup {Type("storefront_config", "custom_css", "jsonb")}

MediaAsset ==
    TenantScoped("media_assets", {"id", "s3_key", "sort_order", "created_at"}, {"product_id",
        "entity_type", "entity_id", "file_name", "content_type", "updated_at"})
    \cup {Fk("media_assets", "product_id", "products", "set null")}

NotificationPreference ==
    TenantScoped("notification_preferences", {"id", "email_enabled", "telegram_enabled",
        "created_at"}, {"telegram_chat_id", "telegram_bot_token_ref", "updated_at"})

Customer ==
    TenantScoped("customers", {"id", "name", "created_at"}, {"phone", "email", "notes",
        "updated_at"})

\* What the three kinds of submission share.
Submitted(t) ==
    {Fk(t, "product_id", "products", "set null"), Fk(t, "visit_id", "visits", "set null")}

Order ==
    TenantScoped("orders", {"id", "order_number", "customer_name", "items", "total_amount",
        "currency", "source", "status", "created_at"}, {"product_id", "customer_phone",
        "customer_email", "customer_id", "payment_method", "payment_link", "payment_notes",
        "notes", "cancel_reason", "shipping_address", "shipping_fee", "shipping_method",
        "fulfillment_status", "visit_id", "shift_id", "updated_at"})
    \cup Submitted("orders")
    \cup {Fk("orders", "customer_id", "customers", "set null"),
          Fk("orders", "shift_id", "pos_shifts", "set null"),
          Unique("orders", {"tenant_id", "order_number"}, "all"),
          Check("orders", "status", {"pending", "confirmed", "fulfilled", "cancelled"}),
          Check("orders", "source", {"storefront", "pos"}),
          Check("orders", "payment_method", {"cash", "knet", "bank_transfer", "cod", "manual"}),
          Check("orders", "fulfillment_status", {"packed", "shipped", "delivered"})}

Donation ==
    TenantScoped("donations", {"id", "donation_number", "donor_name", "amount", "currency",
        "receipt_requested", "status", "created_at"}, {"product_id", "donor_phone",
        "donor_email", "customer_id", "campaign", "payment_link", "payment_notes", "notes",
        "visit_id", "updated_at"})
    \cup Submitted("donations")
    \cup {Fk("donations", "customer_id", "customers", "set null"),
          Unique("donations", {"tenant_id", "donation_number"}, "all"),
          Check("donations", "status", {"pending", "received", "receipted", "cancelled"})}

Pledge ==
    TenantScoped("pledges", {"id", "pledge_number", "pledgor_name", "amount", "currency",
        "target_date", "fulfilled_amount", "status", "created_at"}, {"product_id",
        "pledgor_phone", "pledgor_email", "payment_link", "payment_notes", "notes", "visit_id",
        "updated_at"})
    \cup Submitted("pledges")
    \cup {Unique("pledges", {"tenant_id", "pledge_number"}, "all"),
          Check("pledges", "status", {"pledged", "partially_fulfilled", "fulfilled", "lapsed"})}

PosShift ==
    TenantScoped("pos_shifts", {"id", "status", "starting_cash", "opened_at", "created_at"},
        {"counted_cash", "closing_cash_sales", "opened_by", "closed_by", "closed_at", "notes",
        "updated_at"})
    \cup {Fk("pos_shifts", "opened_by", "users", "no action"),
          Fk("pos_shifts", "closed_by", "users", "no action"),
          Check("pos_shifts", "status", {"open", "closed"}),
          Check("pos_shifts", "starting_cash", {">= 0"}),
          Check("pos_shifts", "counted_cash", {">= 0"}),
          Check("pos_shifts", "closing_cash_sales", {">= 0"})}

Visit ==
    TenantScoped("visits", {"id", "session_id", "landed_at"},
        Utm \cup {"ip_hash", "user_agent"})

UtmEvent ==
    TenantScoped("utm_events", {"id", "visit_id", "event_type", "event_ref_id", "created_at"},
        {})
    \cup {Fk("utm_events", "visit_id", "visits", "cascade"),
          Check("utm_events", "event_type", {"page_view", "order", "donation", "pledge"})}

AuditEvent ==
    TenantScoped("audit_events", {"id", "actor_user_id", "entity_type", "entity_id", "action",
        "created_at"}, {"from_status", "to_status", "metadata_"})
    \cup {Fk("audit_events", "actor_user_id", "users", "no action")}

AIConversation ==
    TenantScoped("ai_conversations", {"id", "user_id", "messages", "created_at"},
        {"updated_at"})
    \cup {Fk("ai_conversations", "user_id", "users", "no action"),
          Unique("ai_conversations", {"tenant_id", "user_id"}, "all")}

AIUsageLog ==
    TenantScoped("ai_usage_log", {"id", "user_id", "conversation_id", "model", "tokens_in",
        "tokens_out", "cost_usd", "created_at"}, {})
    \cup {Fk("ai_usage_log", "user_id", "users", "no action"),
          Fk("ai_usage_log", "conversation_id", "ai_conversations", "no action")}

StorefrontAIConversation ==
    TenantScoped("storefront_ai_conversations", {"id", "session_id", "messages", "created_at"},
        {"updated_at"})
    \cup {Unique("storefront_ai_conversations", {"tenant_id", "session_id"}, "all")}

StorefrontAIUsageLog ==
    TenantScoped("storefront_ai_usage_log", {"id", "session_id", "conversation_id", "model",
        "tokens_in", "tokens_out", "cost_usd", "created_at"}, {})
    \cup {Fk("storefront_ai_usage_log", "conversation_id", "storefront_ai_conversations",
             "no action")}

AttributionVisitor ==
    TenantScoped("attribution_visitors", {"visitor_id", "first_seen_at", "last_seen_at"}, {})
    \cup {Unique("attribution_visitors", {"visitor_id"}, "all"),
          Unique("attribution_visitors", {"tenant_id", "visitor_id"}, "all")}

AttributionSession ==
    TenantScoped("attribution_sessions", {"session_id", "visitor_id", "first_seen_at",
        "last_seen_at"}, Utm \cup {"referrer"})
    \cup {Unique("attribution_sessions", {"session_id"}, "all"),
          Unique("attribution_sessions", {"tenant_id", "session_id"}, "all"),
          Fk("attribution_sessions", "visitor_id", "attribution_visitors", "no action")}

ALLOWED_EVENT_NAMES ==
    {"storefront_view", "product_view", "add_to_cart", "begin_checkout", "submit_order",
     "submit_donation", "submit_pledge", "chat_open", "chat_message_sent"}

AttributionEvent ==
    TenantScoped("attribution_events", {"id", "session_id", "occurred_at", "event_name"},
        {"props"})
    \cup {Fk("attribution_events", "session_id", "attribution_sessions", "no action"),
          Check("attribution_events", "event_name", ALLOWED_EVENT_NAMES)}

\* models/__init__.py imports them all.
AllModels == UNION
    {Plan, Tenant, User, TenantMember, Category, Product, ProductVariant, StockMovement,
     StorefrontConfig, MediaAsset, NotificationPreference, Customer, Order, Donation, Pledge,
     PosShift, Visit, UtmEvent, AuditEvent, AIConversation, AIUsageLog,
     StorefrontAIConversation, StorefrontAIUsageLog, AttributionVisitor, AttributionSession,
     AttributionEvent}

\* What models declare and the database does not have. Deleting a user clears
\* the shifts it opened and closed, where the model has a plain foreign key; the
\* first tables' times of creation may be NULL; metadata is JSON, not JSONB.
KnownDrift ==
    {Fk("pos_shifts", c, "users", "no action") : c \in {"opened_by", "closed_by"}}
    \cup {NotNull(t, "created_at") : t \in
            {"plans", "tenants", "users", "categories", "products", "storefront_config",
             "media_assets", "orders", "donations", "pledges", "utm_events",
             "notification_preferences"}}
    \cup {NotNull("visits", "landed_at"), Type("products", "metadata", "jsonb")}

==============================================================================
