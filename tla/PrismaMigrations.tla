-------------------------- MODULE PrismaMigrations --------------------------
(***************************************************************************)
(* The Prisma migrations: the baseline, written out again table by table   *)
(* from the contract, and what has been added since.                       *)
(***************************************************************************)
EXTENDS Schema

\* The baseline's columns get their defaults for updated_at last.
Touching == Created \cup Touched

BaselineTypes == UNION {
    Enum("account_type", {"asset", "liability", "equity", "income", "expense"}),
    Enum("claim_status", {"pending", "confirmed", "rejected"}),
    Enum("currency", {"USD", "KHR", "CNY"}),
    Enum("journal_source", {"po_payment", "manual_income", "manual"}),
    Enum("movement_reason", {"claim", "stock_request", "adjustment"}),
    Enum("payment_method", {"bank_transfer", "cash", "card", "mobile", "other"}),
    Enum("payment_status", {"unpaid", "partial", "paid"}),
    Enum("po_status", {"open", "partial", "complete", "cancelled"}),
    Enum("po_type", {"online", "physical"}),
    Enum("pr_status", {"draft", "pending", "approved", "rejected", "cancelled", "converted"}),
    Enum("rate_source", {"api", "manual"}),
    Enum("stock_priority", {"low", "medium", "high", "urgent"}),
    Enum("stock_request_status", {"pending", "approved", "fulfilled", "rejected"})}

AccountsToBudgets == UNION {
    Table("accounts", Active \cup Required("text", {"code", "name"}) \cup Id \cup Touching
             \cup Required("account_type", {"type"})),
    Table("activity_events", Required("text", {"action", "entity_type"}) \cup Created \cup Id
             \cup Optional("int4", {"actor_id"}) \cup Optional("jsonb", {"detail"})
             \cup Required("int4", {"entity_id"})),
    TableBy("app_settings", "key", Optional("text", {"description"}) \cup Touched
             \cup Required("text", {"key", "value"})),
    Table("approval_thresholds", Active \cup Id \cup Optional("numeric(18,4)", {"max_amount_usd"})
             \cup Required("int4", {"role_id"})),
    Table("auth_tokens", Created \cup Required("timestamptz", {"expires_at"}) \cup Id
             \cup Required("text", {"purpose", "token_hash"}) \cup Optional("timestamptz", {"used_at"})
             \cup Required("int4", {"user_id"})),
    Check("auth_tokens", <<"purpose">>, "invite or reset"),
    Table("budgets", Amounts({"amount_usd"}) \cup Optional("text", {"category"}) \cup Touching
             \cup Optional("int4", {"department_id", "project_id"}) \cup Id
             \cup Required("date", {"period"}))}

CategoriesToClaims == UNION {
    Table("categories", Touching \cup Optional("text", {"description"}) \cup Id
             \cup Optional("int4", {"expense_account_id"}) \cup Required("text", {"name"})),
    Table("departments", Active \cup Touching \cup Id \cup Required("text", {"name"})),
    Table("exchange_rates", Touching \cup Required("currency", {"currency"}) \cup Id
             \cup Required("date", {"rate_date"}) \cup Required("numeric(18,6)", {"rate_to_usd"})
             \cup Default("rate_source", "manual", {"source"})),
    Table("file", Default("uuid", "gen_random_uuid", {"id"}) \cup Required("varchar", {"path"})),
    Table("inventory_claims", Touching \cup Id \cup Required("int4", {"inventory_item_id"})
             \cup Optional("int4", {"claimed_by", "confirmed_by", "po_id", "po_item_id"})
             \cup Optional("timestamptz", {"confirmed_at"}) \cup Required("numeric(18,4)", {"qty_claimed"})
             \cup Optional("text", {"receipt_object_key"}) \cup Default("claim_status", "pending", {"status"})),
    Check("inventory_claims", <<"qty_claimed">>, "positive")}

ItemsToNotifications == UNION {
    Table("inventory_items", Active \cup Optional("text", {"category"}) \cup Touching \cup Id
             \cup Required("text", {"name", "sku"}) \cup Default("text", "pcs", {"unit"})
             \cup Amounts({"reorder_point", "reorder_qty", "stock_qty"})),
    Table("journal_entries", Touching \cup Optional("int4", {"created_by", "source_ref"}) \cup Rated
             \cup Default("date", "today", {"entry_date"}) \cup Id \cup Optional("text", {"memo"})
             \cup Required("journal_source", {"source"})),
    Table("journal_lines", Required("int4", {"account_id", "entry_id"}) \cup Created \cup Id
             \cup Amounts({"credit_usd", "debit_usd"})
             \cup Optional("int4", {"dimension_department_id", "dimension_project_id"})),
    Check("journal_lines", <<"debit_usd", "credit_usd">>, "one sided"),
    Table("notifications", Created \cup Required("text", {"event"}) \cup Id
             \cup Default("jsonb", "{}", {"payload"}) \cup Default("bool", "false", {"read", "telegram_sent"})
             \cup Required("int4", {"user_id"}))}

PaymentsToOrderItems == UNION {
    Table("payments", Required("numeric(18,4)", {"amount_original"}) \cup Amounts({"amount_usd"})
             \cup Optional("text", {"bank_account", "receipt_object_key", "reference", "remark",
                                    "sender", "transfer_to", "trx_id"}) \cup Touching \cup Rated
             \cup Optional("int4", {"expense_account_id", "journal_entry_id", "po_id", "recorded_by"})
             \cup Id \cup Optional("payment_method", {"method"})
             \cup Default("timestamptz", "now", {"paid_at"})),
    Check("payments", <<"exchange_rate">>, "positive"),
    Table("projects", Active \cup Touching \cup Id \cup Required("text", {"name"})),
    Table("purchase_order_items", Created \cup Id \cup Optional("int4", {"inventory_item_id"})
             \cup Required("text", {"name"}) \cup Required("int4", {"po_id"})
             \cup Amounts({"qty_claimed", "unit_price_original"})
             \cup Default("numeric(18,4)", "1", {"qty_ordered"}))}

OrdersToRequestItems == UNION {
    Table("purchase_orders", Touching \cup Rated \cup Id \cup Amounts({"total_original", "total_usd"})
             \cup Optional("int4", {"created_by", "department_id", "expense_account_id", "pr_id",
                                    "project_id", "supplier_id"})
             \cup Default("payment_status", "unpaid", {"payment_status"})
             \cup Default("text", "PO number", {"po_number"}) \cup Default("po_status", "open", {"status"})
             \cup Optional("text", {"supplier"}) \cup Default("po_type", "online", {"type"})),
    Calls("purchase_orders", "po_number", "po_number_seq"),
    Check("purchase_orders", <<"exchange_rate">>, "positive"),
    Table("purchase_request_items", Optional("text", {"category"}) \cup Created \cup Id
             \cup Optional("int4", {"inventory_item_id"}) \cup Required("text", {"name"})
             \cup Required("int4", {"pr_id"}) \cup Default("numeric(18,4)", "1", {"qty"})
             \cup Amounts({"unit_price_original"}))}

RequestsToSessions == UNION {
    Table("purchase_requests", Optional("int4", {"approver_id", "department_id", "project_id"})
             \cup Default("bool", "false", {"auto_generated"}) \cup Touching \cup Rated
             \cup Optional("timestamptz", {"decided_at"}) \cup Id \cup Optional("text", {"note"})
             \cup Default("text", "PR number", {"pr_number"}) \cup Required("int4", {"requester_id"})
             \cup Default("pr_status", "draft", {"status"}) \cup Amounts({"total_original", "total_usd"})
             \cup Optional("int8", {"telegram_chat_id", "telegram_message_id"})),
    Calls("purchase_requests", "pr_number", "pr_number_seq"),
    Check("purchase_requests", <<"exchange_rate">>, "positive"),
    Table("role", Required("int4", {"id"}) \cup Required("varchar", {"name"})),
    Table("session", Default("timestamp", "now", {"createdAt", "updatedAt"}) \cup Id
             \cup Optional("timestamp", {"deletedAt"}) \cup Required("varchar", {"hash"})
             \cup Optional("int4", {"userId"}))}

MovementsToSuppliers == UNION {
    Table("stock_movements", Required("numeric(18,4)", {"balance_after", "delta"}) \cup Created \cup Id
             \cup Optional("int4", {"created_by", "ref_id"}) \cup Required("int4", {"inventory_item_id"})
             \cup Required("movement_reason", {"reason"}) \cup Optional("text", {"ref_table"})),
    Table("stock_requests", Optional("timestamptz", {"approved_at", "fulfilled_at"}) \cup Touching
             \cup Optional("int4", {"approved_by", "fulfilled_by"}) \cup Id
             \cup Optional("text", {"department", "note"})
             \cup Required("int4", {"inventory_item_id", "requester_id"})
             \cup Default("stock_priority", "medium", {"priority"}) \cup Required("numeric(18,4)", {"qty"})
             \cup Default("stock_request_status", "pending", {"status"})),
    Check("stock_requests", <<"qty">>, "positive"),
    Table("suppliers", Active \cup Touching \cup Id \cup Required("text", {"name"})
             \cup Optional("text", {"address", "bank_account", "contact_name", "email", "note", "phone"})
             \cup Optional("int4", {"payment_terms_days"}))}

UpdatesAndUsers == UNION {
    TableBy("telegram_updates", "update_id", Default("timestamptz", "now", {"processed_at"})
             \cup Required("int8", {"update_id"})),
    Table("user", Active \cup Default("timestamp", "now", {"createdAt", "updatedAt"})
             \cup Optional("timestamp", {"deletedAt"}) \cup Id \cup Optional("uuid", {"photoId"})
             \cup Optional("varchar", {"department", "email", "firstName", "lastName", "password",
                    "payment_link", "payment_qr_object_key", "socialId", "telegram_link_token",
                    "telegram_username"})
             \cup Default("bool", "false", {"must_change_password"})
             \cup Default("varchar", "email", {"provider"}) \cup Optional("int4", {"roleId"})
             \cup Optional("int8", {"telegram_id"})
             \cup Optional("timestamptz", {"telegram_link_expires_at"}))}

BaselineUniques == UNION {
    Unique("accounts", <<"code">>), Unique("approval_thresholds", <<"role_id">>),
    Unique("auth_tokens", <<"token_hash">>), Unique("categories", <<"name">>),
    Unique("exchange_rates", <<"rate_date", "currency">>), Unique("inventory_items", <<"sku">>),
    Unique("suppliers", <<"name">>), Unique("user", <<"photoId">>), Unique("user", <<"email">>),
    Unique("user", <<"telegram_id">>)}

\* The partial index on telegram_link_token is unique.
BaselineIndexes == UNION {
    Index("activity_events", <<"actor_id">>),
    Index("activity_events", <<"entity_type", "entity_id", "created_at">>),
    Index("auth_tokens", <<"user_id", "purpose">>), Index("inventory_claims", <<"po_id">>),
    Index("journal_lines", <<"account_id">>), Index("journal_lines", <<"entry_id">>),
    Index("notifications", <<"user_id", "read">>), Index("payments", <<"po_id">>),
    Index("purchase_order_items", <<"po_id">>), Index("purchase_orders", <<"status">>),
    Index("purchase_request_items", <<"pr_id">>), Index("purchase_requests", <<"requester_id">>),
    Index("purchase_requests", <<"status">>), Index("session", <<"userId">>),
    Index("stock_movements", <<"inventory_item_id", "created_at">>),
    Index("stock_requests", <<"requester_id">>), Index("user", <<"firstName">>),
    Index("user", <<"socialId">>), Index("user", <<"lastName">>),
    Unique("user", <<"telegram_link_token">>)}

Refer(keys) == UNION {References(k[1], k[2], k[3]) : k \in keys}

KeysToJournalLines ==
    Refer({<<"activity_events", "actor_id", "user">>, <<"approval_thresholds", "role_id", "role">>,
           <<"budgets", "department_id", "departments">>, <<"budgets", "project_id", "projects">>,
           <<"categories", "expense_account_id", "accounts">>,
           <<"inventory_claims", "claimed_by", "user">>, <<"inventory_claims", "confirmed_by", "user">>,
           <<"inventory_claims", "inventory_item_id", "inventory_items">>,
           <<"inventory_claims", "po_id", "purchase_orders">>,
           <<"inventory_claims", "po_item_id", "purchase_order_items">>,
           <<"journal_entries", "created_by", "user">>, <<"journal_lines", "account_id", "accounts">>,
           <<"journal_lines", "dimension_department_id", "departments">>,
           <<"journal_lines", "dimension_project_id", "projects">>})
    \cup Owned("auth_tokens", "user_id", "user") \cup Owned("journal_lines", "entry_id", "journal_entries")

KeysToRequestItems ==
    Refer({<<"payments", "expense_account_id", "accounts">>,
           <<"payments", "journal_entry_id", "journal_entries">>,
           <<"payments", "po_id", "purchase_orders">>, <<"payments", "recorded_by", "user">>,
           <<"purchase_order_items", "inventory_item_id", "inventory_items">>,
           <<"purchase_orders", "created_by", "user">>,
           <<"purchase_orders", "department_id", "departments">>,
           <<"purchase_orders", "expense_account_id", "accounts">>,
           <<"purchase_orders", "pr_id", "purchase_requests">>,
           <<"purchase_orders", "project_id", "projects">>,
           <<"purchase_orders", "supplier_id", "suppliers">>,
           <<"purchase_request_items", "inventory_item_id", "inventory_items">>})
    \cup Owned("notifications", "user_id", "user")
    \cup Owned("purchase_order_items", "po_id", "purchase_orders")
    \cup Owned("purchase_request_items", "pr_id", "purchase_requests")

KeysToUser ==
    Refer({<<"purchase_requests", "approver_id", "user">>, <<"purchase_requests", "requester_id", "user">>,
           <<"purchase_requests", "department_id", "departments">>,
           <<"purchase_requests", "project_id", "projects">>, <<"session", "userId", "user">>,
           <<"stock_movements", "created_by", "user">>,
           <<"stock_movements", "inventory_item_id", "inventory_items">>,
           <<"stock_requests", "approved_by", "user">>, <<"stock_requests", "fulfilled_by", "user">>,
           <<"stock_requests", "inventory_item_id", "inventory_items">>,
           <<"stock_requests", "requester_id", "user">>, <<"user", "photoId", "file">>,
           <<"user", "roleId", "role">>})

DefaultUpdatedAt(tables) ==
    Alter({<<t, "column", "updated_at">> : t \in tables},
          {<<t, "column", "updated_at", "timestamptz", "now">> : t \in tables})

updatedAtDefaults == DefaultUpdatedAt({"accounts", "app_settings", "departments", "projects",
    "budgets", "categories", "exchange_rates", "inventory_items", "purchase_requests", "suppliers",
    "purchase_orders", "inventory_claims", "journal_entries", "payments", "stock_requests"})

journalBalanceTrigger == Add(Function("assert_journal_entry_balanced", {"balanced"})
    \cup Trigger("journal_lines", "balanced", "assert_journal_entry_balanced"))

Baseline == <<
    Add({Object("pr_number_seq", "sequence"), Object("po_number_seq", "sequence")}),
    Add(BaselineTypes),
    Add(UNION {AccountsToBudgets, CategoriesToClaims, ItemsToNotifications, PaymentsToOrderItems,
               OrdersToRequestItems, RequestsToSessions, MovementsToSuppliers, UpdatesAndUsers}),
    Add(BaselineUniques), Add(BaselineIndexes),
    Add(KeysToJournalLines), Add(KeysToRequestItems), Add(KeysToUser),
    updatedAtDefaults, journalBalanceTrigger>>

-----------------------------------------------------------------------------
(* Since the baseline.                                                      *)

SalesEnums == <<
    Add({<<"journal_source", "member", s>> : s \in {"sales_invoice", "sales_receipt"}}),
    Add(Enum("sales_doc_status", {"draft", "sent", "accepted", "rejected", "issued", "paid", "void"})
        \cup Enum("sales_doc_type", {"quotation", "invoice", "receipt"}))>>

SalesTables == <<
    Add(Table("customers", Active \cup Touching \cup Id \cup Required("text", {"name"})
                 \cup Optional("text", {"address", "contact_name", "email", "note", "phone", "vat_tin"}))),
    Add(Table("sales_document_items", Amounts({"amount", "unit_price"}) \cup Created \cup Id
                 \cup Required("text", {"description"}) \cup Optional("text", {"detail"})
                 \cup Required("int4", {"document_id"}) \cup Default("numeric(18,4)", "1", {"qty"}))),
    Add(Table("sales_documents", Touching \cup Rated \cup Id
                 \cup Optional("int4", {"created_by", "journal_entry_id", "source_id"})
                 \cup Required("int4", {"customer_id"}) \cup Optional("date", {"due_date", "valid_until"})
                 \cup Default("date", "today", {"issue_date"}) \cup Required("text", {"number"})
                 \cup Optional("text", {"notes", "payment_reference"})
                 \cup Optional("payment_method", {"payment_method"})
                 \cup Default("sales_doc_status", "draft", {"status"})
                 \cup Required("sales_doc_type", {"type"})
                 \cup Amounts({"subtotal", "total", "total_usd", "vat_amount", "vat_rate"}))
        \cup Check("sales_documents", <<"exchange_rate">>, "positive"))>>

SalesKeys == <<
    Add(Unique("customers", <<"name">>) \cup Unique("sales_documents", <<"number">>)),
    Add(Index("sales_document_items", <<"document_id">>) \cup Index("sales_documents", <<"customer_id">>)
        \cup Index("sales_documents", <<"source_id">>) \cup Index("sales_documents", <<"type", "status">>)),
    Add(Owned("sales_document_items", "document_id", "sales_documents")
        \cup Refer({<<"sales_documents", "customer_id", "customers">>,
                    <<"sales_documents", "source_id", "sales_documents">>,
                    <<"sales_documents", "journal_entry_id", "journal_entries">>,
                    <<"sales_documents", "created_by", "user">>}))>>

salesSupport == <<
    Add({Object(s, "sequence") : s \in {"quotation_number_seq", "invoice_number_seq",
                                        "receipt_number_seq"}}),
    DefaultUpdatedAt({"customers", "sales_documents"})>>

AddSalesDocuments == SalesEnums \o SalesTables \o SalesKeys \o salesSupport

SalesLanguageAndDiscount == <<
    Add(Enum("discount_type", {"percent", "amount"}) \cup Enum("sales_doc_language", {"both", "km", "en"})),
    Add(Columns("sales_documents", Amounts({"discount_amount", "discount_value"})
                 \cup Default("discount_type", "percent", {"discount_type"})
                 \cup Default("sales_doc_language", "both", {"language"})))>>

DropSalesValidUntil == <<Drop({<<"sales_documents", "column", "valid_until">>})>>
DropCustomerVatTin == <<Drop({<<"customers", "column", "vat_tin">>})>>
AddCustomerCompany == <<Add(Columns("customers", Optional("text", {"company"})))>>
DropCustomerContactName == <<Drop({<<"customers", "column", "contact_name">>})>>

\* Renumbering has what this and the next one do to the documents.
CustomerCode == <<
    Add({Object("customer_code_seq", "sequence")}),
    Add(Columns("customers", Default("text", "customer code", {"code"}))
        \cup Calls("customers", "code", "customer_code_seq")),
    Add(Unique("customers", <<"code">>))>>

RandomCustomerCode == <<
    Add(Function("random_customer_code", {"an unused code"})),
    Alter({<<"customers", "column", "code">>, <<"customers", "default calls", <<"code">>>>},
          Columns("customers", Default("text", "random code", {"code"}))
          \cup Calls("customers", "code", "random_customer_code")),
    Drop({<<s>> : s \in {"quotation_number_seq", "invoice_number_seq", "receipt_number_seq",
                         "customer_code_seq"}})>>

AddSalesDeposit == <<
    Add(Columns("sales_documents", Amounts({"deposit_amount", "deposit_value"})
                 \cup Default("discount_type", "percent", {"deposit_type"})))>>

\* An eleventh renumbers one customer (Renumbering) and changes no schema.
PRISMA_MIGRATIONS == <<Baseline, AddSalesDocuments, SalesLanguageAndDiscount, DropSalesValidUntil,
    DropCustomerVatTin, AddCustomerCompany, DropCustomerContactName, CustomerCode,
    RandomCustomerCode, AddSalesDeposit>>

=============================================================================
