-------------------------- MODULE LegacyMigrations --------------------------
(***************************************************************************)
(* The ten TypeORM-era migrations, oldest first, each as the statements of *)
(* its `up` and of its `down`.  A sequence is created only where it is     *)
(* missing, so Add stands for IF NOT EXISTS: nothing here meets one left   *)
(* behind.                                                                 *)
(***************************************************************************)
EXTENDS Schema
LOCAL INSTANCE SequencesExt

NoAction(t, columns, other) == UNION {References(t, c, other) : c \in columns}

-----------------------------------------------------------------------------
(* CreateUser and OperationsUser: the boilerplate's tables and what became  *)
(* of them.                                                                 *)

CreateUserUp == <<
    Add(Table("role", Required("int4", {"id"}) \cup Required("varchar", {"name"}))),
    Add(Table("status", Required("int4", {"id"}) \cup Required("varchar", {"name"}))),
    Add(Table("file", Default("uuid", "uuid_generate_v4", {"id"}) \cup Required("varchar", {"path"}))),
    Add(Table("user", Id \cup Default("varchar", "email", {"provider"})
                 \cup Optional("varchar", {"email", "password", "socialId", "firstName", "lastName"})
                 \cup Default("timestamp", "now", {"createdAt", "updatedAt"})
                 \cup Optional("timestamp", {"deletedAt"}) \cup Optional("uuid", {"photoId"})
                 \cup Optional("int4", {"roleId", "statusId"}))
        \cup Unique("user", <<"email">>) \cup Unique("user", <<"photoId">>)),
    Add(Index("user", <<"socialId">>) \cup Index("user", <<"firstName">>)
        \cup Index("user", <<"lastName">>)),
    Add(Table("session", Id \cup Required("varchar", {"hash"}) \cup Optional("int4", {"userId"})
                 \cup Default("timestamp", "now", {"createdAt", "updatedAt"})
                 \cup Optional("timestamp", {"deletedAt"}))),
    Add(Index("session", <<"userId">>)),
    Add(References("user", "photoId", "file") \cup References("user", "roleId", "role")
        \cup References("user", "statusId", "status") \cup References("session", "userId", "user"))>>

CreateUserDown == <<
    Drop({<<"session", "references", <<"userId">>>>, <<"user", "references", <<"statusId">>>>,
          <<"user", "references", <<"roleId">>>>, <<"user", "references", <<"photoId">>>>}),
    Drop({<<"session", "index", <<"userId">>>>}), Drop({<<"session">>}),
    Drop({<<"user", "index", <<"lastName">>>>, <<"user", "index", <<"firstName">>>>,
          <<"user", "index", <<"socialId">>>>})>>
    \o DropEach(<<"user", "file", "status", "role">>)

\* The partial unique index on telegram_link_token is unique: nulls never clash.
OperationsUserUp == <<
    Drop({<<"user", "references", <<"statusId">>>>}), Drop({<<"user", "column", "statusId">>}),
    Drop({<<"status">>}),
    Add(Columns("user", Active \cup Default("bool", "false", {"must_change_password"})
                 \cup Optional("int8", {"telegram_id"})
                 \cup Optional("timestamptz", {"telegram_link_expires_at"})
                 \cup Optional("varchar", {"telegram_username", "telegram_link_token", "department",
                                           "payment_link", "payment_qr_object_key"}))),
    Add(Unique("user", <<"telegram_id">>) \cup Unique("user", <<"telegram_link_token">>)),
    Add(Table("auth_tokens", Id \cup Required("int4", {"user_id"})
                 \cup Required("text", {"token_hash", "purpose"})
                 \cup Required("timestamptz", {"expires_at"}) \cup Optional("timestamptz", {"used_at"})
                 \cup Created)
        \cup Unique("auth_tokens", <<"token_hash">>) \cup Owned("auth_tokens", "user_id", "user")
        \cup Check("auth_tokens", <<"purpose">>, "invite or reset")
        \cup Index("auth_tokens", <<"user_id", "purpose">>))>>

OperationsUserDown == <<
    Drop({<<"auth_tokens">>}), Drop({<<"user", "unique", <<"telegram_link_token">>>>}),
    Drop({<<"user", "column", c>> : c \in {"payment_qr_object_key", "payment_link", "department",
          "telegram_link_expires_at", "telegram_link_token", "telegram_username", "telegram_id",
          "must_change_password", "active"}}),
    Add(Table("status", Required("int4", {"id"}) \cup Required("varchar", {"name"}))),
    Add(Columns("user", Optional("int4", {"statusId"}))),
    Add(References("user", "statusId", "status"))>>

-----------------------------------------------------------------------------
(* OperationsSchema.                                                        *)

EnumTypes ==
    UNION {Enum("currency", {"USD", "KHR", "CNY"}),
           Enum("pr_status", {"draft", "pending", "approved", "rejected", "cancelled", "converted"}),
           Enum("po_type", {"online", "physical"}),
           Enum("po_status", {"open", "partial", "complete", "cancelled"}),
           Enum("payment_status", {"unpaid", "partial", "paid"}),
           Enum("claim_status", {"pending", "confirmed", "rejected"}),
           Enum("stock_request_status", {"pending", "approved", "fulfilled", "rejected"}),
           Enum("stock_priority", {"low", "medium", "high", "urgent"}),
           Enum("account_type", {"asset", "liability", "equity", "income", "expense"}),
           Enum("movement_reason", {"claim", "stock_request", "adjustment"}),
           Enum("journal_source", {"po_payment", "manual_income", "manual"}),
           Enum("rate_source", {"api", "manual"}),
           Enum("payment_method", {"bank_transfer", "cash", "card", "mobile", "other"})}

OrgTables == <<
    Add(TableBy("app_settings", "key", Required("text", {"key", "value"})
                 \cup Optional("text", {"description"}) \cup Default("timestamptz", "now", {"updated_at"}))),
    Add(Table("departments", Id \cup Required("text", {"name"}) \cup Active \cup Stamped)),
    Add(Table("projects", Id \cup Required("text", {"name"}) \cup Active \cup Stamped)),
    Add(Table("suppliers", Id \cup Required("text", {"name"}) \cup Active \cup Stamped
                 \cup Optional("text", {"contact_name", "phone", "email", "address", "bank_account", "note"})
                 \cup Optional("int4", {"payment_terms_days"}))
        \cup Unique("suppliers", <<"name">>)),
    Add(Table("approval_thresholds", Id \cup Required("int4", {"role_id"}) \cup Active
                 \cup Optional("numeric(18,4)", {"max_amount_usd"}))
        \cup Unique("approval_thresholds", <<"role_id">>)
        \cup References("approval_thresholds", "role_id", "role"))>>

AccountingTables == <<
    Add(Table("accounts", Id \cup Required("text", {"code", "name"})
                 \cup Required("account_type", {"type"}) \cup Active \cup Stamped)
        \cup Unique("accounts", <<"code">>)),
    Add(Table("journal_entries", Id \cup Default("date", "today", {"entry_date"})
                 \cup Optional("text", {"memo"}) \cup Rated \cup Required("journal_source", {"source"})
                 \cup Optional("int4", {"source_ref", "created_by"}) \cup Stamped)
        \cup References("journal_entries", "created_by", "user")),
    Add(Table("journal_lines", Id \cup Required("int4", {"entry_id", "account_id"})
                 \cup Amounts({"debit_usd", "credit_usd"}) \cup Created
                 \cup Optional("int4", {"dimension_department_id", "dimension_project_id"}))
        \cup Check("journal_lines", <<"debit_usd", "credit_usd">>, "one sided")
        \cup Owned("journal_lines", "entry_id", "journal_entries")
        \cup References("journal_lines", "account_id", "accounts")
        \cup References("journal_lines", "dimension_department_id", "departments")
        \cup References("journal_lines", "dimension_project_id", "projects")
        \cup Index("journal_lines", <<"entry_id">>) \cup Index("journal_lines", <<"account_id">>)),
    Add(Table("exchange_rates", Id \cup Required("date", {"rate_date"})
                 \cup Required("currency", {"currency"}) \cup Required("numeric(18,6)", {"rate_to_usd"})
                 \cup Default("rate_source", "manual", {"source"}) \cup Stamped)
        \cup Unique("exchange_rates", <<"rate_date", "currency">>)),
    Add(Table("budgets", Id \cup Optional("int4", {"department_id", "project_id"})
                 \cup Optional("text", {"category"}) \cup Required("date", {"period"})
                 \cup Amounts({"amount_usd"}) \cup Stamped)
        \cup References("budgets", "department_id", "departments")
        \cup References("budgets", "project_id", "projects")),
    Add(Table("notifications", Id \cup Required("int4", {"user_id"}) \cup Required("text", {"event"})
                 \cup Default("jsonb", "{}", {"payload"}) \cup Created
                 \cup Default("bool", "false", {"telegram_sent", "read"}))
        \cup Owned("notifications", "user_id", "user")
        \cup Index("notifications", <<"user_id", "read">>))>>

InventoryTables == <<
    Add(Table("categories", Id \cup Required("text", {"name"}) \cup Optional("text", {"description"})
                 \cup Optional("int4", {"expense_account_id"}) \cup Stamped)
        \cup Unique("categories", <<"name">>)
        \cup References("categories", "expense_account_id", "accounts")),
    Add(Table("inventory_items", Id \cup Required("text", {"sku", "name"})
                 \cup Optional("text", {"category"}) \cup Default("text", "pcs", {"unit"})
                 \cup Amounts({"stock_qty", "reorder_point", "reorder_qty"}) \cup Active \cup Stamped)
        \cup Unique("inventory_items", <<"sku">>)),
    Add({Object("pr_number_seq", "sequence"), Object("po_number_seq", "sequence")})>>

ProcurementTables == <<
    Add(Table("purchase_requests", Id \cup Default("text", "PR number", {"pr_number"})
                 \cup Required("int4", {"requester_id"}) \cup Default("pr_status", "draft", {"status"})
                 \cup Rated \cup Amounts({"total_original", "total_usd"})
                 \cup Optional("int4", {"department_id", "project_id", "approver_id"})
                 \cup Optional("text", {"note"}) \cup Optional("timestamptz", {"decided_at"})
                 \cup Optional("int8", {"telegram_message_id", "telegram_chat_id"})
                 \cup Default("bool", "false", {"auto_generated"}) \cup Stamped)
        \cup Calls("purchase_requests", "pr_number", "pr_number_seq")
        \cup NoAction("purchase_requests", {"requester_id", "approver_id"}, "user")
        \cup References("purchase_requests", "department_id", "departments")
        \cup References("purchase_requests", "project_id", "projects")
        \cup Index("purchase_requests", <<"requester_id">>) \cup Index("purchase_requests", <<"status">>)),
    Add(Table("purchase_request_items", Id \cup Required("int4", {"pr_id"})
                 \cup Required("text", {"name"}) \cup Default("numeric(18,4)", "1", {"qty"})
                 \cup Amounts({"unit_price_original"}) \cup Optional("int4", {"inventory_item_id"})
                 \cup Optional("text", {"category"}) \cup Created)
        \cup Owned("purchase_request_items", "pr_id", "purchase_requests")
        \cup References("purchase_request_items", "inventory_item_id", "inventory_items")
        \cup Index("purchase_request_items", <<"pr_id">>)),
    Add(Table("purchase_orders", Id \cup Default("text", "PO number", {"po_number"})
                 \cup Default("po_type", "online", {"type"}) \cup Optional("text", {"supplier"}) \cup Rated
                 \cup Default("po_status", "open", {"status"})
                 \cup Default("payment_status", "unpaid", {"payment_status"})
                 \cup Amounts({"total_original", "total_usd"}) \cup Stamped
                 \cup Optional("int4", {"pr_id", "supplier_id", "expense_account_id", "department_id",
                                        "project_id", "created_by"}))
        \cup Calls("purchase_orders", "po_number", "po_number_seq")
        \cup References("purchase_orders", "pr_id", "purchase_requests")
        \cup References("purchase_orders", "supplier_id", "suppliers")
        \cup References("purchase_orders", "expense_account_id", "accounts")
        \cup References("purchase_orders", "department_id", "departments")
        \cup References("purchase_orders", "project_id", "projects")
        \cup References("purchase_orders", "created_by", "user")
        \cup Index("purchase_orders", <<"status">>)),
    Add(Table("purchase_order_items", Id \cup Required("int4", {"po_id"})
                 \cup Optional("int4", {"inventory_item_id"}) \cup Required("text", {"name"})
                 \cup Default("numeric(18,4)", "1", {"qty_ordered"})
                 \cup Amounts({"qty_claimed", "unit_price_original"}) \cup Created)
        \cup Owned("purchase_order_items", "po_id", "purchase_orders")
        \cup References("purchase_order_items", "inventory_item_id", "inventory_items")
        \cup Index("purchase_order_items", <<"po_id">>)),
    Add(Table("payments", Id \cup Optional("int4", {"po_id", "expense_account_id", "recorded_by",
                                                    "journal_entry_id"})
                 \cup Required("numeric(18,4)", {"amount_original"}) \cup Rated \cup Amounts({"amount_usd"})
                 \cup Optional("payment_method", {"method"})
                 \cup Optional("text", {"bank_account", "reference", "trx_id", "sender", "transfer_to",
                                        "remark", "receipt_object_key"})
                 \cup Default("timestamptz", "now", {"paid_at"}) \cup Stamped)
        \cup References("payments", "po_id", "purchase_orders")
        \cup References("payments", "expense_account_id", "accounts")
        \cup References("payments", "recorded_by", "user")
        \cup References("payments", "journal_entry_id", "journal_entries")
        \cup Index("payments", <<"po_id">>))>>

StockTables == <<
    Add(Table("inventory_claims", Id \cup Optional("int4", {"po_id", "po_item_id", "claimed_by",
                                                            "confirmed_by"})
                 \cup Required("int4", {"inventory_item_id"}) \cup Required("numeric(18,4)", {"qty_claimed"})
                 \cup Default("claim_status", "pending", {"status"})
                 \cup Optional("text", {"receipt_object_key"})
                 \cup Optional("timestamptz", {"confirmed_at"}) \cup Stamped)
        \cup Check("inventory_claims", <<"qty_claimed">>, "positive")
        \cup References("inventory_claims", "po_id", "purchase_orders")
        \cup References("inventory_claims", "po_item_id", "purchase_order_items")
        \cup References("inventory_claims", "inventory_item_id", "inventory_items")
        \cup NoAction("inventory_claims", {"claimed_by", "confirmed_by"}, "user")
        \cup Index("inventory_claims", <<"po_id">>)),
    Add(Table("stock_requests", Id \cup Required("int4", {"requester_id", "inventory_item_id"})
                 \cup Required("numeric(18,4)", {"qty"})
                 \cup Default("stock_request_status", "pending", {"status"})
                 \cup Default("stock_priority", "medium", {"priority"})
                 \cup Optional("text", {"department", "note"})
                 \cup Optional("int4", {"approved_by", "fulfilled_by"})
                 \cup Optional("timestamptz", {"approved_at", "fulfilled_at"}) \cup Stamped)
        \cup Check("stock_requests", <<"qty">>, "positive")
        \cup NoAction("stock_requests", {"requester_id", "approved_by", "fulfilled_by"}, "user")
        \cup References("stock_requests", "inventory_item_id", "inventory_items")
        \cup Index("stock_requests", <<"requester_id">>)),
    Add(Table("stock_movements", Id \cup Required("int4", {"inventory_item_id"})
                 \cup Required("numeric(18,4)", {"delta", "balance_after"})
                 \cup Required("movement_reason", {"reason"}) \cup Optional("text", {"ref_table"})
                 \cup Optional("int4", {"ref_id", "created_by"}) \cup Created)
        \cup References("stock_movements", "inventory_item_id", "inventory_items")
        \cup References("stock_movements", "created_by", "user")
        \cup Index("stock_movements", <<"inventory_item_id", "created_at">>)),
    Add(Table("activity_events", Id \cup Required("text", {"entity_type", "action"})
                 \cup Required("int4", {"entity_id"}) \cup Optional("int4", {"actor_id"})
                 \cup Optional("jsonb", {"detail"}) \cup Created)
        \cup References("activity_events", "actor_id", "user")
        \cup Index("activity_events", <<"entity_type", "entity_id", "created_at">>)
        \cup Index("activity_events", <<"actor_id">>)),
    Add(TableBy("telegram_updates", "update_id", Required("int8", {"update_id"})
                 \cup Default("timestamptz", "now", {"processed_at"})))>>

OperationsSchemaUp == <<Add(EnumTypes)>> \o OrgTables \o AccountingTables \o InventoryTables
                      \o ProcurementTables \o StockTables

OperationsSchemaDown == DropEach(<<"telegram_updates", "activity_events", "stock_movements",
    "stock_requests", "inventory_claims", "payments", "purchase_order_items", "purchase_orders",
    "purchase_request_items", "purchase_requests", "inventory_items", "categories", "notifications",
    "budgets", "exchange_rates", "journal_lines", "journal_entries", "accounts",
    "approval_thresholds", "suppliers", "projects", "departments", "app_settings",
    "po_number_seq", "pr_number_seq",
    "payment_method", "rate_source", "journal_source", "movement_reason", "account_type",
    "stock_priority", "stock_request_status", "claim_status", "payment_status", "po_status",
    "po_type", "pr_status", "currency">>)

-----------------------------------------------------------------------------
(* The triggers: what each refuses and writes besides the row itself.       *)

UpdatedAtTables == {"app_settings", "departments", "projects", "suppliers", "accounts",
    "journal_entries", "exchange_rates", "budgets", "categories", "inventory_items",
    "inventory_claims", "stock_requests", "purchase_requests", "purchase_orders", "payments"}

set_updated_at == Function("set_updated_at", {"updated_at"})
UpdatedAtTriggers == {<<t, "trigger", "set_updated_at", "set_updated_at">> : t \in UpdatedAtTables}
app_setting_numeric == Function("app_setting_numeric", {})
derive_amount_usd == Function("derive_amount_usd", {"rate above 0", "amount_usd"})
derive_total_usd == Function("derive_total_usd", {"rate above 0", "total_usd"})
DeriveTriggers ==
    Trigger("payments", "derive_amount_usd", "derive_amount_usd")
    \cup Trigger("purchase_requests", "derive_total_usd", "derive_total_usd")
    \cup Trigger("purchase_orders", "derive_total_usd", "derive_total_usd")

\* T2 to T6.
assert_journal_entry_balanced == Function("assert_journal_entry_balanced", {"balanced"})
Balanced == Trigger("journal_lines", "balanced", "assert_journal_entry_balanced")
on_claim_confirmed == Function("on_claim_confirmed", {"no over-receipt", "confirmed_at", "stock_qty",
    "stock_movements", "qty_claimed", "order status"})
OnConfirmed == Trigger("inventory_claims", "on_confirmed", "on_claim_confirmed")
on_stock_request_fulfilled == Function("on_stock_request_fulfilled", {"enough stock", "fulfilled_at",
    "stock_qty", "stock_movements", "reorder draft", "reorder notice"})
OnFulfilled == Trigger("stock_requests", "on_fulfilled", "on_stock_request_fulfilled")
on_payment_insert(message) == Function("on_payment_insert", {"no over-payment", "journal entry",
    "journal lines", "journal_entry_id", "payment_status", message})
OnInsert == Trigger("payments", "on_insert", "on_payment_insert")
guard_pr_self_approval == Function("guard_pr_self_approval", {"no self-approval"})
GuardSelfApproval == Trigger("purchase_requests", "guard_self_approval", "guard_pr_self_approval")

OperationsTriggersUp == <<
    Add(set_updated_at), Add(UpdatedAtTriggers), Add(app_setting_numeric),
    Add(derive_amount_usd), Add(derive_total_usd), Add(DeriveTriggers),
    Add(assert_journal_entry_balanced), Add(Balanced),
    Add(on_claim_confirmed), Add(OnConfirmed),
    Add(on_stock_request_fulfilled), Add(OnFulfilled),
    Add(on_payment_insert("figures")), Add(OnInsert),
    Add(guard_pr_self_approval), Add(GuardSelfApproval)>>

OperationsTriggersDown == <<
    Drop(GuardSelfApproval), Drop({<<"guard_pr_self_approval">>}),
    Drop(OnInsert), Drop({<<"on_payment_insert">>}),
    Drop(OnFulfilled), Drop({<<"on_stock_request_fulfilled">>}),
    Drop(OnConfirmed), Drop({<<"on_claim_confirmed">>}),
    Drop(Balanced), Drop({<<"assert_journal_entry_balanced">>}), Drop(DeriveTriggers)>>
    \o DropEach(<<"derive_total_usd", "derive_amount_usd", "app_setting_numeric">>)
    \o <<Drop(UpdatedAtTriggers), Drop({<<"set_updated_at">>})>>

-----------------------------------------------------------------------------
(* What was taken back out of the database.                                 *)

AllowPrSelfApproval ==
    [up |-> <<Drop(GuardSelfApproval), Drop({<<"guard_pr_self_approval">>})>>,
     down |-> <<Replace("guard_pr_self_approval", guard_pr_self_approval), Add(GuardSelfApproval)>>]

\* These two change the words of a refusal.
ClarifyOverpaymentMessage ==
    [up |-> <<Replace("on_payment_insert", on_payment_insert("sentence"))>>,
     down |-> <<Replace("on_payment_insert", on_payment_insert("figures"))>>]

OmitZeroAlreadyPaid ==
    [up |-> <<Replace("on_payment_insert", on_payment_insert("sentence without zero"))>>,
     down |-> <<Replace("on_payment_insert", on_payment_insert("sentence"))>>]

\* A change of a row, not of the schema: see ManagerUnlimited in Migrations.
RemoveManagerApprovalLimit == [up |-> <<>>, down |-> <<>>]

DropWorkflowTriggers == <<
    Drop(OnInsert), Drop({<<"on_payment_insert">>}),
    Drop(OnFulfilled), Drop({<<"on_stock_request_fulfilled">>}),
    Drop(OnConfirmed), Drop({<<"on_claim_confirmed">>}), Drop({<<"app_setting_numeric">>})>>
RestoreClaimTrigger == <<
    Replace("app_setting_numeric", app_setting_numeric),
    Replace("on_claim_confirmed", on_claim_confirmed), Add(OnConfirmed)>>
RestoreRequestTrigger ==
    <<Replace("on_stock_request_fulfilled", on_stock_request_fulfilled), Add(OnFulfilled)>>
RestorePaymentTrigger ==
    <<Replace("on_payment_insert", on_payment_insert("sentence without zero")), Add(OnInsert)>>

MoveWorkflowTriggersToServices ==
    [up |-> DropWorkflowTriggers,
     down |-> RestoreClaimTrigger \o RestoreRequestTrigger \o RestorePaymentTrigger]

RatePositive == UNION {Check(t, <<"exchange_rate">>, "positive") :
                       t \in {"payments", "purchase_requests", "purchase_orders"}}

MoveUsdAndTimestampsToApp ==
    [up |-> <<Drop(DeriveTriggers), Drop({<<"derive_amount_usd">>}), Drop({<<"derive_total_usd">>}),
              Add(RatePositive), Drop(UpdatedAtTriggers), Drop({<<"set_updated_at">>})>>,
     down |-> <<Drop(RatePositive), Replace("set_updated_at", set_updated_at), Add(UpdatedAtTriggers),
                Replace("derive_amount_usd", derive_amount_usd),
                Replace("derive_total_usd", derive_total_usd), Add(DeriveTriggers)>>]

LEGACY_MIGRATIONS == <<
    [up |-> CreateUserUp, down |-> CreateUserDown],
    [up |-> OperationsUserUp, down |-> OperationsUserDown],
    [up |-> OperationsSchemaUp, down |-> OperationsSchemaDown],
    [up |-> OperationsTriggersUp, down |-> OperationsTriggersDown],
    AllowPrSelfApproval, ClarifyOverpaymentMessage, OmitZeroAlreadyPaid, RemoveManagerApprovalLimit,
    MoveWorkflowTriggersToServices, MoveUsdAndTimestampsToApp>>

\* runLegacyMigrations: those not yet applied, in order, in one transaction, which a
\* refusal rolls back.
runLegacyMigrations(db, applied) ==
    LET pending == SelectSeq([i \in DOMAIN LEGACY_MIGRATIONS |-> i], LAMBDA i : i \notin applied)
        result == FoldLeft(LAMBDA d, i : Run(d, LEGACY_MIGRATIONS[i].up), db, pending)
    IN  IF result = Refused THEN db ELSE result

=============================================================================
