----------------------------- MODULE Migrations -----------------------------
(***************************************************************************)
(* src/database/migrate.ts: what brings any database the system has had to *)
(* the schema the other modules rely on.                                   *)
(***************************************************************************)
EXTENDS LegacyMigrations, PrismaMigrations, Renumbering
LOCAL INSTANCE SequencesExt

Unsigned == 0

\* marker: how many Prisma migrations have been applied.  applied: which of TypeORM's
\* have, in a database TypeORM built.
Fresh == [facts |-> Empty, marker |-> Unsigned, legacy |-> FALSE, applied |-> {}]

isLegacyDatabase(db) == db.legacy

Sign(db) ==
    [db EXCEPT !.facts = runLegacyMigrations(@, db.applied),
               !.applied = DOMAIN LEGACY_MIGRATIONS, !.marker = 1]

ApplyPending(db) ==
    LET pending == SubSeq(PRISMA_MIGRATIONS, db.marker + 1, Len(PRISMA_MIGRATIONS))
    IN  [db EXCEPT !.facts = FoldLeft(Run, @, pending), !.marker = Len(PRISMA_MIGRATIONS)]

migrate(db) == ApplyPending(IF db.marker = Unsigned /\ isLegacyDatabase(db) THEN Sign(db) ELSE db)

-----------------------------------------------------------------------------

\* What the first n of TypeORM's migrations leave.
LegacyFacts == [n \in 0..Len(LEGACY_MIGRATIONS) |-> runLegacyMigrations(Empty, (n + 1)..Len(LEGACY_MIGRATIONS))]

\* A database TypeORM built, when migrate.ts meets it: deploys stopped after any of the
\* migrations, or between the legacy migrations and the signature.
TypeOrmDatabases == {[Fresh EXCEPT !.facts = LegacyFacts[n], !.legacy = TRUE, !.applied = 1..n] :
                     n \in 0..Len(LEGACY_MIGRATIONS)}
Signed(n) == [Fresh EXCEPT !.facts = FoldLeft(Run, Empty, SubSeq(PRISMA_MIGRATIONS, 1, n)), !.marker = n]
Databases == {Fresh} \cup TypeOrmDatabases \cup {Signed(n) : n \in DOMAIN PRISMA_MIGRATIONS}

\* What fills file.id is uuid_generate_v4 where TypeORM built the table and
\* gen_random_uuid where the baseline did.
FileId(db) == {f \in db : f[1] = "file" /\ f[2] = "column" /\ f[3] = "id"}

\* "Sign it at the Prisma baseline (which those migrations produce)": they do, from
\* wherever they start, but for the default of file.id.
ASSUME LegacyReachesBaseline ==
    LET baseline == Run(Empty, Baseline)
    IN  /\ baseline # Refused
        /\ \A db \in TypeOrmDatabases :
              LET legacy == Sign(db).facts
              IN  /\ legacy \ FileId(legacy) = baseline \ FileId(baseline)
                  /\ FileId(legacy) # FileId(baseline)

\* Every database the system has had comes to one schema, and a second deploy changes
\* nothing.
ASSUME EveryDatabaseMigrates ==
    LET current == migrate(Fresh).facts
    IN  /\ current # Refused
        /\ \A db \in Databases :
              LET there == migrate(db)
              IN  /\ there.facts \ FileId(there.facts) = current \ FileId(current)
                  /\ migrate(there) = there

\* A `down` takes back what its `up` did, columns and what hung on them included.
ASSUME DownUndoesUp ==
    \A n \in DOMAIN LEGACY_MIGRATIONS :
        Run(LegacyFacts[n], LEGACY_MIGRATIONS[n].down) = LegacyFacts[n - 1]

\* The constraints the other modules take for granted.
ASSUME GuardsAreThere ==
    UNION {Unique("sales_documents", <<"number">>), Unique("auth_tokens", <<"token_hash">>),
           Unique("user", <<"telegram_id">>), Unique("user", <<"telegram_link_token">>),
           Unique("exchange_rates", <<"rate_date", "currency">>),
           Check("journal_lines", <<"debit_usd", "credit_usd">>, "one sided"), Balanced,
           References("purchase_orders", "pr_id", "purchase_requests")}
    \subseteq migrate(Fresh).facts

-----------------------------------------------------------------------------
(* The work the triggers did and the services do now.                       *)

\* What the triggers on a table do.
Triggered(db, t) ==
    UNION {f[3] : f \in {g \in db : g[2] = "does" /\ \E h \in db :
                            h[1] = t /\ h[2] = "trigger" /\ h[4] = g[1]}}
    \ {"updated_at", "figures", "sentence", "sentence without zero"}

confirm == {"no over-receipt", "confirmed_at", "stock_qty", "stock_movements", "qty_claimed",
            "order status"}
fulfil == {"enough stock", "fulfilled_at", "stock_qty", "stock_movements", "reorder draft",
           "reorder notice"}
record == {"no over-payment", "journal entry", "journal lines", "journal_entry_id",
           "payment_status", "amount_usd"}
InServices == [inventory_claims |-> confirm, stock_requests |-> fulfil, payments |-> record]

\* "Moves the workflow triggers into the services that own them": what the last release
\* that relied on the triggers had done for it, the services do; and nothing is left in
\* the database to do it twice.
ASSUME MovedOnce ==
    \A t \in DOMAIN InServices :
        /\ Triggered(LegacyFacts[8], t) \ {"rate above 0"} = InServices[t]
        /\ Triggered(migrate(Fresh).facts, t) = {}
        /\ \A db \in TypeOrmDatabases : Triggered(migrate(db).facts, t) = {}

-----------------------------------------------------------------------------

\* RemoveManagerApprovalLimit: the manager's limit goes, and `down` puts back the one
\* that was seeded, whatever it had been changed to.
Unlimited == 0
Manager == 2
Seeded == 1000
ManagerUnlimited(limits) == [r \in DOMAIN limits |-> IF r = Manager THEN Unlimited ELSE limits[r]]
ManagerLimited(limits) == [r \in DOMAIN limits |-> IF r = Manager THEN Seeded ELSE limits[r]]

ASSUME LimitComesBackIfSeeded ==
    \A limits \in UNION {[roles -> {Unlimited, Seeded, 2000}] : roles \in SUBSET (1..3)} :
        ManagerLimited(ManagerUnlimited(limits)) = limits
            <=> (Manager \in DOMAIN limits => limits[Manager] = Seeded)

=============================================================================
