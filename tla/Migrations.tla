----------------------------- MODULE Migrations -----------------------------
(***************************************************************************)
(* The schema of the database and the migrations that make it: releases    *)
(* add migration files, "migration:run" executes all that are pending in   *)
(* one transaction, "migration:revert" undoes the last one in another, and *)
(* the application and the seeder fill the tables in between.              *)
(*                                                                         *)
(* A migration is a list of statements for each direction; a statement     *)
(* fails where Postgres would refuse it, and takes the transaction along.  *)
(* The DROP DEFAULT and SET DEFAULT around a change of type are part of    *)
(* that statement; primary keys and the types of plain columns are left    *)
(* out.                                                                    *)
(***************************************************************************)
EXTENDS Integers, SequencesExt

CONSTANTS
    Values,     \* the values of enum columns that rows are told apart by, "row" for other rows
    Failed      \* the result of a statement that Postgres refuses

VARIABLES
    db,         \* tables, columns, types, indexes, keys, and per table the values in its rows
    applied,    \* rows of migrations_history
    shipped,    \* migration files of the release
    rebuilt,    \* (history) FixTimestampWithTimeZone has run
    outcome     \* how the last command ended, "none" when something else came last

vars == <<db, applied, shipped, rebuilt, outcome>>

TableNames == {"events", "ticket_types", "tickets", "users", "orders"}

-----------------------------------------------------------------------------
(* Statements *)

CreateType(n, ls) == [do |-> "createType", name |-> n, labels |-> ls]
RenameType(n, m) == [do |-> "renameType", name |-> n, to |-> m]
DropType(n) == [do |-> "dropType", name |-> n]
CreateTable(t, cs) == [do |-> "createTable", table |-> t, columns |-> cs]
DropTable(t) == [do |-> "dropTable", table |-> t]
AddColumn(t, c, ty) == [do |-> "addColumn", table |-> t, name |-> c, type |-> ty]
AddRequired(t, c, ty) == [do |-> "addRequired", table |-> t, name |-> c, type |-> ty]
DropColumn(t, c) == [do |-> "dropColumn", table |-> t, name |-> c]
Retype(t, c, ty) == [do |-> "retype", table |-> t, name |-> c, type |-> ty]
CreateIndex(n, t, cs) ==
    [do |-> "createIndex", index |-> [name |-> n, table |-> t, columns |-> cs, unique |-> FALSE]]
CreateUnique(n, t, cs) ==
    [do |-> "createIndex", index |-> [name |-> n, table |-> t, columns |-> cs, unique |-> TRUE]]
DropIndex(n) == [do |-> "dropIndex", name |-> n]
DropIndexIfExists(n) == [do |-> "dropIndexIfExists", name |-> n]
AddKey(n, t, c, to) ==
    [do |-> "addKey", key |-> [name |-> n, table |-> t, column |-> c, to |-> to]]
DropKey(n) == [do |-> "dropKey", name |-> n]

Plain(cs) == [c \in cs |-> "plain"]

Named(set, n) == {x \in set : x.name = n}
Labels(d, n) == UNION {ty.labels : ty \in Named(d.types, n)}

\* Whether Postgres executes statement s.
Can(d, s) ==
    CASE s.do = "createType"  -> Named(d.types, s.name) = {}
      [] s.do = "renameType"  -> Named(d.types, s.name) # {} /\ Named(d.types, s.to) = {}
      [] s.do = "dropType"    -> /\ Named(d.types, s.name) # {}
                                 /\ \A c \in d.columns : c.type # s.name
      [] s.do = "createTable" -> s.table \notin d.tables
      [] s.do = "dropTable"   -> /\ s.table \in d.tables
                                 /\ \A k \in d.keys : k.to = s.table => k.table = s.table
      [] s.do = "addRequired" -> d.rows[s.table] = {}
      [] s.do = "retype"      -> d.rows[s.table] \subseteq Labels(d, s.type)
      [] s.do = "createIndex" -> Named(d.indexes, s.index.name) = {}
      [] s.do = "dropIndex"   -> Named(d.indexes, s.name) # {}
      [] s.do = "dropKey"     -> Named(d.keys, s.name) # {}
      [] OTHER                -> TRUE

Column(t, c, ty) == [table |-> t, name |-> c, type |-> ty]
Column1(d, t, c) == {x \in d.columns : x.table = t /\ x.name = c}

\* What it does.  A column goes with the indexes and keys that contain it, a table
\* with everything of it.
Do(d, s) ==
    CASE s.do = "createType" ->
            [d EXCEPT !.types = @ \union {[name |-> s.name, labels |-> s.labels]}]
      [] s.do = "renameType" ->
            [d EXCEPT !.types = {[ty EXCEPT !.name = IF @ = s.name THEN s.to ELSE @] : ty \in @},
                      !.columns = {[c EXCEPT !.type = IF @ = s.name THEN s.to ELSE @] : c \in @}]
      [] s.do = "dropType" -> [d EXCEPT !.types = @ \ Named(@, s.name)]
      [] s.do = "createTable" ->
            [d EXCEPT !.tables = @ \union {s.table},
                      !.columns = @ \union {Column(s.table, c, s.columns[c]) : c \in DOMAIN s.columns}]
      [] s.do = "dropTable" ->
            [d EXCEPT !.tables = @ \ {s.table},
                      !.columns = {c \in @ : c.table # s.table},
                      !.indexes = {i \in @ : i.table # s.table},
                      !.keys = {k \in @ : k.table # s.table},
                      !.rows[s.table] = {}]
      [] s.do \in {"addColumn", "addRequired"} ->
            [d EXCEPT !.columns = @ \union {Column(s.table, s.name, s.type)}]
      [] s.do = "dropColumn" ->
            [d EXCEPT !.columns = @ \ Column1(d, s.table, s.name),
                      !.indexes = {i \in @ : ~(i.table = s.table /\ s.name \in ToSet(i.columns))},
                      !.keys = {k \in @ : ~(k.table = s.table /\ k.column = s.name)}]
      [] s.do = "retype" ->
            [d EXCEPT !.columns = (@ \ Column1(d, s.table, s.name))
                                  \union {Column(s.table, s.name, s.type)}]
      [] s.do = "createIndex" -> [d EXCEPT !.indexes = @ \union {s.index}]
      [] s.do \in {"dropIndex", "dropIndexIfExists"} ->
            [d EXCEPT !.indexes = @ \ Named(@, s.name)]
      [] s.do = "addKey" -> [d EXCEPT !.keys = @ \union {s.key}]
      [] s.do = "dropKey" -> [d EXCEPT !.keys = @ \ Named(@, s.name)]

\* A list of statements in one transaction.
Execute(d, statements) ==
    FoldLeft(LAMBDA x, s : IF x = Failed THEN Failed ELSE IF Can(x, s) THEN Do(x, s) ELSE Failed,
             d, statements)

-----------------------------------------------------------------------------
(* The migrations, in the order of their timestamps *)

Dates == {"created_at", "updated_at", "deleted_at"}

CreateInitialTables ==
    [up |-> <<
        CreateType("tickets_status_enum", {"VALID", "USED", "CANCELLED"}),
        CreateType("users_role_enum", {"ADMIN", "USER"}),
        CreateTable("events", Plain({"id", "slug", "title", "description", "coverImageUrl",
                                     "location"} \union Dates)),
        CreateUnique("UQ_05bd8", "events", <<"slug">>),
        CreateIndex("IDX_df5d3", "events", <<"location">>),
        CreateIndex("IDX_7ebab", "events", <<"created_at">>),
        CreateTable("ticket_types", Plain({"id", "name", "description", "price", "total_quantity",
                                           "available_quantity", "event_id"} \union Dates)),
        CreateIndex("IDX_adad8", "ticket_types", <<"created_at">>),
        CreateTable("tickets", Plain({"id", "qr_code", "purchase_price", "user_id",
                                      "ticket_type_id"} \union Dates)
                               @@ [status |-> "tickets_status_enum"]),
        CreateUnique("UQ_bd8d0", "tickets", <<"qr_code">>),
        CreateUnique("IDX_bd8d0", "tickets", <<"qr_code">>),
        CreateIndex("IDX_09a4d", "tickets", <<"created_at">>),
        CreateTable("users", Plain({"id", "username", "email", "password", "profilePicture"}
                                   \union Dates) @@ [role |-> "users_role_enum"]),
        CreateIndex("IDX_c9b5b", "users", <<"created_at">>),
        CreateUnique("IDX_UNIQUE_EMAIL_ACTIVE", "users", <<"email">>),
        AddKey("FK_9dfa6", "ticket_types", "event_id", "events"),
        AddKey("FK_2e445", "tickets", "user_id", "users"),
        AddKey("FK_a9536", "tickets", "ticket_type_id", "ticket_types")>>,
     down |-> <<
        DropKey("FK_a9536"), DropKey("FK_2e445"), DropKey("FK_9dfa6"),
        DropTable("users"), DropTable("tickets"), DropTable("ticket_types"), DropTable("events"),
        DropType("tickets_status_enum"), DropType("users_role_enum")>>]

\* A type gets other labels: the old one is renamed, the column moves to the new one.
NewLabels(t, c, ty, ls) ==
    <<RenameType(ty, ty \o "_old"), CreateType(ty, ls), Retype(t, c, ty), DropType(ty \o "_old")>>
\* and the way back
OldLabels(t, c, ty, ls) ==
    <<CreateType(ty \o "_old", ls), Retype(t, c, ty \o "_old"), DropType(ty),
      RenameType(ty \o "_old", ty)>>

AddOrganizerToEvent ==
    [up |-> <<AddRequired("events", "organizer_id", "plain")>>
            \o NewLabels("users", "role", "users_role_enum", {"ADMIN", "USER", "EVENT_CREATOR"})
            \o <<AddKey("FK_14c9c", "events", "organizer_id", "users")>>,
     down |-> <<DropKey("FK_14c9c")>>
              \o OldLabels("users", "role", "users_role_enum", {"ADMIN", "USER"})
              \o <<DropColumn("events", "organizer_id")>>]

AddEventDate ==
    [up |-> <<AddRequired("events", "eventDate", "plain")>>,
     down |-> <<DropColumn("events", "eventDate")>>]

AddOrderTable ==
    [up |-> <<
        CreateType("orders_status_enum", {"PENDING", "PAID", "FAILED", "REFUNDED"}),
        CreateTable("orders", Plain({"id", "stripe_session_id", "user_id", "ticket_type_id",
                                     "quantity", "unit_price", "total_price"} \union Dates)
                              @@ [status |-> "orders_status_enum"]),
        CreateUnique("UQ_815d6", "orders", <<"stripe_session_id">>),
        CreateUnique("IDX_815d6", "orders", <<"stripe_session_id">>),
        CreateIndex("IDX_c884e", "orders", <<"created_at">>),
        AddKey("FK_a922b", "orders", "user_id", "users"),
        AddKey("FK_813d9", "orders", "ticket_type_id", "ticket_types")>>,
     down |-> <<
        DropKey("FK_813d9"), DropKey("FK_a922b"), DropIndex("IDX_c884e"), DropIndex("IDX_815d6"),
        DropTable("orders"), DropType("orders_status_enum")>>]

ChangeOrderStatusEnum ==
    [up |-> NewLabels("orders", "status", "orders_status_enum",
                      {"PENDING", "PAID", "CANCELLED", "FAILED", "REFUNDED"}),
     down |-> OldLabels("orders", "status", "orders_status_enum",
                        {"PENDING", "PAID", "FAILED", "REFUNDED"})]

AddStatusAndCreatedAtIndices ==
    [up |-> <<CreateIndex("IDX_orders_status_created_at", "orders", <<"status", "created_at">>)>>,
     down |-> <<DropIndex("IDX_orders_status_created_at")>>]

\* The column is made again with another type, and so are the indexes on it.
FixTimestampWithTimeZone ==
    LET Remade(type) ==
            <<DropIndexIfExists("IDX_d39dd"), DropIndexIfExists("IDX_c884e"),
              DropColumn("orders", "created_at"), AddColumn("orders", "created_at", type),
              CreateIndex("IDX_c884e", "orders", <<"created_at">>),
              CreateIndex("IDX_d39dd", "orders", <<"status", "created_at">>)>>
    IN  [up |-> Remade("timestamptz"), down |-> Remade("plain")]

AllStatuses == {"PENDING", "PAID", "EXPIRED", "FAILED", "CANCELLED", "REFUNDED"}

\* (bug) the new type is generated from an enum without CANCELLED.
AddExpiredForgetsLabel ==
    [up |-> <<DropIndex("IDX_d39dd")>>
            \o NewLabels("orders", "status", "orders_status_enum", AllStatuses \ {"CANCELLED"})
            \o <<CreateIndex("IDX_d39dd", "orders", <<"status", "created_at">>)>>,
     down |-> <<DropIndex("IDX_d39dd")>>
              \o OldLabels("orders", "status", "orders_status_enum", AllStatuses \ {"EXPIRED"})
              \o <<CreateIndex("IDX_d39dd", "orders", <<"created_at", "status">>)>>]
\* (bug) the index is not made again.
AddExpiredForgetsIndex ==
    [up |-> <<DropIndex("IDX_d39dd")>>
            \o NewLabels("orders", "status", "orders_status_enum", AllStatuses),
     down |-> OldLabels("orders", "status", "orders_status_enum", AllStatuses \ {"EXPIRED"})
              \o <<CreateIndex("IDX_d39dd", "orders", <<"created_at", "status">>)>>]
\* (bug) the way back leaves the labels.
AddExpiredStays ==
    [up |-> <<DropIndex("IDX_d39dd")>>
            \o NewLabels("orders", "status", "orders_status_enum", AllStatuses)
            \o <<CreateIndex("IDX_d39dd", "orders", <<"status", "created_at">>)>>,
     down |-> <<DropIndex("IDX_d39dd"),
                CreateIndex("IDX_d39dd", "orders", <<"created_at", "status">>)>>]
AddExpiredToOrderStatus ==
    [up |-> <<DropIndex("IDX_d39dd")>>
            \o NewLabels("orders", "status", "orders_status_enum", AllStatuses)
            \o <<CreateIndex("IDX_d39dd", "orders", <<"status", "created_at">>)>>,
     down |-> <<DropIndex("IDX_d39dd")>>
              \o OldLabels("orders", "status", "orders_status_enum", AllStatuses \ {"EXPIRED"})
              \o <<CreateIndex("IDX_d39dd", "orders", <<"created_at", "status">>)>>]

AddMinimumAgeToEvents ==
    [up |-> <<AddColumn("events", "is_age_restricted", "plain")>>,
     down |-> <<DropColumn("events", "is_age_restricted")>>]

Files ==
    <<CreateInitialTables, AddOrganizerToEvent, AddEventDate, AddOrderTable, ChangeOrderStatusEnum,
      AddStatusAndCreatedAtIndices, FixTimestampWithTimeZone, AddExpiredToOrderStatus,
      AddMinimumAgeToEvents>>

-----------------------------------------------------------------------------
(* The entities of the application: what TypeORM reads and writes *)

Entities ==
    [users |-> {"id", "username", "email", "password", "profilePicture", "role"} \union Dates,
     events |-> {"id", "slug", "title", "description", "coverImageUrl", "is_age_restricted",
                 "eventDate", "location", "organizer_id"} \union Dates,
     ticket_types |-> {"id", "name", "description", "price", "total_quantity",
                       "available_quantity", "event_id"} \union Dates,
     tickets |-> {"id", "qr_code", "status", "user_id", "ticket_type_id", "purchase_price"}
                 \union Dates,
     orders |-> {"id", "stripe_session_id", "status", "user_id", "ticket_type_id", "quantity",
                 "unit_price", "total_price"} \union Dates]

Enums == {<<"users", "role", {"ADMIN", "USER", "EVENT_CREATOR"}>>,
          <<"tickets", "status", {"VALID", "USED", "CANCELLED"}>>,
          <<"orders", "status", AllStatuses>>}

Indexes == {<<t, <<"created_at">>, FALSE>> : t \in TableNames}
           \union {<<"users", <<"email">>, TRUE>>, <<"events", <<"slug">>, TRUE>>,
                   <<"events", <<"location">>, FALSE>>, <<"tickets", <<"qr_code">>, TRUE>>,
                   <<"orders", <<"stripe_session_id">>, TRUE>>,
                   <<"orders", <<"status", "created_at">>, FALSE>>}

Relations == {<<"events", "organizer_id", "users">>, <<"ticket_types", "event_id", "events">>,
              <<"tickets", "user_id", "users">>, <<"tickets", "ticket_type_id", "ticket_types">>,
              <<"orders", "user_id", "users">>, <<"orders", "ticket_type_id", "ticket_types">>}

ColumnsOf(d, t) == {c.name : c \in {x \in d.columns : x.table = t}}

\* A row of table t with value v in its enum column can be inserted.
Accepts(d, t, v) ==
    /\ t \in d.tables
    /\ \A k \in d.keys : k.table = t => d.rows[k.to] # {}
    /\ LET labels == UNION {Labels(d, c.type) : c \in {x \in d.columns : x.table = t}}
       IN  IF labels = {} THEN v = "row" ELSE v \in labels

Insert(d, t, v) == [d EXCEPT !.rows[t] = @ \union {v}]

-----------------------------------------------------------------------------
(* Commands *)

Empty == [tables |-> {}, columns |-> {}, types |-> {}, indexes |-> {}, keys |-> {},
          rows |-> [t \in TableNames |-> {}]]

Init ==
    /\ db = Empty
    /\ applied = 0
    /\ shipped = 0
    /\ rebuilt = FALSE
    /\ outcome = "none"

\* A release brings further migrations.
Ship ==
    /\ \E n \in shipped + 1 .. Len(Files) : shipped' = n
    /\ outcome' = "none"
    /\ UNCHANGED <<db, applied, rebuilt>>

Ups(from, to) == FlattenSeq([i \in 1 .. to - from |-> Files[from + i].up])

\* (bug) the history is written outside of the transaction.
RunRecordsAnyway ==
    LET result == Execute(db, Ups(applied, shipped))
    IN  /\ applied < shipped
        /\ db' = IF result = Failed THEN db ELSE result
        /\ applied' = shipped
        /\ outcome' = "run"
        /\ UNCHANGED <<shipped, rebuilt>>

\* migration:run, all that are pending in one transaction.
Run ==
    LET result == Execute(db, Ups(applied, shipped))
    IN  /\ applied < shipped
        /\ IF result = Failed
           THEN /\ outcome' = "runFailed"
                /\ UNCHANGED <<db, applied, rebuilt>>
           ELSE /\ db' = result
                /\ applied' = shipped
                /\ rebuilt' = (rebuilt \/ shipped >= 7)
                /\ outcome' = "run"
        /\ UNCHANGED shipped

\* migration:revert, the last one that was applied.
Revert ==
    LET result == Execute(db, Files[applied].down)
    IN  /\ applied > 0
        /\ IF result = Failed
           THEN /\ outcome' = "revertFailed"
                /\ UNCHANGED <<db, applied>>
           ELSE /\ db' = result
                /\ applied' = applied - 1
                /\ outcome' = "revert"
        /\ UNCHANGED <<shipped, rebuilt>>

\* The application of some release stores a row, or gives one another value.
Store ==
    /\ \E t \in TableNames, v \in Values :
        /\ Accepts(db, t, v)
        /\ \/ db' = Insert(db, t, v)
           \/ \E w \in db.rows[t] \ {v} : db' = [db EXCEPT !.rows[t] = (@ \ {w}) \union {v}]
    /\ outcome' = "none"
    /\ UNCHANGED <<applied, shipped, rebuilt>>

\* TRUNCATE t CASCADE empties the tables that refer to t as well.
Referring(d, t) == {k.table : k \in {x \in d.keys : x.to = t}}
Truncated(d, t) ==
    LET direct == Referring(d, t)
        all == {t} \union direct \union UNION {Referring(d, u) : u \in direct}
                   \union UNION {Referring(d, u) : u \in UNION {Referring(d, x) : x \in direct}}
    IN  [d EXCEPT !.rows = [u \in TableNames |-> IF u \in all THEN {} ELSE @[u]]]

SeedSteps ==
    <<[table |-> "tickets", values |-> {}], [table |-> "orders", values |-> {}],
      [table |-> "ticket_types", values |-> {}], [table |-> "events", values |-> {}],
      [table |-> "users", values |-> {}],
      [table |-> "users", values |-> {"ADMIN", "EVENT_CREATOR", "USER"}],
      [table |-> "events", values |-> {"row"}], [table |-> "ticket_types", values |-> {"row"}],
      [table |-> "orders", values |-> {"PAID"}], [table |-> "tickets", values |-> {"VALID"}]>>

\* Each step commits by itself: the table is truncated when the step stores nothing.
CanSeed(d, step) ==
    IF step.values = {}
    THEN step.table \in d.tables
    ELSE /\ Entities[step.table] \subseteq ColumnsOf(d, step.table)
         /\ \A v \in step.values : Accepts(d, step.table, v)
SeedStep(d, step) ==
    IF step.values = {}
    THEN Truncated(d, step.table)
    ELSE [d EXCEPT !.rows[step.table] = @ \union step.values]

\* The seeder of this release: the first step that fails ends it, the earlier ones stay.
Seeded(d) ==
    FoldLeft(LAMBDA x, step : IF x.done /\ CanSeed(x.db, step)
                              THEN [x EXCEPT !.db = SeedStep(@, step)]
                              ELSE [x EXCEPT !.done = FALSE],
             [db |-> d, done |-> TRUE], SeedSteps)

Seed ==
    LET result == Seeded(db)
    IN  /\ db' = result.db
        /\ outcome' = IF result.done THEN "seed" ELSE "seedFailed"
        /\ UNCHANGED <<applied, shipped, rebuilt>>

Next == Ship \/ Run \/ Revert \/ Store \/ Seed

Spec == Init /\ [][Next]_vars

-----------------------------------------------------------------------------
(* Properties *)

\* The tables are those of the migrations applied, and hold only values that their
\* enum columns have labels for.
TypeOK ==
    /\ db.tables = {t \in TableNames : applied >= IF t = "orders" THEN 4 ELSE 1}
    /\ \A c \in db.columns :
          /\ c.table \in db.tables
          /\ Labels(db, c.type) # {} => db.rows[c.table] \subseteq Labels(db, c.type)
    /\ applied \in 0 .. shipped
    /\ shipped \in 0 .. Len(Files)
    /\ rebuilt \in BOOLEAN

Shape(i) == <<i.table, i.columns, i.unique>>

\* Once all migrations have run, by whatever way of running and reverting them, the
\* database has the tables, columns, enum labels, indexes and foreign keys that the
\* entities of the application declare.
SchemaMatches ==
    applied = Len(Files) =>
        /\ db.tables = DOMAIN Entities
        /\ \A t \in TableNames : ColumnsOf(db, t) = Entities[t]
        /\ {<<c.table, c.name, Labels(db, c.type)>> :
               c \in {x \in db.columns : Labels(db, x.type) # {}}} = Enums
        /\ {Shape(i) : i \in db.indexes} = Indexes
        /\ {<<k.table, k.column, k.to>> : k \in db.keys} = Relations

\* Reverting undoes: the schema is the one that the migrations still applied make of an
\* empty database.  The indexes may differ after FixTimestampWithTimeZone or a later
\* migration was reverted, and in no other case.
RevertUndoes ==
    LET fresh == Execute(Empty, Ups(0, applied))
    IN  /\ db.tables = fresh.tables
        /\ db.columns = fresh.columns
        /\ db.types = fresh.types
        /\ db.keys = fresh.keys
        /\ db.indexes # fresh.indexes => rebuilt /\ applied \in {6, 7}

\* The last migration cannot be undone.
Stuck ==
    \/ applied = 2 /\ "EVENT_CREATOR" \in db.rows["users"]
    \/ applied = 5 /\ "CANCELLED" \in db.rows["orders"]
    \/ applied = 8 /\ "EXPIRED" \in db.rows["orders"]
    \/ applied = 6 /\ rebuilt

\* A run fails exactly when events exist that have no organizer or date yet.  A revert
\* fails exactly when a row has a value that the older enum lacks, or when
\* AddStatusAndCreatedAtIndices is to be undone and FixTimestampWithTimeZone once took
\* its index.  The seeder fails on every schema but the newest.
FailuresExplained ==
    [][/\ outcome' = "runFailed" =>
             db.rows["events"] # {} /\ applied < 3 /\ shipped > 1
       /\ outcome' = "run" => db.rows["events"] = {} \/ applied >= 3 \/ shipped = 1
       /\ outcome' = "revertFailed" => Stuck
       /\ outcome' = "revert" => ~Stuck
       /\ outcome' = "seedFailed" => applied < Len(Files)
       /\ outcome' = "seed" => applied = Len(Files)]_vars
=============================================================================
