------------------------------- MODULE Schema -------------------------------
(***************************************************************************)
(* What a migration changes: the database as the set of facts about it, a  *)
(* fact being <<object, kind, ...>>, and the statements of a migration     *)
(* with what Postgres refuses: to drop or alter what is not there, to      *)
(* create what is, and to leave something that depends on what is gone.    *)
(***************************************************************************)
EXTENDS Sequences, FiniteSets
LOCAL INSTANCE SequencesExt

Object(name, kind) == <<name, "is", kind>>
Enum(name, members) == {Object(name, "type")} \cup {<<name, "member", m>> : m \in members}

\* The columns of a table: <<name, type, what fills it when nothing is given>>.
Required(type, names) == {<<n, type, "nothing">> : n \in names}
Optional(type, names) == {<<n, type, "null">> : n \in names}
Default(type, value, names) == {<<n, type, value>> : n \in names}
Id == Required("SERIAL", {"id"})
Created == Default("timestamptz", "now", {"created_at"})
Touched == Required("timestamptz", {"updated_at"})
Stamped == Default("timestamptz", "now", {"created_at", "updated_at"})
Active == Default("bool", "true", {"active"})
Amounts(names) == Default("numeric(18,4)", "0", names)
Rated == Default("currency", "USD", {"currency"}) \cup Default("numeric(18,6)", "1", {"exchange_rate"})

Columns(t, columns) == {<<t, "column", c[1], c[2], c[3]>> : c \in columns}
TableBy(t, key, columns) ==
    {Object(t, "table"), <<t, "primary key", <<key>>>>} \cup Columns(t, columns)
Table(t, columns) == TableBy(t, "id", columns)

\* Constraints and indexes, by the columns they are on.
Keyed == {"primary key", "unique", "index", "references", "check", "default calls"}
Unique(t, columns) == {<<t, "unique", columns>>}
Index(t, columns) == {<<t, "index", columns>>}
Check(t, columns, condition) == {<<t, "check", columns, condition>>}
References(t, column, other) == {<<t, "references", <<column>>, other, "no action">>}
Owned(t, column, other) == {<<t, "references", <<column>>, other, "cascade">>}
Calls(t, column, what) == {<<t, "default calls", <<column>>, what>>}
Trigger(t, name, function) == {<<t, "trigger", name, function>>}
Function(name, does) == {Object(name, "function"), <<name, "does", does>>}

\* The statements.
Add(facts) == [drops |-> {}, replaces |-> {}, adds |-> facts]
Drop(keys) == [drops |-> keys, replaces |-> {}, adds |-> {}]
DropEach(names) == [i \in DOMAIN names |-> Drop({<<names[i]>>})]
Alter(keys, facts) == [drops |-> keys, replaces |-> {}, adds |-> facts]
Replace(name, facts) == [drops |-> {}, replaces |-> {<<name>>}, adds |-> facts]

Builtin == {"SERIAL", "int4", "int8", "text", "varchar", "bool", "jsonb", "date", "uuid",
            "timestamp", "timestamptz", "numeric(18,4)", "numeric(18,6)"}

\* Nothing refers to what is not there, and nothing is there twice.
Closed(db) ==
    LET kinds(ks) == {f[1] : f \in {g \in db : g[2] = "is" /\ g[3] \in ks}}
        tables == kinds({"table"})
        types == Builtin \cup kinds({"type"})
        callable == kinds({"function", "sequence"})
        columns == {<<f[1], f[3]>> : f \in {g \in db : g[2] = "column"}}
    IN  /\ Cardinality({SubSeq(f, 1, 3) : f \in db}) = Cardinality(db)
        /\ \A f \in db :
              /\ f[2] \notin {"is", "member", "does"} => f[1] \in tables
              /\ f[2] = "column" => f[4] \in types
              /\ f[2] \in Keyed => \A i \in DOMAIN f[3] : <<f[1], f[3][i]>> \in columns
              /\ f[2] = "references" => f[4] \in tables
              /\ f[2] \in {"default calls", "trigger"} => f[4] \in callable

Refused == {}
Empty == {Object("public", "schema")}

\* A column goes with the constraints and indexes on it, unless it is only altered.
Execute(db, s) ==
    LET under(keys) == {f \in db : \E k \in keys : IsPrefix(k, f)}
        gone == {k \in s.drops : Len(k) = 3 /\ k[2] = "column"
                                  /\ \A f \in s.adds : ~IsPrefix(k, f)}
        loose == {f \in db : \E k \in gone :
                     f[1] = k[1] /\ f[2] \in Keyed /\ \E i \in DOMAIN f[3] : f[3][i] = k[3]}
        left == db \ (under(s.drops \cup s.replaces) \cup loose)
    IN  IF /\ db # Refused
           /\ \A k \in s.drops : under({k}) # {}
           /\ s.adds \cap left = {}
           /\ Closed(left \cup s.adds)
        THEN left \cup s.adds
        ELSE Refused

Run(db, statements) == FoldLeft(Execute, db, statements)

=============================================================================
