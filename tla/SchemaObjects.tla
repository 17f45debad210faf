--------------------------- MODULE SchemaObjects ---------------------------
(***************************************************************************)
(* What a migration statement does to a PostgreSQL schema, as far as       *)
(* src/migrations uses it: a schema is a set of objects, and a statement   *)
(* creates some of them or drops one with whatever hangs on it. Column     *)
(* types other than enums, defaults and NULL-ability are left out.         *)
(***************************************************************************)
EXTENDS Naturals, Sequences

\* `on' is the table (of a value: the type), `to' what a foreign key refers
\* to or the enum type of a column.
Obj(kind, on, name, cols, to) ==
    [kind |-> kind, on |-> on, name |-> name, cols |-> cols, to |-> to]

Table(t) == Obj("table", t, t, {}, "")
Column(t, c) == Obj("column", t, c, {c}, "")
EnumColumn(t, c, e) == Obj("column", t, c, {c}, e)
Index(t, n, cs) == Obj("index", t, n, cs, "")
Primary(t, cs) == Obj("constraint", t, t \o "_pkey", cs, "")
Unique(t, n, cs) == Obj("constraint", t, n, cs, "")
UniqueNullsEqual(t, n, cs) == Obj("nulls equal", t, n, cs, "")
UniqueNullsDiffer(t, n, cs) == Obj("nulls differ", t, n, cs, "")
ForeignKey(t, n, c, to) == Obj("foreign key", t, n, {c}, to)
EnumType(e) == Obj("type", e, e, {}, "")
Value(e, v) == Obj("value", e, v, {}, "")

Columns(t, cs) == {Column(t, c) : c \in cs}
Enum(e, vs) == {EnumType(e)} \cup {Value(e, v) : v \in vs}

\* Statements. The table comes with its parts, CREATE TYPE with its values.
Create(objs) == <<[do |-> "create", objs |-> objs]>>
CreateTable(t, objs) == Create({Table(t)} \cup objs)
AddValue(e, v) == <<[do |-> "add if missing", objs |-> {Value(e, v)}]>>
Drop(kind, t, n) == <<[do |-> "drop", kind |-> kind, on |-> t, name |-> n]>>
DropIfExists(kind, t, n) == <<[do |-> "drop if exists", kind |-> kind, on |-> t, name |-> n]>>

\* Keys differ in what they make of NULL, which none of the other keys' columns
\* can be.
Keys == {"constraint", "nulls equal", "nulls differ"}

Named(db, kind, t, n) ==
    {o \in db : o.on = t /\ o.name = n /\ (o.kind = kind \/ {o.kind, kind} \subseteq Keys)}

Same(o, x) == o.on = x.on /\ o.name = x.name /\ (o.kind = "column" <=> x.kind = "column")

\* What an object cannot be without: its table and columns, its type, and the
\* table it refers to.
Supported(o, db) ==
    /\ o.kind \notin {"type", "value"} =>
          Table(o.on) \in db /\ \A c \in o.cols : Named(db, "column", o.on, c) # {}
    /\ o.kind = "value" => EnumType(o.on) \in db
    /\ o.kind = "foreign key" => Table(o.to) \in db
    /\ o.kind = "column" /\ o.to # "" => EnumType(o.to) \in db

\* A column takes its indexes and constraints with it, a table and a type all
\* of their parts.
Parts(o, db) == CASE o.kind \in {"table", "type"} -> {x \in db : x.on = o.on}
                  [] o.kind = "column" -> {x \in db : x.on = o.on /\ o.name \in x.cols}
                  [] OTHER -> {o}

\* Another table's foreign key, or a column of the type, forbids the drop.
Refers(x, o) == \/ o.kind = "table" /\ x.kind = "foreign key" /\ x.to = o.on /\ x.on # o.on
                \/ o.kind = "type" /\ x.kind = "column" /\ x.to = o.on

\* What makes the statement raise.
Obstacles(st, db) ==
    CASE st.do = "create" ->
           {x \in db : \E o \in st.objs : Same(o, x)}
               \cup {o \in st.objs : ~Supported(o, db \cup st.objs)}
      [] st.do = "add if missing" -> {o \in st.objs : ~Supported(o, db)}
      [] OTHER ->
           {x \in db : \E o \in Named(db, st.kind, st.on, st.name) : Refers(x, o)}
               \cup {s \in {st} : s.do = "drop" /\ Named(db, s.kind, s.on, s.name) = {}}

Runs(st, db) == Obstacles(st, db) = {}

Result(st, db) ==
    IF st.do \in {"create", "add if missing"} THEN db \cup st.objs
    ELSE db \ UNION {Parts(o, db) : o \in Named(db, st.kind, st.on, st.name)}
=============================================================================
