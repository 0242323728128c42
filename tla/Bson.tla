-------------------------------- MODULE Bson --------------------------------
(***************************************************************************)
(* The BSON serializer and parser that are compiled for a schema: the      *)
(* sizer that tells how long the buffer must be, the serializer that fills *)
(* it and compares, and the decoder that reads it again                    *)
(* (bson/src/bson-serialize.ts, bson-jit-parser.ts, bson-parser.ts).       *)
(*                                                                         *)
(* The schema has a property p of any type and a property next, a class    *)
(* property of the schema itself, in one order or the other. Objects form  *)
(* a chain of at most two, which may be closed to a ring. Between writing  *)
(* and reading, p may be missing in objects of the document: it was        *)
(* written before the schema had p. Names have one character. What a       *)
(* buffer holds is a sequence of elements; bytes are counted. Decorated    *)
(* classes, binary data, regular expressions and enums are left out.       *)
(***************************************************************************)
EXTENDS Integers, Sequences, SequencesExt, FiniteSets

VARIABLES
    schema,     \* [type: the type of p, pFirst: it comes before next, reference: next is a reference]
    object,     \* the objects: [p, next] of 1 and 2
    step,       \* "serialize" | "deserialize" | "done"
    error,      \* "" | "discriminant" | "size"
    made,       \* how often the default of p was generated
    document,   \* the elements that were written
    missing,    \* the levels of the document p was removed from
    read        \* what the decoder made of it

vars == <<schema, object, step, error, made, document, missing, read>>

(* A JavaScript value: what typeof and instanceof tell, and its length,    *)
(* sign or identity; the items of an array or the values of an object.     *)
Value(js, n) == [js |-> js, n |-> n, items |-> <<>>]
Composed(js, items) == [js |-> js, n |-> 0, items |-> items]
Absent == Value("absent", 0)
Undefined == Value("undefined", 0)
Null == Value("null", 0)
Literal == Value("string", 3)
Nothing == {Absent, Undefined}
Abs(n) == IF n < 0 THEN -n ELSE n

(* "digits" is a string that parseInt reads, "default" one that was generated. *)
IsString(v) == v.js \in {"string", "digits", "oid", "uuid", "default"}
IsNumber(v) == v.js \in {"int", "double"}
Length(v) == CASE v.js = "oid" -> 24 [] v.js = "uuid" -> 36 [] v.js = "default" -> 1 [] OTHER -> v.n

(* sub is the type of the items of an array or a map, and for a union the type that is tried first. *)
Type(kind, sub, optional, nullable, default) ==
    [kind |-> kind, sub |-> sub, optional |-> optional, nullable |-> nullable, default |-> default]
SubType(T) == Type(T.sub, "", FALSE, FALSE, FALSE)
Members(T) == <<SubType(T), Type("string", "", FALSE, FALSE, FALSE)>>

Sum_(s) == FoldLeft(LAMBDA a, b : a + b, 0, s)
\* The type byte and the name of an element, with its end.
Header == 3

-----------------------------------------------------------------------------
(* The values without a type: getValueSize, and Writer.write with parse. *)

(* Mutant: an element of an array that is undefined has no name. *)
RECURSIVE GetValueSizeSkips(_)
GetValueSizeSkips(v) ==
    CASE v.js = "boolean" -> 1
      [] IsString(v) -> 4 + Length(v) + 1
      [] v.js = "bigint" -> 4 + 1 + Abs(v.n)
      [] v.js = "int" -> 4
      [] v.js \in {"double", "date"} -> 8
      [] v.js \in {"array", "object"} ->
            4 + Sum_([i \in DOMAIN v.items |-> IF v.items[i] = Undefined THEN 0 ELSE Header + GetValueSizeSkips(v.items[i])]) + 1
      [] OTHER -> 0

RECURSIVE GetValueSize(_)
GetValueSize(v) ==
    CASE v.js = "boolean" -> 1
      [] IsString(v) -> 4 + Length(v) + 1
      [] v.js = "bigint" -> 4 + 1 + Abs(v.n)
      [] v.js = "int" -> 4
      [] v.js \in {"double", "date"} -> 8
      [] v.js \in {"array", "object"} -> 4 + Sum_([i \in DOMAIN v.items |-> Header + GetValueSize(v.items[i])]) + 1
      [] OTHER -> 0

Element(type, v) == [name |-> "p", type |-> type, v |-> v, items |-> <<>>]
Nested(name, type, items) == [name |-> name, type |-> type, v |-> Undefined, items |-> items]

RECURSIVE Bytes(_)
Bytes(e) ==
    Header + (CASE e.type = "BOOLEAN" -> 1
              [] e.type = "INT" -> 4
              [] e.type \in {"NUMBER", "LONG", "DATE"} -> 8
              [] e.type = "OID" -> 12
              [] e.type = "UUID" -> 4 + 1 + 16
              [] e.type = "BIGINT" -> 4 + 1 + Abs(e.v.n)
              [] e.type = "STRING" -> 4 + Length(e.v) + 1
              [] e.type \in {"ARRAY", "OBJECT"} -> 4 + Sum_([i \in DOMAIN e.items |-> Bytes(e.items[i])]) + 1
              [] OTHER -> 0)

RECURSIVE Write(_)
Write(v) ==
    CASE v.js = "boolean" -> Element("BOOLEAN", v)
      [] IsString(v) -> Element("STRING", v)
      [] v.js = "int" -> Element("INT", v)
      [] v.js = "double" -> Element("NUMBER", v)
      [] v.js = "date" -> Element("DATE", v)
      [] v.js = "bigint" -> Element("BIGINT", v)
      [] v.js \in {"array", "object"} ->
            Nested("p", IF v.js = "array" THEN "ARRAY" ELSE "OBJECT", [i \in DOMAIN v.items |-> Write(v.items[i])])
      [] v.js = "null" -> Element("NULL", v)
      [] OTHER -> Element("UNDEFINED", v)

(* A negative date or big integer is written as the two halves or the      *)
(* digits of another one: its sign is lost.                                *)
RECURSIVE Parse(_)
Parse(e) ==
    CASE e.type \in {"DATE", "BIGINT"} -> Value(e.v.js, Abs(e.v.n))
      [] e.type \in {"ARRAY", "OBJECT"} ->
            Composed(IF e.type = "ARRAY" THEN "array" ELSE "object", [i \in DOMAIN e.items |-> Parse(e.items[i])])
      [] e.type = "NULL" -> Null
      [] e.type = "UNDEFINED" -> Undefined
      [] OTHER -> e.v

-----------------------------------------------------------------------------
(* The guards of a union: of the value when it is written, of the element  *)
(* when it is read.                                                        *)
JsonGuard(kind, v) ==
    CASE kind = "date" -> v.js = "date"
      [] kind = "number" -> IsNumber(v) \/ v.js = "digits"
      [] kind = "bigint" -> v.js = "bigint"
      [] kind = "literal" -> v = Literal
      [] OTHER -> IsString(v)

BsonGuard(kind, e) ==
    CASE kind = "date" -> e.type = "DATE"
      [] kind = "number" -> e.type \in {"NUMBER", "INT", "LONG"}
      [] kind = "bigint" -> e.type \in {"BIGINT", "UUID"}
      [] kind = "literal" -> e.type = "STRING" /\ e.v = Literal
      [] OTHER -> e.type = "STRING"

NoGuard == 1000     \* the size of a value no guard of a union takes: an error is thrown

SizeInstead(T, default) ==
    IF T.default THEN GetValueSize(default)
    ELSE IF ~T.optional /\ T.kind = "literal" THEN GetValueSize(Literal) ELSE 0

(* getPropertySizer: what a value of a property adds, without its head.    *)
RECURSIVE PropertySize(_, _, _)
PropertySize(T, v, default) ==
    LET items == [i \in DOMAIN v.items |-> Header + PropertySize(SubType(T), v.items[i], default)]
        take == SelectInSeq(Members(T), LAMBDA M : JsonGuard(M.kind, v))
    IN  CASE v = Undefined \/ (v = Null /\ ~T.nullable) -> SizeInstead(T, default)
          [] v = Null /\ T.nullable -> 0
          [] OTHER ->
             CASE T.kind = "array" -> IF v.js = "array" THEN 4 + Sum_(items) + 1 ELSE 0
               [] T.kind = "map" -> 4 + Sum_(items) + 1
               [] T.kind = "bigint" -> IF v.js = "bigint" THEN GetValueSize(v) ELSE 0
               [] T.kind = "number" -> IF IsNumber(v) THEN GetValueSize(v) ELSE IF v.js = "bigint" THEN 8 ELSE 0
               [] T.kind = "string" -> IF IsString(v) THEN GetValueSize(v) ELSE 0
               [] T.kind = "boolean" -> IF v.js = "boolean" THEN 1 ELSE 0
               [] T.kind = "date" -> IF v.js = "date" THEN 8 ELSE 0
               [] T.kind = "objectId" -> IF IsString(v) THEN 12 ELSE 0
               [] T.kind = "uuid" -> IF IsString(v) THEN 4 + 1 + 16 ELSE 0
               [] T.kind = "literal" -> IF IsString(v) \/ IsNumber(v) \/ v.js = "boolean" THEN GetValueSize(v)
                                        ELSE IF T.optional THEN 0 ELSE GetValueSize(Literal)
               [] T.kind = "union" -> IF take = 0 THEN NoGuard ELSE PropertySize(Members(T)[take], v, default)
               [] OTHER -> GetValueSize(v)

ElementInstead(T, default) ==
    IF T.default THEN Write(default)
    ELSE IF ~T.optional /\ T.kind = "literal" THEN Write(Literal) ELSE Element("NULL", Null)

(* getPropertySerializerCode: the elements that are written for a value.   *)
ScalarElements(T, v) ==
    LET When(cond, e) == IF cond THEN <<e>> ELSE <<Element("UNDEFINED", Undefined)>>
        primitive == IsString(v) \/ IsNumber(v) \/ v.js = "boolean"
    IN  CASE T.kind = "bigint" -> IF v.js = "bigint" THEN <<Element("BIGINT", v)>> ELSE <<>>
          [] T.kind = "number" -> When(IsNumber(v) \/ v.js = "bigint", IF v.js = "bigint" THEN Element("LONG", v) ELSE Write(v))
          [] T.kind = "string" -> When(IsString(v), Element("STRING", v))
          [] T.kind = "boolean" -> When(v.js = "boolean", Element("BOOLEAN", v))
          [] T.kind = "date" -> When(v.js = "date", Element("DATE", v))
          [] T.kind = "objectId" -> When(IsString(v), Element("OID", v))
          [] T.kind = "uuid" -> When(IsString(v), Element("UUID", v))
          [] T.kind = "literal" -> When(primitive \/ ~T.optional, Write(IF primitive THEN v ELSE Literal))
          [] OTHER -> <<Write(v)>>

RECURSIVE PropertyElements(_, _, _)
PropertyElements(T, v, default) ==
    LET items == FlattenSeq([i \in DOMAIN v.items |-> PropertyElements(SubType(T), v.items[i], default)])
        take == SelectInSeq(Members(T), LAMBDA M : JsonGuard(M.kind, v))
    IN  CASE v = Undefined \/ (v = Null /\ ~T.nullable) -> <<ElementInstead(T, default)>>
          [] v = Null /\ T.nullable -> <<Element("NULL", Null)>>
          [] OTHER ->
             CASE T.kind = "array" -> <<IF v.js = "array" THEN Nested("p", "ARRAY", items) ELSE Element("UNDEFINED", Undefined)>>
               [] T.kind = "map" -> <<Nested("p", "OBJECT", items)>>
               [] T.kind = "union" -> PropertyElements(Members(T)[take], v, default)
               [] OTHER -> ScalarElements(T, v)

-----------------------------------------------------------------------------
(* The objects. What a sizer or serializer carries along: the bytes or     *)
(* elements so far, the generated defaults, and whether sizes differed.    *)
Properties == IF schema.pFirst THEN <<"p", "next">> ELSE <<"next", "p">>
Generated(n) == Value("default", n)

\* What is in next, if not an object: nothing, undefined, or a primary key.
None == 0
Unknown == 3
Key == 4

\* Whether getSizeCode and getPropertyCode set a value where the object has none.
Sets(T) == T.default \/ (IF T.kind = "literal" THEN ~T.optional ELSE T.nullable)
SetTo(T) == IF T.default \/ T.kind = "literal" THEN Undefined ELSE Null

RECURSIVE Size(_, _, _)
Size(o, stack, start) ==
    LET Each(acc, property) ==
            LET T == schema.type
                v == object[o].p
                generates == T.default /\ (v \in Nothing \/ (v = Null /\ ~T.nullable))
                now == IF generates THEN acc.made + 1 ELSE acc.made
                next == object[o].next
                inner == Size(next, stack \cup {o}, acc.made)
            IN  IF property = "p"
                THEN [made |-> now,
                      size |-> acc.size + (IF v = Absent /\ ~Sets(T) THEN 0
                                 ELSE Header + PropertySize(T, IF v = Absent THEN SetTo(T) ELSE v, Generated(now)))]
                ELSE CASE next = None -> acc
                       [] next \in {1, 2} \ (stack \cup {o}) ->
                            [made |-> inner.made, size |-> acc.size + Header + inner.size]
                       [] next = Key -> [acc EXCEPT !.size = @ + Header + (IF schema.reference THEN 4 ELSE 0)]
                       [] OTHER -> [acc EXCEPT !.size = @ + Header]
    IN  FoldLeft(Each, [made |-> start, size |-> 4 + 1], Properties)

(* The sizer of the object runs first and leaves the default it generated  *)
(* last in the property, where the serializer takes it.                    *)
RECURSIVE Serialized(_, _, _)
Serialized(o, stack, start) ==
    LET size == Size(o, stack, start)
        Each(acc, property) ==
            LET T == schema.type
                v == object[o].p
                next == object[o].next
                inner == Serialized(next, stack \cup {o}, acc.made)
                add(es) == [acc EXCEPT !.elements = @ \o es]
            IN  IF property = "p"
                THEN IF v = Absent /\ ~Sets(T) THEN acc
                     ELSE add(PropertyElements(T, IF v = Absent THEN SetTo(T) ELSE v, Generated(acc.made)))
                ELSE CASE next = None -> acc
                       [] next \in {1, 2} \ (stack \cup {o}) ->
                            [made |-> inner.made, error |-> acc.error \/ inner.error,
                             elements |-> Append(acc.elements, Nested("next", "OBJECT", inner.elements))]
                       [] next = Key /\ schema.reference -> add(<<[Element("INT", Value("int", 1)) EXCEPT !.name = "next"]>>)
                       [] next = Unknown -> add(<<[Element("NULL", Null) EXCEPT !.name = "next"]>>)
                       [] OTHER -> add(<<[Element("UNDEFINED", Undefined) EXCEPT !.name = "next"]>>)
        all == FoldLeft(Each, [made |-> size.made, error |-> FALSE, elements |-> <<>>], Properties)
        written == 4 + Sum_([i \in DOMAIN all.elements |-> Bytes(all.elements[i])]) + 1
    IN  [all EXCEPT !.error = @ \/ written # size.size]

-----------------------------------------------------------------------------
Unset == Undefined

(* createPropertyConverter. *)
NullCheck(T, e) ==
    CASE e.type = "NULL" /\ T.nullable -> Null
      [] e.type \in {"UNDEFINED", "NULL"} /\ T.optional /\ T.default -> Generated(0)
      [] OTHER -> Unset

ConvertLiteral(T, e) ==
    CASE T.optional /\ e.type \in {"UNDEFINED", "NULL"} -> IF T.default THEN Generated(0) ELSE Undefined
      [] T.nullable /\ e.type = "NULL" -> Null
      [] OTHER -> Literal

ConvertScalar(T, e) ==
    LET Takes(types) == IF e.type \in types THEN Parse(e) ELSE NullCheck(T, e)
    IN  CASE T.kind = "string" -> Takes({"STRING"})
          [] T.kind = "number" -> Takes({"INT", "NUMBER", "LONG"})
          [] T.kind = "boolean" -> Takes({"BOOLEAN"})
          [] T.kind = "date" -> Takes({"DATE"})
          [] T.kind = "objectId" -> Takes({"OID"})
          [] T.kind = "uuid" -> Takes({"UUID"})
          [] T.kind = "literal" -> ConvertLiteral(T, e)
          [] OTHER -> IF e.type \in {"NULL", "UNDEFINED"} THEN NullCheck(T, e) ELSE Parse(e)

RECURSIVE Convert(_, _)
Convert(T, e) ==
    LET items == [i \in DOMAIN e.items |-> Convert(SubType(T), e.items[i])]
        take == SelectInSeq(Members(T), LAMBDA M : BsonGuard(M.kind, e))
    IN  CASE T.kind = "array" -> IF e.type = "ARRAY" THEN Composed("array", items) ELSE NullCheck(T, e)
          [] T.kind = "map" -> IF e.type = "OBJECT" THEN Composed("object", items) ELSE NullCheck(T, e)
          [] T.kind = "union" -> IF take = 0 THEN NullCheck(T, e) ELSE Convert(Members(T)[take], e)
          [] OTHER -> ConvertScalar(T, e)

(* Whether a value was set is remembered in a variable of the compiled     *)
(* function, not of its call: the decoder of a nested object of the same   *)
(* schema resets it and leaves its own answer. A default that is missing   *)
(* is set to the function that generates it.                               *)
RECURSIVE Decode(_)
Decode(elements) ==
    LET T == schema.type
        Each(acc, e) ==
            LET inner == Decode(e.items)
            IN  IF e.name = "p" THEN [acc EXCEPT !.p = Convert(T, e), !.set = TRUE]
                ELSE IF e.type = "OBJECT" THEN [acc EXCEPT !.next = <<inner.p, inner.next>>, !.set = inner.set]
                ELSE IF e.type = "INT" /\ schema.reference THEN [acc EXCEPT !.next = <<e.v>>] ELSE acc
        all == FoldLeft(Each, [p |-> Undefined, next |-> <<>>, set |-> FALSE], elements)
    IN  IF all.set \/ ~Sets(T) THEN all
        ELSE [all EXCEPT !.p = CASE T.default -> Value("function", 0)
                                 [] T.kind = "literal" -> IF T.optional THEN @ ELSE Literal
                                 [] OTHER -> Null]

-----------------------------------------------------------------------------
Kinds == {"string", "number", "boolean", "date", "bigint", "objectId", "uuid", "any", "literal"}
Types == { Type(k, "", o, n, FALSE) : k \in Kinds, o \in BOOLEAN, n \in BOOLEAN }
         \cup { Type("string", "", o, n, TRUE) : o \in BOOLEAN, n \in BOOLEAN }
         \cup { Type("union", k, o, n, FALSE) : k \in {"date", "number", "bigint", "literal"}, o \in BOOLEAN, n \in BOOLEAN }
         \cup { Type(c, k, FALSE, FALSE, FALSE) : c \in {"array", "map"}, k \in {"string", "number", "bigint", "any"} }

Scalars(kind) ==
    CASE kind = "string" -> {Value("string", 0), Value("string", 2), Value("digits", 1)}
      [] kind = "number" -> {Value("int", 1), Value("double", 1), Value("bigint", 1)}
      [] kind = "boolean" -> {Value("boolean", 1)}
      [] kind = "date" -> {Value("date", 1), Value("date", -1)}
      [] kind = "bigint" -> {Value("bigint", 2), Value("bigint", -2)}
      [] kind = "objectId" -> {Value("oid", 1)}
      [] kind = "uuid" -> {Value("uuid", 1)}
      [] kind = "literal" -> {Literal}
      [] OTHER -> {Value("string", 2), Value("date", 1), Composed("array", <<Undefined, Value("int", 1)>>),
                   Composed("object", <<Value("bigint", 1), Null>>)}

Values(T) ==
    CASE T.kind \in {"array", "map"} ->
            LET js == IF T.kind = "array" THEN "array" ELSE "object" IN
            { Composed(js, <<v, w>>) : v \in Scalars(T.sub), w \in {Undefined, Null, Value("boolean", 1)} }
      [] T.kind = "union" -> Scalars(T.sub) \cup Scalars("string")
      [] OTHER -> Scalars(T.kind)

Init ==
    /\ \E T \in Types, pFirst \in BOOLEAN, reference \in BOOLEAN :
         /\ schema = [type |-> T, pFirst |-> pFirst, reference |-> reference]
         /\ \E v \in Values(T) \cup {Absent, Undefined, Null, Value("boolean", 1)}, w \in {Absent, Undefined},
               next \in {None, Unknown, Key, 1, 2}, back \in {None, 1} :
              /\ T.kind = "map" => v.js # "boolean"
              /\ next # 2 => back = None /\ w = Absent /\ pFirst
              /\ reference => next = Key \/ back = 1
              /\ object = <<[p |-> v, next |-> next], [p |-> IF w = Absent THEN w ELSE v, next |-> back]>>
    /\ step = "serialize" /\ error = "" /\ made = 0 /\ document = <<>> /\ missing = {} /\ read = <<>>

Serialize ==
    /\ step = "serialize"
    /\ LET size == Size(1, {}, 0)
           result == Serialized(1, {}, 0)
       IN  IF size.size >= NoGuard
           THEN /\ error' = "discriminant" /\ step' = "done"
                /\ UNCHANGED <<made, document>>
           ELSE /\ error' = IF result.error THEN "size" ELSE ""
                /\ step' = IF result.error THEN "done" ELSE "deserialize"
                /\ made' = result.made
                /\ document' = result.elements
    /\ UNCHANGED <<schema, object, missing, read>>

RECURSIVE Without(_, _, _)
Without(elements, levels, level) ==
    LET kept == SelectSeq(elements, LAMBDA e : e.name # "p" \/ level \notin levels)
    IN  [i \in DOMAIN kept |-> IF kept[i].name = "p" THEN kept[i]
                               ELSE [kept[i] EXCEPT !.items = Without(@, levels, level + 1)]]

Deserialize(levels) ==
    /\ step = "deserialize"
    /\ missing' = levels
    /\ read' = LET all == Decode(Without(document, levels, 1)) IN <<all.p, all.next>>
    /\ step' = "done"
    /\ UNCHANGED <<schema, object, error, made, document>>

Next == Serialize \/ \E levels \in SUBSET {1, 2} : Deserialize(levels)

Spec == Init /\ [][Next]_vars

-----------------------------------------------------------------------------
Reached == IF object[1].next = 2 THEN {1, 2} ELSE {1}

(***************************************************************************)
(* A buffer is never too short or too long: the sizer and the serializer,  *)
(* two programs that are compiled from the same schema, agree. Only        *)
(* value of another type in a property of big integers is an error.        *)
(***************************************************************************)
SizesAgree ==
    /\ error = "size" => "bigint" \in {schema.type.kind, schema.type.sub} /\
          \E o \in Reached : \E v \in {object[o].p} \cup ToSet(object[o].p.items) : v.js \in {"boolean"}
    /\ error = "discriminant" => schema.type.kind = "union" /\
          \E o \in Reached : object[o].p.js \in {"boolean"} \cup (IF schema.type.sub = "number" THEN {"bigint"} ELSE {})

(***************************************************************************)
(* What a reader gets for a value of p. The last of the exceptions are the *)
(* code's: null in an optional literal becomes undefined, a literal is     *)
(* read as its own value whatever was written, a string of digits is lost  *)
(* in a union that tries numbers first, and dates before 1970 and negative *)
(* big integers lose their sign.                                           *)
(***************************************************************************)
Fits(T, v) ==
    CASE T.kind = "string" -> IsString(v)
      [] T.kind = "number" -> IsNumber(v) \/ v.js = "bigint"
      [] T.kind \in {"boolean", "date", "bigint"} -> v.js = T.kind
      [] T.kind \in {"objectId", "uuid"} -> IsString(v)
      [] T.kind = "array" -> v.js = "array"
      [] T.kind = "map" -> v.js = "object"
      [] T.kind = "union" -> ~(T.sub = "number" /\ v.js = "digits")
      [] OTHER -> TRUE

RECURSIVE ReadsAs(_, _, _)
ReadsAs(T, v, r) ==
    LET default == IF T.default THEN r.js = "default" ELSE r = Undefined
    IN  CASE T.kind = "literal" /\ T.optional /\ v \in {Absent, Undefined, Null} -> default
          [] T.kind = "literal" -> r = IF v = Null /\ T.nullable THEN Null ELSE Literal
          [] v = Null /\ T.nullable -> r = Null
          [] v \in Nothing /\ T.nullable /\ ~T.default -> r = Null
          [] v \in Nothing \cup {Null} -> default
          [] ~Fits(T, v) -> IF T.optional THEN default ELSE r = Undefined
          [] v.js \in {"date", "bigint"} -> r = Value(v.js, Abs(v.n))
          [] T.kind \in {"array", "map"} ->
                r.js = v.js /\ Len(r.items) = Len(v.items)
                /\ \A i \in DOMAIN r.items : ReadsAs(SubType(T), v.items[i], r.items[i])
          [] OTHER -> r = v

(***************************************************************************)
(* Each object of the document is read as it was written, to the depth at  *)
(* which a ring closes; where the document is older than p, p has what the *)
(* schema sets. The exceptions are the code's: the default of a property   *)
(* that is missing is the function itself (bson-jit-parser.ts:331), and    *)
(* when p is missing in one of two nested objects, the flag that it was    *)
(* set is that of the inner one (line 323).                                *)
(***************************************************************************)
ComesBack ==
    step = "done" /\ error = "" =>
        LET T == schema.type
            differ == Reached = {1, 2} /\ Cardinality(missing) = 1
            InLevel(l, r) ==
                IF l \notin missing THEN (differ /\ Sets(T)) \/ ReadsAs(T, object[l].p, r)
                ELSE \/ differ \/ T.default
                     \/ r = IF ~Sets(T) THEN Undefined ELSE IF T.kind = "literal" THEN Literal ELSE Null
        IN  /\ InLevel(1, read[1])
            /\ CASE object[1].next = 2 -> InLevel(2, read[2][1]) /\ read[2][2] = <<>>
                 [] object[1].next = Key /\ schema.reference -> read[2] = <<Value("int", 1)>>
                 [] OTHER -> read[2] = <<>>

(***************************************************************************)
(* Two objects do not share a generated default, such as a new identifier. *)
(* They do when the default comes after the nested object: the serializer  *)
(* takes the one that was generated last, and that was the nested one's.   *)
(***************************************************************************)
DefaultsAreOwn ==
    LET In(es) == {es[i].v : i \in {i \in DOMAIN es : es[i].name = "p" /\ es[i].v.js = "default"}}
    IN  schema.pFirst => \A i \in DOMAIN document : In(document) \cap In(document[i].items) = {}

(* What is written can be read, and is what was written. *)
ValuesSurvive == SizesAgree /\ ComesBack /\ DefaultsAreOwn
=============================================================================
