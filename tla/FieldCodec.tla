---------------------------- MODULE FieldCodec ----------------------------
(***************************************************************************)
(* How values become parameters of a query and fields of a result become   *)
(* values again: ParamSink (postgresql/params) and FieldView, RowView and  *)
(* ResultBlock (postgresql/result).                                        *)
(*                                                                         *)
(* A value is a record of its C++ type and its content: an integer, a      *)
(* Boolean, a sequence of bytes, or, for char, float and double, the       *)
(* unsigned number its bytes make up.  A byte has Base values (256; the    *)
(* widths in bytes are the code's).  Text is a number in decimals, a word  *)
(* or a sequence of characters; a number in PostgreSQL's binary NUMERIC is *)
(* opaque.                                                                 *)
(***************************************************************************)
EXTENDS Integers, Sequences, FiniteSetsExt

CONSTANT Base

ASSUME BaseAssumption == Base \in Nat \ {0, 1}

Width == [int16_t |-> 2, int32_t |-> 4, int64_t |-> 8, uint16_t |-> 2, uint32_t |-> 4,
          uint64_t |-> 8, float |-> 4, double |-> 8]

Unsigned == {"uint16_t", "uint32_t", "uint64_t"}

Decimal(n) == [k |-> "decimal", n |-> n]
Word(w)    == [k |-> "word", w |-> w]
Bytes(s)   == [k |-> "bytes", s |-> s]
Hex(s)     == [k |-> "hex", s |-> s]
Numeric(n) == [k |-> "numeric", n |-> n]
Nothing    == [k |-> "null"]

Throws == [t |-> "exception"]

\* hton: the bytes of n in network order, modulo what w bytes can hold.
hton(n, w) == [i \in 1..w |-> ((n % Base^w) \div Base^(w - i)) % Base]

ntoh(bytes) == MapThenSumSet(LAMBDA i : bytes[i] * Base^(Len(bytes) - i), DOMAIN bytes)

\* static_cast of an unsigned number to the integer type t.
Cast(u, t) ==
    LET n == u % Base^Width[t]
    IN  IF t \notin Unsigned /\ 2 * n >= Base^Width[t] THEN n - Base^Width[t] ELSE n

----------------------------------------------------------------------------
(* ParamSink::bind_one *)

Binary(bytes, oid) == [value |-> Bytes(bytes), format |-> "binary", oid |-> oid]
Text(text, oid) == [value |-> text, format |-> "text", oid |-> oid]


bind_unsigned(x) ==
    CASE x.t = "uint16_t" -> Binary(hton(x.v, 4), "int4")
      [] x.t = "uint32_t" -> Binary(hton(x.v, 8), "int8")
      [] x.t = "uint64_t" -> Text(Decimal(x.v), "numeric")

bind_signed(x) ==
    CASE x.t = "int16_t" -> Binary(hton(x.v, 2), "int2")
      [] x.t = "int32_t" -> Binary(hton(x.v, 4), "int4")
      [] x.t = "int64_t" -> Binary(hton(x.v, 8), "int8")

bind_floating(x) ==
    CASE x.t = "float"  -> Binary(hton(x.v, 4), "float4")
      [] x.t = "double" -> Binary(hton(x.v, 8), "float8")

\* libpq sends text up to its first zero byte and ignores its length.
c_str(s) == SubSeq(s, 1, Min({i \in DOMAIN s : s[i] = 0} \cup {Len(s) + 1}) - 1)

\* data() of an empty vector is a null pointer, and that is a NULL.
bind_bytes(s) ==
    IF s = <<>> THEN [value |-> Nothing, format |-> "binary", oid |-> "bytea"] ELSE Binary(s, "bytea")

bind_one(x) ==
    CASE x.t = "monostate" -> [value |-> Nothing, format |-> "text", oid |-> "unspecified"]
      [] x.t = "bool" -> Binary(<<IF x.v THEN 1 ELSE 0>>, "bool")
      [] x.t = "char" -> Binary(<<x.v>>, "char")
      [] x.t \in {"int16_t", "int32_t", "int64_t"} -> bind_signed(x)
      [] x.t \in Unsigned -> bind_unsigned(x)
      [] x.t \in {"float", "double"} -> bind_floating(x)
      [] x.t \in {"string", "string_view"} -> Text(Bytes(c_str(x.v)), "text")
      [] x.t \in {"vector", "span"} -> bind_bytes(x.v)

\* push for each argument of execute(query, args...).
push(xs) == [i \in DOMAIN xs |-> bind_one(xs[i])]

\* A value in the text of the query, as a literal cast to its type; only bytes
\* differ, of which there may be none.  (Text with a zero byte would end the
\* statement.)
format_value(x) ==
    IF x.t \in {"vector", "span"} THEN Binary(x.v, "bytea") ELSE bind_one(x)

----------------------------------------------------------------------------
(* The server: SELECT $1, $2, ... in the format asked for *)

IsNumber(oid) == oid \in {"int2", "int4", "int8", "numeric"}

ServerNumber(p) ==
    IF p.oid = "numeric" THEN p.value.n
    ELSE Cast(ntoh(p.value.s), CASE p.oid = "int2" -> "int16_t" [] p.oid = "int4" -> "int32_t"
                                 [] p.oid = "int8" -> "int64_t")

\* The text of a floating-point number is read back exactly: its bits stand
\* for it.
TextOutput(p) ==
    CASE p.value = Nothing -> Nothing
      [] IsNumber(p.oid) -> Decimal(ServerNumber(p))
      [] p.oid = "bool" -> Word(IF p.value.s = <<0>> THEN "f" ELSE "t")
      [] p.oid = "bytea" -> Hex(p.value.s)
      [] p.oid = "char" -> Bytes(SelectSeq(p.value.s, LAMBDA b : b # 0))
      [] p.oid \in {"float4", "float8"} -> Decimal(ntoh(p.value.s))
      [] OTHER -> p.value

Echo(p, format) ==
    [value |-> IF format = "text" THEN TextOutput(p)
               ELSE IF p.oid = "numeric" THEN Numeric(p.value.n) ELSE p.value,
     format |-> format, oid |-> IF p.oid = "unspecified" THEN "text" ELSE p.oid]

----------------------------------------------------------------------------
(* FieldView *)

Value(t, v) == [t |-> t, v |-> v]

BinaryOf(f, oid) == f.format = "binary" /\ f.oid = oid

IntegerRange(t) ==
    IF t \in Unsigned THEN 0 .. (Base^Width[t] - 1)
    ELSE -(Base^Width[t] \div 2) .. (Base^Width[t] \div 2 - 1)

\* std::from_chars takes no sign for an unsigned type and checks the range.
\* Of the binary formats that get here only NUMERIC is meant; its first byte
\* is never a digit.
decode_integer_text(f, t) ==
    IF f.value.k = "decimal" /\ f.value.n \in IntegerRange(t) THEN Value(t, f.value.n) ELSE Throws

decode_bool(f) ==
    Value("bool", IF BinaryOf(f, "bool") THEN f.value.s[1] # 0
                  ELSE f.value \in {Word(w) : w \in {"t", "true", "1", "TRUE", "T"}})

decode_char(f) == Value("char", IF f.value.s = <<>> THEN 0 ELSE f.value.s[1])

decode_signed(f, t) ==
    IF BinaryOf(f, CASE t = "int16_t" -> "int2" [] t = "int32_t" -> "int4" [] t = "int64_t" -> "int8")
    THEN Value(t, Cast(ntoh(f.value.s), t))
    ELSE decode_integer_text(f, t)

\* Columns of the next larger signed type and of the type of the same width;
\* what does not fit is cut off.
decode_unsigned(f, t) ==
    IF \/ t = "uint16_t" /\ (BinaryOf(f, "int4") \/ BinaryOf(f, "int2"))
       \/ t = "uint32_t" /\ (BinaryOf(f, "int8") \/ BinaryOf(f, "int4"))
       \/ t = "uint64_t" /\ BinaryOf(f, "int8")
    THEN Value(t, Cast(ntoh(f.value.s), t))
    ELSE decode_integer_text(f, t)

decode_floating(f, t) ==
    IF BinaryOf(f, IF t = "float" THEN "float4" ELSE "float8") THEN Value(t, ntoh(f.value.s))
    ELSE IF f.value.k = "decimal" THEN Value(t, f.value.n)
    ELSE Throws

decode_string(f, t) == Value(t, f.value.s)

decode_binary_span(f) == IF BinaryOf(f, "bytea") THEN Value("span", f.value.s) ELSE Throws

decode_binary_vector(f) ==
    IF BinaryOf(f, "bytea") \/ f.value.k = "hex" THEN Value("vector", f.value.s) ELSE Throws

is_null(f) == f.value = Nothing

as(f, t) ==
    CASE t = "monostate" -> [t |-> "monostate"]
      [] is_null(f) -> Throws
      [] t = "bool" -> decode_bool(f)
      [] t = "char" -> decode_char(f)
      [] t \in {"int16_t", "int32_t", "int64_t"} -> decode_signed(f, t)
      [] t \in Unsigned -> decode_unsigned(f, t)
      [] t \in {"float", "double"} -> decode_floating(f, t)
      [] t \in {"string", "string_view"} -> decode_string(f, t)
      [] t = "span" -> decode_binary_span(f)
      [] t = "vector" -> decode_binary_vector(f)

\* get_opt and get of a ResultBlock, for a result of one row.
get_opt(row, c, t) == IF is_null(row[c]) THEN Nothing ELSE as(row[c], t)

get(row, c, t) == IF is_null(row[c]) THEN Throws ELSE as(row[c], t)
============================================================================
