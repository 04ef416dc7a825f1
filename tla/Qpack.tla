------------------------------- MODULE Qpack -------------------------------
(***************************************************************************)
(* HTTP/3 field compression, http/qpack.c: the static table only.          *)
(*                                                                         *)
(* A name or a value is a symbol with a length.  A field section is        *)
(* [ric |-> required insert count, sign |-> sign bit, lines |-> field      *)
(* lines]; a field line is one of                                          *)
(*   [t |-> "index",   T |-> static, i, n, v, never]   indexed             *)
(*   [t |-> "nameref", T |-> static, i, n, v, never]   literal, name of i  *)
(*   [t |-> "literal", ...]                            literal name        *)
(*   [t |-> "postbase", ...]                           either post-base form *)
(* with the unused fields at their defaults.                               *)
(***************************************************************************)
EXTENDS Integers, Sequences, SequencesExt

CONSTANTS
    QLength,        \* [symbol |-> number of octets]
    QStatic,        \* the static table, a sequence of [n, v]; index i is QStatic[i + 1]
    ENTRY_SIZE,     \* 32: what a field counts besides its octets
    L               \* BRISK_H3_MAX_HEADER_LIST: scratch_cap and max_list

ASSUME QpackAssumption ==
    /\ {ENTRY_SIZE, L} \subseteq Nat \ {0}
    /\ \A x \in DOMAIN QLength : QLength[x] \in Nat

Line0 == [t |-> "literal", T |-> TRUE, i |-> 0, n |-> "e", v |-> "e", never |-> FALSE]
QP_STATIC_N == Len(QStatic)

-----------------------------------------------------------------------------
(* Decoder.  A field larger than the scratch is larger than the section's limit too. *)

StaticIndex(x) == x.T /\ x.i < QP_STATIC_N
qp_static_get(i) == QStatic[i + 1]

\* The field of one line, or "PROTO" for a reference that names no static entry.
line_field(x) ==
    CASE x.t = "index"   -> IF StaticIndex(x) THEN qp_static_get(x.i) ELSE [n |-> "PROTO", v |-> "e"]
      [] x.t = "nameref" -> IF StaticIndex(x) THEN [n |-> qp_static_get(x.i).n, v |-> x.v]
                            ELSE [n |-> "PROTO", v |-> "e"]
      [] x.t = "literal" -> [n |-> x.n, v |-> x.v]
      [] OTHER           -> [n |-> "PROTO", v |-> "e"]

Decoded0 == [rc |-> "OK", list |-> 0, fields |-> <<>>]
decode_line(o, x) ==
    LET f    == line_field(x)
        size == QLength[f.n] + QLength[f.v] + ENTRY_SIZE
    IN  IF o.rc # "OK" THEN o
        ELSE IF f.n = "PROTO" THEN [o EXCEPT !.rc = "PROTO"]
        ELSE IF o.list + size > L THEN [o EXCEPT !.rc = "LIMIT"]
        ELSE [o EXCEPT !.list = @ + size, !.fields = Append(@, f)]
qpack_decode(sec) ==
    IF sec.ric # 0 \/ sec.sign # 0 THEN [Decoded0 EXCEPT !.rc = "PROTO"]
    ELSE FoldLeft(decode_line, Decoded0, sec.lines)

-----------------------------------------------------------------------------
(* Encoder *)

Exact(f) == {i \in 0..QP_STATIC_N - 1 : qp_static_get(i).n = f.n /\ qp_static_get(i).v = f.v}
Named(f) == {i \in 0..QP_STATIC_N - 1 : qp_static_get(i).n = f.n}
Lowest(S) == CHOOSE i \in S : \A j \in S : i <= j

\* Mutant: an exact match is indexed although the caller marked the field as sensitive.
qp_put_field_indexed(f) ==
    IF Exact(f) # {} THEN [Line0 EXCEPT !.t = "index", !.i = Lowest(Exact(f))]
    ELSE IF Named(f) # {} THEN [Line0 EXCEPT !.t = "nameref", !.i = Lowest(Named(f)), !.v = f.v,
                                             !.never = f.never]
    ELSE [Line0 EXCEPT !.n = f.n, !.v = f.v, !.never = f.never]
qp_put_field(f) ==
    IF Exact(f) # {} /\ ~f.never THEN [Line0 EXCEPT !.t = "index", !.i = Lowest(Exact(f))]
    ELSE IF Named(f) # {} THEN [Line0 EXCEPT !.t = "nameref", !.i = Lowest(Named(f)), !.v = f.v,
                                             !.never = f.never]
    ELSE [Line0 EXCEPT !.n = f.n, !.v = f.v, !.never = f.never]
qpack_encode(fs) == [ric |-> 0, sign |-> 0, lines |-> [i \in DOMAIN fs |-> qp_put_field(fs[i])]]

-----------------------------------------------------------------------------
(* Instruction streams *)

\* The encoder stream may only say Set Dynamic Table Capacity 0.
qpack_enc_stream(ins) == IF ins = "cap0" THEN "OK" ELSE "PROTO"
\* The decoder stream may only say Stream Cancellation; the first octet tells.
qpack_dec_stream(ins) == IF ins = "cancel" THEN "OK" ELSE "PROTO"
=============================================================================
