------------------------------- MODULE Hpack -------------------------------
(***************************************************************************)
(* HTTP/2 header compression, http/hpack.c: the decoder with its dynamic   *)
(* table in a ring of octets, and the encoder's size updates.  Operators   *)
(* from one value of struct brisk__hpack_dec to the next, under the names  *)
(* of the source, and, at the end, the table as RFC 7541 defines it.       *)
(*                                                                         *)
(* A name or a value is a symbol with a length; its octets are the pairs   *)
(* <<symbol, position>>.  A field block is the sequence of its             *)
(* representations:                                                        *)
(*   [t |-> "size", m |-> max]       dynamic table size update             *)
(*   [t |-> "index", i |-> index]    indexed field                         *)
(*   [t |-> "lit", ins |-> BOOLEAN, i |-> index of the name or 0,          *)
(*    n |-> name, v |-> value]       literal, with or without insertion    *)
(***************************************************************************)
EXTENDS Integers, Sequences, SequencesExt

CONSTANTS
    Length,         \* [symbol |-> number of octets]
    Static,         \* the static table, a sequence of [n, v]
    TABLE,          \* BRISK_H2_HEADER_TABLE_SIZE, octets of the ring
    ENTRY_HDR,      \* octets of an entry in the ring besides its name and value
    ENTRY_SIZE,     \* the same in the accounting of RFC 7541 4.1
    TABLE0,         \* the size the peers start with, 4096
    MAX_LIST        \* scratch_cap and max_list, the limits of the caller

ASSUME HpackAssumption ==
    /\ {TABLE, ENTRY_HDR, ENTRY_SIZE, TABLE0, MAX_LIST} \subseteq Nat
    /\ 0 < ENTRY_HDR /\ ENTRY_HDR <= ENTRY_SIZE
    /\ \A x \in DOMAIN Length : Length[x] \in Nat
    /\ Static \in Seq([n : DOMAIN Length, v : DOMAIN Length])

Octets(x) == [k \in 1..Length[x] |-> <<x, k>>]
Symbol(octets) ==
    IF \E x \in DOMAIN Length : Octets(x) = octets
    THEN CHOOSE x \in DOMAIN Length : Octets(x) = octets ELSE "garbage"

hpack_dec_init ==
    [mem |-> [p \in 0..TABLE - 1 |-> <<>>], head |-> 0, used |-> 0, size |-> 0, count |-> 0,
     max |-> IF TABLE < TABLE0 THEN TABLE ELSE TABLE0, need_update |-> TABLE < TABLE0]

-----------------------------------------------------------------------------
(* The ring *)

ring_put(d, pos, octets) ==
    [d EXCEPT !.mem = [p \in DOMAIN @ |->
        LET k == (p - pos) % TABLE IN IF k < Len(octets) THEN octets[k + 1] ELSE @[p]]]
ring_get(d, pos, n) == [k \in 1..n |-> d.mem[(pos + k - 1) % TABLE]]

\* The header of an entry is its two lengths, repeated over its octets.
ring_hdr(d, pos) == d.mem[pos % TABLE]
Header(n, v) == [k \in 1..ENTRY_HDR |-> [nl |-> Length[n], vl |-> Length[v]]]

evict_oldest(d) ==
    LET h    == ring_hdr(d, d.head)
        size == ENTRY_HDR + h.nl + h.vl
    IN  [d EXCEPT !.head = IF d.count = 1 THEN 0 ELSE (@ + size) % TABLE,
                  !.used = @ - size, !.size = @ - (h.nl + h.vl + ENTRY_SIZE), !.count = @ - 1]
evict_above(d, room) == IF d.count > 0 /\ d.size > room THEN evict_oldest(d) ELSE d
evict_to(d, room) ==
    LET after[k \in 0..d.count] == IF k = 0 THEN d ELSE evict_above(after[k - 1], room)
    IN  after[d.count]

\* An entry larger than the table empties it.
put_entry(d, n, v) ==
    LET pos == d.head + d.used
        put == ring_put(d, pos % TABLE, Header(n, v) \o Octets(n) \o Octets(v))
    IN  [put EXCEPT !.used = @ + ENTRY_HDR + Length[n] + Length[v],
                    !.size = @ + Length[n] + Length[v] + ENTRY_SIZE, !.count = @ + 1]
insert(d, n, v) ==
    LET size == Length[n] + Length[v] + ENTRY_SIZE
    IN  IF size > d.max THEN evict_to(d, 0) ELSE put_entry(evict_to(d, d.max - size), n, v)

\* Entry k of the dynamic table, 0 the newest: the walk starts at the oldest.
walk(d, pos) == LET h == ring_hdr(d, pos) IN pos + ENTRY_HDR + h.nl + h.vl
entry_at(d, k) ==
    LET at[j \in 0..d.count] == IF j = 0 THEN d.head ELSE walk(d, at[j - 1])
        pos == at[d.count - 1 - k]
        h   == ring_hdr(d, pos)
    IN  [n |-> Symbol(ring_get(d, pos + ENTRY_HDR, h.nl)),
         v |-> Symbol(ring_get(d, pos + ENTRY_HDR + h.nl, h.vl))]

Found(d, i) == 0 < i /\ i <= Len(Static) + d.count
get_entry(d, i) ==
    IF i <= Len(Static) THEN Static[i] ELSE entry_at(d, i - Len(Static) - 1)

-----------------------------------------------------------------------------
(* Decoding *)

FieldSize(f) == Length[f.n] + Length[f.v] + ENTRY_SIZE

\* x: the decoder, the fields emitted so far, their size, whether one was seen, no error yet.
Failed(x) == [x EXCEPT !.ok = FALSE]
emitted(x, f, ins) ==
    IF f.n = "garbage" \/ f.v = "garbage" THEN Failed([x EXCEPT !.fields = Append(@, f)])
    ELSE IF x.list + FieldSize(f) > MAX_LIST THEN Failed(x)
    ELSE [x EXCEPT !.list = @ + FieldSize(f), !.fields = Append(@, f), !.seen = TRUE,
                   !.d = IF ins THEN insert(@, f.n, f.v) ELSE @]
represented(x, r) ==
    IF ~x.ok THEN x
    ELSE IF r.t = "size"
    THEN IF x.seen \/ r.m > TABLE THEN Failed(x)
         ELSE [x EXCEPT !.d = [evict_to(@, r.m) EXCEPT !.max = r.m, !.need_update = FALSE]]
    ELSE IF x.d.need_update THEN Failed(x)
    ELSE IF r.t = "index"
    THEN IF Found(x.d, r.i) THEN emitted(x, get_entry(x.d, r.i), FALSE) ELSE Failed(x)
    ELSE IF r.i = 0 THEN emitted(x, [n |-> r.n, v |-> r.v], r.ins)
    ELSE IF Found(x.d, r.i) THEN emitted(x, [n |-> get_entry(x.d, r.i).n, v |-> r.v], r.ins)
    ELSE Failed(x)

hpack_decode(d, blk) ==
    LET begun == [d |-> d, fields |-> <<>>, list |-> 0, seen |-> FALSE, ok |-> TRUE]
        after[i \in 0..Len(blk)] == IF i = 0 THEN begun ELSE represented(after[i - 1], blk[i])
        x     == after[Len(blk)]
    IN  IF x.d.need_update THEN Failed(x) ELSE x

-----------------------------------------------------------------------------
(* Encoding: nothing is ever inserted; a lower limit of the peer is signalled once, by 0 *)

hpack_enc_init == [cur |-> TABLE0, pending |-> FALSE]
hpack_enc_peer_max(e, v) == IF v < e.cur THEN [cur |-> 0, pending |-> TRUE] ELSE e

-----------------------------------------------------------------------------
(* The dynamic table of RFC 7541 2.3.2 and 4: entries newest first, and the maximum *)

Table(d) == [k \in 1..d.count |-> entry_at(d, k - 1)]

TableSize(tab) == FoldLeft(LAMBDA size, f : size + FieldSize(f), 0, tab)
Fitting(tab, max) ==
    LET fits == {n \in 0..Len(tab) : TableSize(SubSeq(tab, 1, n)) <= max}
    IN  SubSeq(tab, 1, CHOOSE n \in fits : \A m \in fits : m <= n)
Entry(tab, i) == IF i <= Len(Static) THEN Static[i] ELSE tab[i - Len(Static)]

\* What one representation of the peer's encoder does to its table.
Encoded(ref, r) ==
    IF r.t = "size" THEN [tab |-> Fitting(ref.tab, r.m), max |-> r.m]
    ELSE IF r.t = "lit" /\ r.ins
    THEN LET n == IF r.i = 0 THEN r.n ELSE Entry(ref.tab, r.i).n
         IN  [ref EXCEPT !.tab = Fitting(<<[n |-> n, v |-> r.v]>> \o @, ref.max)]
    ELSE ref

\* The blocks the peer may send: those that name what its table holds.
Sendable(ref, blk) ==
    LET before[k \in 1..Len(blk)] == IF k = 1 THEN ref ELSE Encoded(before[k - 1], blk[k - 1])
    IN  \A k \in 1..Len(blk) :
            blk[k].t # "size" => blk[k].i <= Len(Static) + Len(before[k].tab)
=============================================================================
