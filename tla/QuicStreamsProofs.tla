------------------------- MODULE QuicStreamsProofs -------------------------
(* What each operation of QuicStreams does to one slot, and from it the    *)
(* type invariant and the slot reservation, proved for every number of     *)
(* slots, ring size, transport parameter and peer.  The invariant is IInv  *)
(* of QuicStreams.                                                         *)
EXTENDS QuicStreams, SetSums

\* A slot in a legal state; s and t hold the same stream or are both free, and as much, or
\* more, of it was sent.
Good(s) == s \in Stream /\ SlotOK(s) /\ RingsOK(s)

SameSlot(s, t) == t.id = s.id /\ (Has(t, "USED") <=> Has(s, "USED")) /\ t.tx_hi = s.tx_hi

SentMore(s, t) == t.id = s.id /\ (Has(t, "USED") <=> Has(s, "USED")) /\ s.tx_hi <= t.tx_hi

-----------------------------------------------------------------------------
(* Ring positions *)

LEMMA AtValue ==
    ASSUME NEW pos \in Ring, NEW k \in 0..QS_BUF
    PROVE  At(pos, k) = IF pos + k < QS_BUF THEN pos + k ELSE pos + k - QS_BUF
BY TpAssumption DEF At, Ring

LEMMA AtType == \A pos \in Ring, k \in 0..QS_BUF : At(pos, k) \in Ring
BY AtValue, TpAssumption DEF Ring

LEMMA AtInjective ==
    \A pos \in Ring, j, k \in Ring : At(pos, j) = At(pos, k) => j = k
BY AtValue, TpAssumption DEF Ring

\* Moving the head by n shifts every position, the ones past the end come round.
LEMMA AtShift ==
    ASSUME NEW pos \in Ring, NEW n \in 0..QS_BUF, NEW k \in Ring
    PROVE  /\ At(pos, n) \in Ring
           /\ n + k < QS_BUF => n + k \in Ring /\ At(At(pos, n), k) = At(pos, n + k)
           /\ n + k >= QS_BUF => /\ n + k - QS_BUF \in 0..(n - 1)
                                 /\ At(At(pos, n), k) = At(pos, n + k - QS_BUF)
<1>1. At(pos, n) = IF pos + n < QS_BUF THEN pos + n ELSE pos + n - QS_BUF
  BY AtValue
<1>2. At(pos, n) \in Ring
  BY AtType
<1>a. k \in 0..QS_BUF
  BY TpAssumption DEF Ring
<1>3. At(At(pos, n), k) = IF At(pos, n) + k < QS_BUF THEN At(pos, n) + k
                                                   ELSE At(pos, n) + k - QS_BUF
  BY <1>2, <1>a, AtValue
<1>4. ASSUME n + k < QS_BUF
      PROVE  n + k \in Ring /\ At(At(pos, n), k) = At(pos, n + k)
  <2>1. n + k \in Ring /\ n + k \in 0..QS_BUF
    BY <1>4, TpAssumption DEF Ring
  <2>2. At(pos, n + k) = IF pos + (n + k) < QS_BUF THEN pos + (n + k)
                                                   ELSE pos + (n + k) - QS_BUF
    BY <2>1, AtValue
  <2> QED BY <2>1, <2>2, <1>1, <1>3, <1>4, TpAssumption DEF Ring
<1>5. ASSUME n + k >= QS_BUF
      PROVE  /\ n + k - QS_BUF \in 0..(n - 1)
             /\ At(At(pos, n), k) = At(pos, n + k - QS_BUF)
  <2> DEFINE j == n + k - QS_BUF
  <2>1. j \in 0..(n - 1) /\ j \in 0..QS_BUF
    BY <1>5, TpAssumption DEF Ring
  <2>2. At(pos, j) = IF pos + j < QS_BUF THEN pos + j ELSE pos + j - QS_BUF
    BY <2>1, AtValue
  <2> QED BY <2>1, <2>2, <1>1, <1>3, <1>5, TpAssumption DEF Ring
<1> QED BY <1>2, <1>4, <1>5

LEMMA AtSurjective ==
    ASSUME NEW pos \in Ring, NEW p \in Ring
    PROVE  \E k \in Ring : At(pos, k) = p
<1>1. CASE p >= pos
  <2>1. p - pos \in Ring /\ At(pos, p - pos) = p
    BY <1>1, AtValue, TpAssumption DEF Ring
  <2> QED BY <2>1
<1>2. CASE p < pos
  <2>1. p - pos + QS_BUF \in Ring /\ At(pos, p - pos + QS_BUF) = p
    BY <1>2, AtValue, TpAssumption DEF Ring
  <2> QED BY <2>1
<1> QED BY <1>1, <1>2, TpAssumption DEF Ring

-----------------------------------------------------------------------------
(* What each operation does to one slot *)

LEMMA EmptyType == Empty \in [Ring -> NatOrNone] /\ 0 \in Ring
BY TpAssumption DEF Empty, Ring, NatOrNone

LEMMA NewStreamGood ==
    ASSUME NEW id \in StreamIds
    PROVE  Good(NewStream(id)) /\ NewStream(id).id = id /\ Has(NewStream(id), "USED")
<1>1. rx_window(id) \in Nat /\ rx_window(id) <= QS_BUF
  BY TpAssumption DEF rx_window, Limits
<1>2. tx_limit(id) \in Nat
  BY TpAssumption DEF tx_limit, Limits
<1>3. NewStream(id) \in Stream
  BY <1>1, <1>2, EmptyType DEF NewStream, Stream, Flags, NatOrNone
<1>4. SlotOK(NewStream(id))
  BY <1>1, <1>2, TpAssumption DEF NewStream, SlotOK, Final, Has
<1>5. RingsOK(NewStream(id))
  <2>1. \A k \in Ring : Empty[At(0, k)] = QS_NONE
    BY AtType, EmptyType, TpAssumption DEF Empty, Ring
  <2> QED BY <2>1 DEF NewStream, RingsOK
<1> QED BY <1>3, <1>4, <1>5 DEF Good, NewStream, Has

LEMMA FreeSlotGood == Good(FreeSlot) /\ ~Has(FreeSlot, "USED")
<1> DEFINE id0 == [d |-> BIDI, peer |-> FALSE, n |-> 0]
<1>1. id0 \in StreamIds
  BY DEF StreamIds, Dirs
<1>2. Good(NewStream(id0))
  BY <1>1, NewStreamGood
<1>3. FreeSlot \in Stream
  BY <1>2 DEF FreeSlot, Good, Stream, Flags, NatOrNone
<1>4. SlotOK(FreeSlot)
  BY TpAssumption DEF FreeSlot, NewStream, SlotOK, Final, Has
<1>5. RingsOK(FreeSlot)
  BY <1>2 DEF FreeSlot, NewStream, Good, RingsOK, Has
<1> QED BY <1>3, <1>4, <1>5 DEF Good, FreeSlot, NewStream, Has

\* Flags other than USED and RX_ABORT do not matter to a slot's legality.
LEMMA FlagsGood ==
    ASSUME NEW s, Good(s), NEW fs \in SUBSET (Flags \ {"USED", "TX", "RX_ABORT"})
    PROVE  /\ Good(Set(s, fs)) /\ SameSlot(s, Set(s, fs))
           /\ Good(Clear(s, fs)) /\ SameSlot(s, Clear(s, fs))
<1>1. Set(s, fs) \in Stream /\ Clear(s, fs) \in Stream
  BY DEF Good, Set, Clear, Stream
<1>2. SlotOK(Set(s, fs)) /\ SlotOK(Clear(s, fs))
  BY DEF Good, Set, Clear, Stream, SlotOK, Final, Has
<1>3. RingsOK(Set(s, fs)) /\ RingsOK(Clear(s, fs))
  BY DEF Good, Set, Clear, Stream, RingsOK, Has
<1> QED BY <1>1, <1>2, <1>3 DEF Good, SameSlot, Set, Clear, Has, Stream

LEMMA GrowGood ==
    ASSUME NEW s, Good(s), NEW end \in Nat, end <= s.rx_max, Final(s) => end <= s.rx_final
    PROVE  Good(Grow(s, end)) /\ SameSlot(s, Grow(s, end))
<1>1. Grow(s, end) \in Stream /\ SlotOK(Grow(s, end))
  BY DEF Grow, Good, SlotOK, Stream, Final, MaxOf, Has
<1>2. RingsOK(Grow(s, end))
  BY AtType DEF Grow, Good, RingsOK, SlotOK, Stream, MaxOf, Has, Ring, NatOrNone, QS_NONE
<1> QED BY <1>1, <1>2 DEF Good, SameSlot, Grow, Has, Stream

LEMMA FieldTypes ==
    ASSUME NEW s \in Stream
    PROVE  /\ s.id \in StreamIds /\ s.flags \subseteq Flags
           /\ s.rx_read \in Nat /\ s.rx_hi \in Nat /\ s.rx_max \in Nat /\ s.rx_final \in NatOrNone
           /\ s.rx_pos \in Ring /\ s.rx_ring \in [Ring -> NatOrNone]
           /\ s.tx_base \in Nat /\ s.tx_next \in Nat /\ s.tx_len \in Nat /\ s.tx_hi \in Nat
           /\ s.tx_max \in Nat /\ s.tx_pos \in Ring /\ s.tx_ring \in [Ring -> NatOrNone]
           /\ s.ack_lo \in Nat /\ s.ack_hi \in Nat
BY DEF Stream

LEMMA FinalGood ==
    ASSUME NEW s, Good(s), NEW end \in Nat, s.rx_hi <= end
    PROVE  /\ Good([s EXCEPT !.rx_final = end])
           /\ SameSlot(s, [s EXCEPT !.rx_final = end])
<1> DEFINE t == [s EXCEPT !.rx_final = end]
<1>1. t \in Stream /\ SlotOK(t)
  BY DEF Good, SlotOK, Stream, Final, NatOrNone, QS_NONE, Has
<1>2. RingsOK(t)
  BY Zenon DEF Good, RingsOK, Stream, Has
<1> QED BY <1>1, <1>2 DEF Good, SameSlot, Has, Stream

\* The bytes that go into the ring land on positions of their own, within the highest offset.
LEMMA FillGood ==
    ASSUME NEW s, Good(s), NEW off \in Nat, NEW end \in Nat, end <= s.rx_hi,
           ~Has(s, "RX_ABORT")
    PROVE  Good(Fill(s, off, end)) /\ SameSlot(s, Fill(s, off, end))
<1> DEFINE first == MaxOf(off, s.rx_read)
           Into(p) == {o \in first..(end - 1) : At(s.rx_pos, o - s.rx_read) = p}
           new == [p \in Ring |-> IF s.rx_ring[p] # QS_NONE \/ Into(p) = {} THEN s.rx_ring[p]
                                  ELSE CHOOSE o \in Into(p) : TRUE]
           t == Fill(s, off, end)
<1>1. t = [s EXCEPT !.rx_ring = new]
  BY DEF Fill
<1>2. first \in Nat /\ first >= s.rx_read /\ end <= s.rx_read + QS_BUF
  BY TpAssumption DEF Good, SlotOK, Stream, MaxOf
<1>3. \A p \in Ring : new[p] \in NatOrNone
  BY <1>2 DEF Good, Stream, NatOrNone
<1>4. t \in Stream
  BY <1>1, <1>3 DEF Good, Stream
<1>5. SlotOK(t)
  BY <1>1 DEF Good, SlotOK, Stream, Final, Has
<1>6. ASSUME NEW k \in Ring, new[At(s.rx_pos, k)] # s.rx_ring[At(s.rx_pos, k)]
      PROVE  new[At(s.rx_pos, k)] = s.rx_read + k /\ s.rx_read + k < s.rx_hi
  <2> DEFINE p == At(s.rx_pos, k)
  <2>1. k \in 0..QS_BUF /\ s.rx_pos \in Ring
    BY TpAssumption DEF Ring, Good, Stream
  <2>2. p \in Ring
    BY <2>1, AtType
  <2>3. new[p] \in Into(p)
    BY <1>6, <2>2
  <2>a. s.rx_read \in Nat /\ s.rx_hi \in Nat
    BY DEF Good, Stream
  <2> HIDE DEF first, new, p
  <2>4. PICK o \in first..(end - 1) : new[p] = o /\ At(s.rx_pos, o - s.rx_read) = p
    BY <2>3
  <2>5. o \in Nat /\ s.rx_read <= o /\ o < end
    BY <1>2, <2>4, <2>a
  <2>6. o - s.rx_read \in Ring
    BY <1>2, <2>5, <2>a, TpAssumption DEF Ring
  <2>7. o - s.rx_read = k
    BY <2>1, <2>4, <2>6, AtInjective DEF p
  <2>8. o = s.rx_read + k /\ o < s.rx_hi /\ k \in Int
    BY <2>5, <2>7, <2>a, TpAssumption DEF Ring
  <2> QED BY <2>4, <2>8 DEF p
<1>7. RingsOK(t)
  BY <1>1, <1>6, ZenonT(40) DEF Good, Stream, RingsOK, Has
<1> QED BY <1>1, <1>4, <1>5, <1>7, Zenon DEF Good, SameSlot, Has, Stream

\* Reading moves the head; what is left keeps its offsets.
LEMMA DrainedGood ==
    ASSUME NEW s, Good(s), NEW cap \in Nat, NEW n \in 1..QS_BUF, Readable(s, cap, n)
    PROVE  Good(Drained(s, n)) /\ SameSlot(s, Drained(s, n))
<1> DEFINE t == Drained(s, n)
           new == [p \in Ring |-> IF \E k \in 0..(n - 1) : At(s.rx_pos, k) = p
                                  THEN QS_NONE ELSE s.rx_ring[p]]
<1>1. t = [s EXCEPT !.rx_read = @ + n, !.rx_pos = At(@, n), !.rx_ring = new]
  BY DEF Drained, Good, Stream
<1>2. s.rx_pos \in Ring /\ n \in 0..QS_BUF /\ At(s.rx_pos, n) \in Ring
  BY AtType, TpAssumption DEF Good, Stream
<1>a. new \in [Ring -> NatOrNone]
  BY DEF Good, Stream, NatOrNone
<1>b. \A p \in Ring : new[p] = IF \E k \in 0..(n - 1) : At(s.rx_pos, k) = p
                             THEN QS_NONE ELSE s.rx_ring[p]
  OBVIOUS
<1>c. s.rx_read \in Nat /\ s.rx_read + n \in Nat /\ s.rx_hi \in Nat
  BY TpAssumption DEF Good, Stream
<1> HIDE DEF new
<1>3. t \in Stream
  BY <1>1, <1>2, <1>a, <1>c DEF Good, Stream
<1>4. s.rx_read + n <= s.rx_hi
  <2>1. n - 1 \in Ring /\ n - 1 \in 0..(n - 1)
    BY TpAssumption DEF Ring
  <2>2. s.rx_ring[At(s.rx_pos, n - 1)] # QS_NONE
    BY <2>1 DEF Readable
  <2>3. s.rx_read + (n - 1) < s.rx_hi
    BY <2>1, <2>2 DEF Good, RingsOK
  <2> QED BY <2>3, TpAssumption DEF Good, Stream
<1>5. SlotOK(t)
  BY <1>1, <1>4, TpAssumption DEF Good, SlotOK, Stream, Final, Has
<1>6. ASSUME NEW k \in Ring
      PROVE  LET o == new[At(At(s.rx_pos, n), k)] IN
             o = QS_NONE \/ (o = (s.rx_read + n) + k /\ o < s.rx_hi)
  <2>1. CASE n + k < QS_BUF
    <3>1. n + k \in Ring /\ At(At(s.rx_pos, n), k) = At(s.rx_pos, n + k)
      BY <1>2, <2>1, AtShift
    <3>2. At(s.rx_pos, n + k) \in Ring
      BY <3>1, <1>2, AtType, TpAssumption DEF Ring
    <3>3. new[At(s.rx_pos, n + k)] \in {QS_NONE, s.rx_ring[At(s.rx_pos, n + k)]}
      BY <3>2, <1>b
    <3>4. LET o == s.rx_ring[At(s.rx_pos, n + k)] IN
          o = QS_NONE \/ (o = s.rx_read + (n + k) /\ o < s.rx_hi)
      BY <3>1 DEF Good, RingsOK
    <3> QED BY <3>1, <3>3, <3>4, <1>c, TpAssumption DEF Ring
  <2>2. CASE n + k >= QS_BUF
    <3>1. /\ n + k - QS_BUF \in 0..(n - 1)
          /\ At(At(s.rx_pos, n), k) = At(s.rx_pos, n + k - QS_BUF)
      BY <1>2, <2>2, AtShift
    <3>3. k \in 0..QS_BUF
      BY TpAssumption DEF Ring
    <3>2. At(At(s.rx_pos, n), k) \in Ring
      BY <1>2, <3>3, AtType
    <3> QED BY <3>1, <3>2, <1>b
  <2> QED BY <2>1, <2>2, TpAssumption DEF Ring
<1>7. Has(s, "RX_ABORT") => new = Empty
  BY <1>a, <1>b DEF Good, RingsOK, Empty
<1>8. RingsOK(t)
  BY <1>1, <1>6, <1>7 DEF Good, RingsOK, Stream, Has
<1> QED BY <1>1, <1>3, <1>5, <1>8 DEF Good, SameSlot, Has, Stream

LEMMA CreditStreamGood ==
    ASSUME NEW s, Good(s)
    PROVE  Good(CreditStream(s)) /\ SameSlot(s, CreditStream(s))
<1> DEFINE new == s.rx_read + rx_window(s.id)
           t == [s EXCEPT !.rx_max = new]
<1>1. rx_window(s.id) \in Nat /\ rx_window(s.id) <= QS_BUF
  BY TpAssumption DEF rx_window, Limits
<1>2. CASE new > s.rx_max
  <2>1. t \in Stream /\ SlotOK(t)
    BY <1>1, <1>2, TpAssumption DEF Good, SlotOK, Stream, Final, Has
  <2>2. RingsOK(t)
    BY DEF Good, RingsOK, Stream, Has
  <2>3. Good(t) /\ SameSlot(s, t)
    BY <2>1, <2>2 DEF Good, SameSlot, Has, Stream
  <2>4. Good(Set(t, {"MSD_PEND"})) /\ SameSlot(t, Set(t, {"MSD_PEND"}))
    BY <2>3, FlagsGood DEF Flags
  <2> QED BY <2>3, <2>4 DEF CreditStream, SameSlot
<1>3. CASE ~(new > s.rx_max)
  BY <1>3 DEF CreditStream, SameSlot
<1> QED BY <1>2, <1>3

\* An emptied receive ring whose stream was read up to its highest offset.
LEMMA SkipToGood ==
    ASSUME NEW s, Good(s), s.rx_ring = Empty
    PROVE  Good([s EXCEPT !.rx_read = s.rx_hi]) /\ SameSlot(s, [s EXCEPT !.rx_read = s.rx_hi])
<1> DEFINE t == [s EXCEPT !.rx_read = s.rx_hi]
<1>1. t \in Stream /\ SlotOK(t)
  BY TpAssumption DEF Good, SlotOK, Stream, Final, Has
<1>2. \A k \in Ring : Empty[At(s.rx_pos, k)] = QS_NONE
  <2> SUFFICES ASSUME NEW k \in Ring PROVE Empty[At(s.rx_pos, k)] = QS_NONE
    OBVIOUS
  <2>1. k \in 0..QS_BUF /\ s.rx_pos \in Ring
    BY TpAssumption DEF Ring, Good, Stream
  <2> QED BY <2>1, AtType DEF Empty
<1>3. RingsOK(t)
  BY <1>2 DEF Good, RingsOK, Stream, Has
<1> QED BY <1>1, <1>3 DEF Good, SameSlot, Has, Stream

LEMMA DropGood ==
    ASSUME NEW s, Good(s), s.rx_ring = Empty
    PROVE  Good(rx_drop(s)) /\ SameSlot(s, rx_drop(s))
<1> DEFINE t == [s EXCEPT !.rx_read = s.rx_hi]
           u == Set(t, {"RX_DONE"})
<1>1. Good(t) /\ SameSlot(s, t)
  BY SkipToGood
<1>2. Good(u) /\ SameSlot(t, u)
  BY <1>1, FlagsGood DEF Flags
<1>3. Good(Clear(u, {"SS_PEND"})) /\ SameSlot(u, Clear(u, {"SS_PEND"}))
  BY <1>2, FlagsGood DEF Flags
<1> QED BY <1>1, <1>2, <1>3 DEF rx_drop, SameSlot

LEMMA EmptyRingGood ==
    ASSUME NEW s, Good(s)
    PROVE  /\ Good([s EXCEPT !.rx_ring = Empty])
           /\ SameSlot(s, [s EXCEPT !.rx_ring = Empty])
<1> DEFINE t == [s EXCEPT !.rx_ring = Empty]
<1>1. t \in Stream /\ SlotOK(t)
  BY EmptyType DEF Good, SlotOK, Stream, Final, Has
<1>2. \A k \in Ring : Empty[At(s.rx_pos, k)] = QS_NONE
  <2> SUFFICES ASSUME NEW k \in Ring PROVE Empty[At(s.rx_pos, k)] = QS_NONE
    OBVIOUS
  <2>1. k \in 0..QS_BUF /\ s.rx_pos \in Ring
    BY TpAssumption DEF Ring, Good, Stream
  <2> QED BY <2>1, AtType DEF Empty
<1>3. RingsOK(t)
  BY <1>2 DEF Good, RingsOK, Stream, Has
<1> QED BY <1>1, <1>3 DEF Good, SameSlot, Has, Stream

LEMMA AbortTxGood ==
    ASSUME NEW s, Good(s)
    PROVE  Good(AbortTx(s)) /\ SameSlot(s, AbortTx(s))
BY FlagsGood DEF AbortTx, Flags, SameSlot

LEMMA AbortRxGood ==
    ASSUME NEW s, Good(s)
    PROVE  Good(AbortRx(s)) /\ SameSlot(s, AbortRx(s))
<1> DEFINE e == [s EXCEPT !.rx_ring = Empty]
           a == Set(e, {"RX_ABORT"})
           b == IF Has(s, "RX_RESET") \/ (Final(s) /\ s.rx_hi = s.rx_final)
                THEN a ELSE Set(a, {"SS_PEND"})
<1>1. Good(e) /\ SameSlot(s, e)
  BY EmptyRingGood
<1>2. Good(a) /\ SameSlot(e, a) /\ a.rx_ring = Empty
  <2>1. a \in Stream
    BY <1>1 DEF Good, Set, Stream, Flags
  <2>2. SlotOK(a)
    BY <1>1 DEF Good, Set, Stream, SlotOK, Final, Has
  <2>3. RingsOK(a)
    BY <1>1 DEF Good, Set, Stream, RingsOK, Has
  <2> QED BY <1>1, <2>1, <2>2, <2>3 DEF Good, SameSlot, Set, Has, Stream
<1>3. Good(b) /\ SameSlot(a, b) /\ b.rx_ring = Empty
  <2>1. Good(Set(a, {"SS_PEND"})) /\ SameSlot(a, Set(a, {"SS_PEND"}))
    BY <1>2, FlagsGood DEF Flags
  <2>2. Set(a, {"SS_PEND"}).rx_ring = a.rx_ring
    BY <1>2 DEF Set, Good, Stream
  <2> QED BY <1>2, <2>1, <2>2 DEF SameSlot
<1>4. Good(Set(b, {"RX_DONE"})) /\ SameSlot(b, Set(b, {"RX_DONE"}))
  BY <1>3, FlagsGood DEF Flags
<1>5. Good(rx_drop(b)) /\ SameSlot(b, rx_drop(b))
  BY <1>3, DropGood
<1>6. AbortRx(s) = IF Has(s, "RX_RESET") THEN Set(b, {"RX_DONE"}) ELSE rx_drop(b)
  BY <1>1 DEF AbortRx
<1> QED BY <1>1, <1>2, <1>3, <1>4, <1>5, <1>6 DEF SameSlot

\* RESET_STREAM: everything up to the final size counts as read.
LEMMA ResetGood ==
    ASSUME NEW s, Good(s), NEW b \in Nat, s.rx_hi <= b, b <= s.rx_max
    PROVE  LET g == [Grow(s, b) EXCEPT !.rx_final = b]
               r == Set([g EXCEPT !.rx_ring = Empty, !.rx_read = b], {"RX_RESET"})
               t == Clear(Set(r, {"RX_DONE"}), {"SS_PEND"})
           IN  Good(r) /\ SameSlot(s, r) /\ Good(t) /\ SameSlot(s, t)
<1> DEFINE h == [s EXCEPT !.rx_hi = b, !.rx_final = b]
           e == [h EXCEPT !.rx_ring = Empty]
           f == [e EXCEPT !.rx_read = b]
           r == Set(f, {"RX_RESET"})
           d == Set(r, {"RX_DONE"})
<1>0. MaxOf(s.rx_hi, b) = b
  BY DEF MaxOf, Good, Stream
<1>1. [Grow(s, b) EXCEPT !.rx_final = b] = h
  BY <1>0 DEF Grow, Good, Stream
<1>a. [h EXCEPT !.rx_ring = Empty, !.rx_read = b] = f
  BY DEF Good, Stream
<1>2. Good(h) /\ SameSlot(s, h)
  <2>0. h \in Stream
    BY DEF Good, Stream, NatOrNone
  <2>1. SlotOK(h)
    BY TpAssumption DEF Good, SlotOK, Stream, Final, Has
  <2>2. RingsOK(h)
    <3>1. s.rx_hi \in Nat /\ s.rx_read \in Nat /\ h.rx_hi = b /\ h.rx_read = s.rx_read
      BY DEF Good, Stream
    <3>2. h.rx_ring = s.rx_ring /\ h.rx_pos = s.rx_pos /\ h.flags = s.flags
      BY DEF Good, Stream
    <3>3. h.tx_len = s.tx_len /\ h.tx_base = s.tx_base /\ h.tx_ring = s.tx_ring /\ h.tx_pos = s.tx_pos
      BY DEF Good, Stream
    <3>4. \A k \in Ring : LET o == s.rx_ring[At(s.rx_pos, k)] IN
            o = QS_NONE \/ (o = s.rx_read + k /\ o < b)
      BY <3>1, TpAssumption DEF Good, RingsOK, Ring
    <3> QED BY <3>1, <3>2, <3>3, <3>4 DEF Good, RingsOK, Has
  <2> QED BY <2>0, <2>1, <2>2 DEF Good, SameSlot, Has, Stream
<1>3. Good(e) /\ SameSlot(h, e)
  BY <1>2, EmptyRingGood
<1>4. Good(f) /\ SameSlot(e, f)
  <2>1. e.rx_ring = Empty /\ e.rx_hi = b
    BY DEF Good, Stream
  <2> QED BY <1>3, <2>1, SkipToGood
<1>5. Good(r) /\ SameSlot(f, r) /\ Good(d) /\ SameSlot(r, d)
  BY <1>4, FlagsGood DEF Flags
<1>6. Good(Clear(d, {"SS_PEND"})) /\ SameSlot(d, Clear(d, {"SS_PEND"}))
  BY <1>5, FlagsGood DEF Flags
<1> QED BY <1>1, <1>a, <1>2, <1>3, <1>4, <1>5, <1>6 DEF SameSlot

\* What is written goes behind what the send ring still holds.
LEMMA WrittenGood ==
    ASSUME NEW s, Good(s), NEW k \in Nat, k <= QS_BUF - (s.tx_len - s.tx_base),
           NEW fin \in BOOLEAN
    PROVE  Good(Written(s, k, fin)) /\ SameSlot(s, Written(s, k, fin))
<1> DEFINE held == s.tx_len - s.tx_base
           Put(p) == \E j \in 0..(k - 1) : At(s.tx_pos, held + j) = p
           new == [p \in Ring |-> IF Put(p)
                                  THEN s.tx_len + CHOOSE j \in 0..(k - 1) : At(s.tx_pos, held + j) = p
                                  ELSE s.tx_ring[p]]
           t == Written(s, k, fin)
<1>1. t = [s EXCEPT !.tx_len = @ + k, !.tx_ring = new,
                    !.flags = IF fin THEN @ \cup {"TX_FIN"} ELSE @]
  BY DEF Written, Good, Stream
<1>2. /\ s.tx_len \in Nat /\ s.tx_base \in Nat /\ held \in 0..QS_BUF /\ s.tx_pos \in Ring
      /\ held + k <= QS_BUF
  BY TpAssumption DEF Good, SlotOK, Stream
<1>3. new \in [Ring -> NatOrNone]
  BY <1>2 DEF Good, Stream, NatOrNone
<1>4. \A p \in Ring : new[p] = IF Put(p)
                               THEN s.tx_len + CHOOSE j \in 0..(k - 1) : At(s.tx_pos, held + j) = p
                               ELSE s.tx_ring[p]
  OBVIOUS
<1> HIDE DEF new
<1>5. t \in Stream
  <2>1. s.tx_len + k \in Nat
    BY <1>2
  <2>2. (IF fin THEN s.flags \cup {"TX_FIN"} ELSE s.flags) \in SUBSET Flags
    BY DEF Good, Stream, Flags
  <2> QED BY <1>1, <1>3, <2>1, <2>2 DEF Good, Stream
<1>6. SlotOK(t)
  BY <1>1, <1>2, TpAssumption DEF Good, SlotOK, Stream, Final, Has
<1>7. ASSUME NEW x \in 0..(held + k - 1)
      PROVE  new[At(s.tx_pos, x)] = s.tx_base + x
  <2>1. x \in Ring /\ x \in 0..QS_BUF
    BY <1>2, TpAssumption DEF Ring
  <2>2. At(s.tx_pos, x) \in Ring
    BY <1>2, <2>1, AtType
  <2>3. \A j \in 0..(k - 1) : At(s.tx_pos, held + j) = At(s.tx_pos, x) => held + j = x
    <3> SUFFICES ASSUME NEW j \in 0..(k - 1), At(s.tx_pos, held + j) = At(s.tx_pos, x)
                 PROVE  held + j = x
      OBVIOUS
    <3>1. held + j \in Ring
      BY <1>2, TpAssumption DEF Ring
    <3> QED BY <1>2, <2>1, <3>1, AtInjective
  <2>4. CASE x < held
    <3>1. ~Put(At(s.tx_pos, x))
      BY <1>2, <2>3, <2>4
    <3>2. s.tx_ring[At(s.tx_pos, x)] = s.tx_base + x
      BY <1>2, <2>4 DEF Good, RingsOK
    <3> QED BY <1>4, <2>2, <3>1, <3>2
  <2>5. CASE x >= held
    <3>1. x - held \in 0..(k - 1) /\ At(s.tx_pos, held + (x - held)) = At(s.tx_pos, x)
      BY <1>2, <2>5
    <3>2. Put(At(s.tx_pos, x))
      BY <3>1
    <3>3. PICK j \in 0..(k - 1) : /\ At(s.tx_pos, held + j) = At(s.tx_pos, x)
                                  /\ new[At(s.tx_pos, x)] = s.tx_len + j
      BY <1>4, <2>2, <3>2
    <3>4. held + j = x
      BY <2>3, <3>3
    <3> QED BY <1>2, <3>3, <3>4
  <2> QED BY <1>2, <2>4, <2>5
<1>8. RingsOK(t)
  <2>1. /\ t.tx_len = s.tx_len + k /\ t.tx_ring = new
        /\ t.tx_pos = s.tx_pos /\ t.tx_base = s.tx_base
    BY <1>1, <1>2 DEF Good, Stream
  <2>2. t.rx_ring = s.rx_ring /\ t.rx_pos = s.rx_pos /\ t.rx_read = s.rx_read /\ t.rx_hi = s.rx_hi
    BY <1>1 DEF Good, Stream
  <2>3. Has(t, "RX_ABORT") <=> Has(s, "RX_ABORT")
    BY <1>1 DEF Good, Stream, Has
  <2> HIDE DEF t
  <2>4. \A x \in 0..(t.tx_len - t.tx_base - 1) : t.tx_ring[At(t.tx_pos, x)] = t.tx_base + x
    <3> TAKE x \in 0..(t.tx_len - t.tx_base - 1)
    <3>1. x \in 0..(held + k - 1)
      BY <1>2, <2>1
    <3>2. new[At(s.tx_pos, x)] = s.tx_base + x
      BY <3>1, <1>7
    <3> QED BY <2>1, <3>2
  <2> QED BY <2>2, <2>3, <2>4 DEF Good, RingsOK
<1>9. SameSlot(s, t)
  BY <1>1 DEF SameSlot, Has, Good, Stream
<1> QED BY <1>5, <1>6, <1>8, <1>9 DEF Good

\* Only the offset sending resumes from changes.
LEMMA NextGood ==
    ASSUME NEW s, Good(s), NEW next \in Nat, s.tx_base <= next, next <= s.tx_hi
    PROVE  /\ Good([s EXCEPT !.tx_next = next])
           /\ SameSlot(s, [s EXCEPT !.tx_next = next])
<1> DEFINE t == [s EXCEPT !.tx_next = next]
<1>1. t \in Stream /\ SlotOK(t)
  BY DEF Good, SlotOK, Stream, Final, Has
<1>2. RingsOK(t)
  BY DEF Good, RingsOK, Stream, Has
<1> QED BY <1>1, <1>2 DEF Good, SameSlot, Has, Stream

LEMMA RaiseTxMaxGood ==
    ASSUME NEW s, Good(s), NEW a \in Nat
    PROVE  Good(RaiseTxMax(s, a)) /\ SameSlot(s, RaiseTxMax(s, a))
<1> DEFINE t == RaiseTxMax(s, a)
<1>1. t \in Stream /\ SlotOK(t)
  BY DEF RaiseTxMax, MaxOf, Good, SlotOK, Stream, Final, Has
<1>2. RingsOK(t)
  BY DEF RaiseTxMax, Good, RingsOK, Stream, Has
<1> QED BY <1>1, <1>2 DEF Good, SameSlot, RaiseTxMax, Has, Stream

LEMMA SkipAckedGood ==
    ASSUME NEW s, Good(s)
    PROVE  Good(SkipAcked(s)) /\ SameSlot(s, SkipAcked(s)) /\ SkipAcked(s).tx_hi = s.tx_hi
<1>1. /\ s.tx_base \in Nat /\ s.tx_next \in Nat /\ s.ack_lo \in Nat /\ s.ack_hi \in Nat
      /\ s.tx_base <= s.tx_next /\ s.ack_hi <= s.tx_hi
  BY DEF Good, SlotOK, Stream
<1>2. ASSUME s.tx_next < s.ack_hi
      PROVE  Good([s EXCEPT !.tx_next = s.ack_hi]) /\ SameSlot(s, [s EXCEPT !.tx_next = s.ack_hi])
  BY <1>1, <1>2, NextGood
<1>3. SameSlot(s, s)
  BY DEF SameSlot
<1>4. [s EXCEPT !.tx_next = s.ack_hi].tx_hi = s.tx_hi
  BY DEF Good, Stream
<1> QED BY <1>2, <1>3, <1>4 DEF SkipAcked

\* Writing control frames changes flags and the packet numbers that carried them.
LEMMA AfterControlGood ==
    ASSUME NEW i \in Slots, Good(st[i]), tx_pn \in Nat, NEW ctl
    PROVE  LET t == AfterControl(i, ctl) IN
           Good(t) /\ SameSlot(st[i], t) /\ t.tx_hi = st[i].tx_hi
<1> DEFINE s == st[i]
           Sent(k) == <<k, i>> \in ctl
           gone == (IF Sent("RESET") THEN {"RST_PEND"} ELSE {})
                   \cup (IF Sent("STOP") THEN {"SS_PEND"} ELSE {})
                   \cup (IF Sent("MSD") \/ MsdMoot(s) THEN {"MSD_PEND"} ELSE {})
           u == Clear(s, gone)
           rp == IF Sent("RESET") THEN tx_pn ELSE s.reset_pn
           sp == IF Sent("STOP") THEN tx_pn ELSE s.ss_pn
           mp == IF Sent("MSD") THEN tx_pn ELSE s.msd_pn
           t == [u EXCEPT !.reset_pn = rp, !.ss_pn = sp, !.msd_pn = mp]
<1>1. gone \in SUBSET (Flags \ {"USED", "TX", "RX_ABORT"})
  BY DEF Flags
<1> HIDE DEF gone
<1>2. Good(u) /\ SameSlot(s, u)
  BY <1>1, FlagsGood
<1>3. rp \in NatOrNone /\ sp \in NatOrNone /\ mp \in NatOrNone
  BY DEF Good, Stream, NatOrNone
<1>4. AfterControl(i, ctl) = t
  BY DEF AfterControl, Clear, gone, Good, Stream
<1>5. u.tx_hi = s.tx_hi
  BY DEF Clear, Good, Stream
<1> HIDE DEF u, rp, sp, mp
<1>6. t \in Stream /\ SlotOK(t)
  BY <1>2, <1>3 DEF Good, SlotOK, Stream, Final, Has
<1>7. RingsOK(t)
  BY <1>2 DEF Good, RingsOK, Stream, Has
<1>8. SameSlot(u, t) /\ t.tx_hi = u.tx_hi
  BY <1>2 DEF SameSlot, Has, Good, Stream
<1> QED BY <1>2, <1>4, <1>5, <1>6, <1>7, <1>8 DEF Good, SameSlot

\* One STREAM frame of n bytes, no more than may go out.
LEMMA AvailBound ==
    ASSUME NEW s, Good(s), max_data_tx \in Nat, sent_tx \in Nat, sent_tx <= max_data_tx
    PROVE  /\ Avail(s) \in Nat
           /\ s.tx_next + Avail(s) <= MaxOf(s.tx_next, MinOf(s.tx_len, s.tx_max))
           /\ Avail(s) <= MaxOf(s.tx_hi - s.tx_next, 0) + (max_data_tx - sent_tx)
BY DEF Avail, HasRange, MinOf, MaxOf, Good, SlotOK, Stream

LEMMA AfterDataGood ==
    ASSUME NEW s, Good(s), max_data_tx \in Nat, sent_tx \in Nat, sent_tx <= max_data_tx,
           NEW n \in Nat, n <= Avail(s), NEW fin \in BOOLEAN
    PROVE  /\ Good(AfterData(s, n, fin)) /\ SentMore(s, AfterData(s, n, fin))
           /\ s.tx_next + n <= AfterData(s, n, fin).tx_hi
           /\ AfterData(s, n, fin).tx_hi = MaxOf(s.tx_hi, s.tx_next + n)
           /\ MaxOf(s.tx_hi, s.tx_next + n) - s.tx_hi \in Nat
           /\ sent_tx + (MaxOf(s.tx_hi, s.tx_next + n) - s.tx_hi) <= max_data_tx
<1> DEFINE t == AfterData(s, n, fin)
           hi == MaxOf(s.tx_hi, s.tx_next + n)
           fs == IF fin THEN s.flags \cup {"FIN_SENT"} ELSE s.flags
<1>1. /\ s.tx_next \in Nat /\ s.tx_hi \in Nat /\ s.tx_len \in Nat /\ s.tx_max \in Nat
      /\ s.tx_base \in Nat /\ s.tx_base <= s.tx_next
      /\ s.tx_next <= s.tx_hi /\ s.tx_hi <= s.tx_len /\ s.tx_hi <= s.tx_max
  BY DEF Good, SlotOK, Stream
<1>2. /\ Avail(s) \in Nat
      /\ s.tx_next + n <= MaxOf(s.tx_next, MinOf(s.tx_len, s.tx_max))
      /\ n <= MaxOf(s.tx_hi - s.tx_next, 0) + (max_data_tx - sent_tx)
  BY <1>1, AvailBound DEF MaxOf, MinOf
<1>3. /\ hi \in Nat /\ s.tx_hi <= hi /\ s.tx_next + n <= hi /\ s.tx_next + n \in Nat
      /\ hi <= s.tx_len /\ hi <= s.tx_max /\ hi - s.tx_hi \in Nat
      /\ sent_tx + (hi - s.tx_hi) <= max_data_tx
  BY <1>1, <1>2 DEF MaxOf, MinOf
<1>4. t = [s EXCEPT !.tx_next = s.tx_next + n, !.tx_hi = hi, !.flags = fs]
  BY DEF AfterData, Good, Stream
<1>5. fs \in SUBSET Flags /\ ("USED" \in fs <=> "USED" \in s.flags)
                          /\ ("RX_ABORT" \in fs <=> "RX_ABORT" \in s.flags)
                          /\ ("TX" \in fs <=> "TX" \in s.flags)
  BY DEF Good, Stream, Flags
<1> HIDE DEF t, hi, fs
<1>6. t \in Stream
  BY <1>3, <1>4, <1>5 DEF Good, Stream
<1>7. SlotOK(t)
  BY <1>1, <1>3, <1>4, <1>5 DEF Good, Stream, SlotOK, Final, Has
<1>8. RingsOK(t)
  BY <1>4, <1>5 DEF Good, Stream, RingsOK, Has
<1>9. SentMore(s, t) /\ t.tx_hi = hi
  BY <1>3, <1>4, <1>5 DEF SentMore, Has, Good, Stream
<1> QED BY <1>3, <1>6, <1>7, <1>8, <1>9 DEF Good, t, hi

\* The acknowledged prefix moves: the bytes kept hold their positions.
LEMMA AdvanceGood ==
    ASSUME NEW s, Good(s), NEW to \in Nat, to <= s.tx_hi
    PROVE  LET t == tx_advance(s, to) IN
           /\ Good(t) /\ SameSlot(s, t) /\ t.tx_hi = s.tx_hi /\ t.tx_base >= to
<1>1. CASE to <= s.tx_base
  <2>1. s.tx_base \in Nat
    BY DEF Good, Stream
  <2>2. tx_advance(s, to) = s
    BY <1>1, <2>1 DEF tx_advance
  <2> QED BY <1>1, <2>2 DEF SameSlot
<1>2. CASE to > s.tx_base
  <2> DEFINE n == to - s.tx_base
             held == s.tx_len - s.tx_base
             Gone(p) == \E k \in 0..(n - 1) : At(s.tx_pos, k) = p
             new == [p \in Ring |-> IF Gone(p) THEN QS_NONE ELSE s.tx_ring[p]]
             next == MaxOf(s.tx_next, to)
             pos == At(s.tx_pos, n)
             t == [s EXCEPT !.tx_base = to, !.tx_pos = pos, !.tx_next = next, !.tx_ring = new]
  <2>1. /\ s.tx_base \in Nat /\ s.tx_len \in Nat /\ s.tx_hi \in Nat /\ s.tx_next \in Nat
        /\ s.tx_next <= s.tx_hi /\ s.tx_hi <= s.tx_len /\ held <= QS_BUF /\ s.tx_pos \in Ring
    BY TpAssumption DEF Good, SlotOK, Stream
  <2>2. n \in 1..held /\ n \in 0..QS_BUF /\ held \in 0..QS_BUF /\ n > 0
    BY <1>2, <2>1, TpAssumption
  <2>3. tx_advance(s, to) = t
    BY <1>2, <2>1 DEF tx_advance, Good, Stream
  <2>4. pos \in Ring
    BY <2>1, <2>2, AtType
  <2>5. new \in [Ring -> NatOrNone]
    BY DEF Good, Stream, NatOrNone
  <2>6. \A p \in Ring : new[p] = IF Gone(p) THEN QS_NONE ELSE s.tx_ring[p]
    OBVIOUS
  <2>7. next \in Nat /\ to <= next /\ next <= s.tx_hi
    BY <2>1 DEF MaxOf
  <2>8. \A x \in 0..(held - n - 1) : new[At(pos, x)] = to + x
    <3> TAKE x \in 0..(held - n - 1)
    <3>1. x \in Ring /\ n + x < QS_BUF /\ n + x \in 0..(held - 1) /\ n + x \in 0..QS_BUF
      BY <2>2, TpAssumption DEF Ring
    <3>2. n + x \in Ring /\ At(pos, x) = At(s.tx_pos, n + x)
      BY <2>1, <2>2, <3>1, AtShift
    <3>3. At(s.tx_pos, n + x) \in Ring
      BY <2>1, <3>1, AtType
    <3>4. ~Gone(At(s.tx_pos, n + x))
      <4> SUFFICES ASSUME NEW k \in 0..(n - 1), At(s.tx_pos, k) = At(s.tx_pos, n + x)
                   PROVE  FALSE
        OBVIOUS
      <4>1. k \in Ring
        BY <2>2, TpAssumption DEF Ring
      <4>2. k = n + x
        BY <2>1, <3>2, <4>1, AtInjective
      <4> QED BY <2>2, <3>1, <4>2
    <3>5. s.tx_ring[At(s.tx_pos, n + x)] = s.tx_base + (n + x)
      BY <3>1 DEF Good, RingsOK
    <3>6. s.tx_base + (n + x) = to + x
      BY <2>1, <2>2
    <3> HIDE DEF new, pos
    <3> QED BY <2>6, <3>2, <3>3, <3>4, <3>5, <3>6
  <2> HIDE DEF new, pos, next
  <2>a. t \in Stream
    BY <2>4, <2>5, <2>7 DEF Good, Stream
  <2>b. /\ t.tx_base = to /\ t.tx_next = next /\ t.tx_hi = s.tx_hi /\ t.tx_len = s.tx_len
        /\ t.tx_max = s.tx_max /\ t.ack_lo = s.ack_lo /\ t.ack_hi = s.ack_hi
        /\ t.rx_read = s.rx_read /\ t.rx_hi = s.rx_hi /\ t.rx_max = s.rx_max
        /\ t.rx_final = s.rx_final /\ t.flags = s.flags
    BY DEF Good, Stream
  <2>9. SlotOK(t)
    <3> HIDE DEF t
    <3>1. s.tx_len <= to + QS_BUF
      BY <1>2, <2>1, TpAssumption
    <3> QED BY <2>b, <2>7, <3>1 DEF Good, SlotOK, Final, Has
  <2>10. RingsOK(t)
    <3>1. /\ t.tx_len - t.tx_base = held - n /\ t.tx_ring = new
          /\ t.tx_pos = pos /\ t.tx_base = to
      BY <2>1 DEF Good, Stream
    <3>2. t.rx_ring = s.rx_ring /\ t.rx_pos = s.rx_pos /\ t.rx_read = s.rx_read /\ t.rx_hi = s.rx_hi
      BY DEF Good, Stream
    <3>3. Has(t, "RX_ABORT") <=> Has(s, "RX_ABORT")
      BY DEF Good, Stream, Has
    <3> HIDE DEF t, held, n
    <3>4. \A x \in 0..(t.tx_len - t.tx_base - 1) : t.tx_ring[At(t.tx_pos, x)] = t.tx_base + x
      <4> TAKE x \in 0..(t.tx_len - t.tx_base - 1)
      <4>1. x \in 0..(held - n - 1)
        BY <3>1
      <4>2. new[At(pos, x)] = to + x
        BY <4>1, <2>8
      <4> QED BY <3>1, <4>2
    <3> QED BY <3>2, <3>3, <3>4 DEF Good, RingsOK
  <2>11. SameSlot(s, t) /\ t.tx_hi = s.tx_hi /\ t.tx_base = to
    BY DEF SameSlot, Has, Good, Stream
  <2> QED BY <2>3, <2>a, <2>9, <2>10, <2>11 DEF Good
<1> QED BY <1>1, <1>2 DEF Good, Stream

\* The acknowledged range above the prefix is lo..hi-1.
Ranged(s, lo, hi) == [s EXCEPT !.ack_lo = lo, !.ack_hi = hi]

LEMMA RangedGood ==
    ASSUME NEW s, Good(s), NEW lo \in Nat, NEW hi \in Nat, lo <= hi, hi <= s.tx_hi
    PROVE  /\ Good(Ranged(s, lo, hi)) /\ SameSlot(s, Ranged(s, lo, hi))
           /\ Ranged(s, lo, hi).tx_hi = s.tx_hi
<1> DEFINE t == Ranged(s, lo, hi)
<1>1. t \in Stream /\ t.tx_hi = s.tx_hi
  BY DEF Ranged, Good, Stream
<1>2. SlotOK(t)
  BY DEF Ranged, Good, SlotOK, Stream, Final, Has
<1>3. RingsOK(t)
  BY DEF Ranged, Good, RingsOK, Stream, Has
<1> QED BY <1>1, <1>2, <1>3 DEF Ranged, Good, SameSlot, Has, Stream

\* An acknowledgement of bytes the stream sent.
LEMMA AckBytesGood ==
    ASSUME NEW s, Good(s), NEW off \in Nat, NEW end \in Nat, off <= end, end <= s.tx_hi
    PROVE  LET t == AckBytes(s, off, end) IN
           Good(t) /\ SameSlot(s, t) /\ t.tx_hi = s.tx_hi
<1>1. /\ s.tx_base \in Nat /\ s.tx_next \in Nat /\ s.tx_hi \in Nat
      /\ s.ack_lo \in Nat /\ s.ack_hi \in Nat
      /\ s.tx_base <= s.tx_next /\ s.tx_next <= s.tx_hi /\ s.ack_lo <= s.ack_hi /\ s.ack_hi <= s.tx_hi
  BY DEF Good, SlotOK, Stream
<1>2. CASE off <= s.tx_base
  BY <1>2, AdvanceGood DEF AckBytes
<1>3. CASE off > s.tx_base /\ ~HasRange(s)
  <2>1. AckBytes(s, off, end) = Ranged(s, off, end)
    BY <1>1, <1>3 DEF AckBytes, Ranged
  <2> QED BY <2>1, RangedGood
<1>4. CASE off > s.tx_base /\ HasRange(s) /\ off <= s.ack_hi /\ end >= s.ack_lo
  <2>1. /\ MinOf(s.ack_lo, off) \in Nat /\ MaxOf(s.ack_hi, end) \in Nat
        /\ MinOf(s.ack_lo, off) <= MaxOf(s.ack_hi, end) /\ MaxOf(s.ack_hi, end) <= s.tx_hi
    BY <1>1 DEF MinOf, MaxOf
  <2>2. AckBytes(s, off, end) = [s EXCEPT !.ack_lo = MinOf(@, off), !.ack_hi = MaxOf(@, end)]
    BY <1>1, <1>4 DEF AckBytes
  <2>3. [s EXCEPT !.ack_lo = MinOf(@, off), !.ack_hi = MaxOf(@, end)]
          = Ranged(s, MinOf(s.ack_lo, off), MaxOf(s.ack_hi, end))
    <3> DEFINE a == MinOf(s.ack_lo, off)
               b == MaxOf(s.ack_hi, end)
    <3>1. [s EXCEPT !.ack_lo = a, !.ack_hi = b] = Ranged(s, a, b)
      BY DEF Ranged
    <3> QED BY <3>1 DEF Good, Stream
  <2> QED BY <2>1, <2>2, <2>3, RangedGood
<1>5. CASE off > s.tx_base /\ HasRange(s) /\ ~(off <= s.ack_hi /\ end >= s.ack_lo)
  <2> DEFINE next == MinOf(s.tx_next, off)
  <2>1. next \in Nat /\ s.tx_base <= next /\ next <= s.tx_hi
    BY <1>1, <1>5 DEF MinOf
  <2>2. AckBytes(s, off, end) = [s EXCEPT !.tx_next = next]
    BY <1>1, <1>5 DEF AckBytes, Good, Stream
  <2>3. [s EXCEPT !.tx_next = next].tx_hi = s.tx_hi
    BY DEF Good, Stream
  <2> HIDE DEF next
  <2> QED BY <2>1, <2>2, <2>3, NextGood
<1> QED BY <1>1, <1>2, <1>3, <1>4, <1>5

LEMMA JoinRangeGood ==
    ASSUME NEW s, Good(s)
    PROVE  LET t == JoinRange(s) IN Good(t) /\ SameSlot(s, t) /\ t.tx_hi = s.tx_hi
<1>1. s.ack_hi \in Nat /\ s.ack_hi <= s.tx_hi /\ 0 <= s.tx_hi /\ 0 \in Nat /\ 0 <= 0
  BY DEF Good, SlotOK, Stream
<1> DEFINE u == tx_advance(s, s.ack_hi)
<1>2. Good(u) /\ SameSlot(s, u) /\ u.tx_hi = s.tx_hi
  BY <1>1, AdvanceGood
<1>3. JoinRange(s) = IF HasRange(s) /\ s.ack_lo <= s.tx_base THEN Ranged(u, 0, 0) ELSE s
  BY DEF JoinRange, Ranged
<1> HIDE DEF u
<1>4. Good(Ranged(u, 0, 0)) /\ SameSlot(u, Ranged(u, 0, 0)) /\ Ranged(u, 0, 0).tx_hi = u.tx_hi
  BY <1>1, <1>2, RangedGood
<1> QED BY <1>2, <1>3, <1>4 DEF SameSlot

LEMMA FlagsKeepHi ==
    ASSUME NEW s, Good(s), NEW fs
    PROVE  /\ Set(s, fs).tx_hi = s.tx_hi /\ Set(s, fs).tx_base = s.tx_base
           /\ Set(s, fs).id = s.id
BY DEF Set, Good, Stream

LEMMA AckDataGood ==
    ASSUME NEW s, Good(s), NEW r \in Records, r.off + r.len <= s.tx_hi
    PROVE  LET t == AckData(s, r) IN Good(t) /\ SameSlot(s, t) /\ t.tx_hi = s.tx_hi
<1> DEFINE u == IF r.fin THEN Set(s, {"FIN_ACKED"}) ELSE s
           v == AckBytes(u, r.off, r.off + r.len)
<1>1. r.off \in Nat /\ r.len \in Nat /\ r.off + r.len \in Nat /\ r.off <= r.off + r.len
  BY DEF Records
<1>2. Good(u) /\ SameSlot(s, u) /\ u.tx_hi = s.tx_hi
  BY FlagsGood, FlagsKeepHi DEF Flags, SameSlot
<1> HIDE DEF u
<1>3. Good(v) /\ SameSlot(u, v) /\ v.tx_hi = u.tx_hi
  BY <1>1, <1>2, AckBytesGood
<1> HIDE DEF v
<1>4. LET t == JoinRange(v) IN Good(t) /\ SameSlot(v, t) /\ t.tx_hi = v.tx_hi
  BY <1>3, JoinRangeGood
<1>5. AckData(s, r) = JoinRange(v)
  BY DEF AckData, u, v
<1> QED BY <1>2, <1>3, <1>4, <1>5 DEF SameSlot

LEMMA LoseDataGood ==
    ASSUME NEW s, Good(s), NEW r \in Records
    PROVE  LET t == LoseData(s, r) IN Good(t) /\ SameSlot(s, t) /\ t.tx_hi = s.tx_hi
<1> DEFINE next == IF r.off < s.tx_next THEN MaxOf(r.off, s.tx_base) ELSE s.tx_next
           u == [s EXCEPT !.tx_next = next]
<1>1. next \in Nat /\ s.tx_base <= next /\ next <= s.tx_hi
  BY DEF Good, SlotOK, Stream, Records, MaxOf
<1> HIDE DEF next
<1>2. Good(u) /\ SameSlot(s, u)
  BY <1>1, NextGood
<1>3. u.tx_hi = s.tx_hi
  BY DEF Good, Stream
<1>4. LET t == Clear(u, {"FIN_SENT"}) IN Good(t) /\ SameSlot(u, t) /\ t.tx_hi = u.tx_hi
  BY <1>2, FlagsGood DEF Flags, Clear, Good, Stream
<1>5. LoseData(s, r) \in {s, u, Clear(u, {"FIN_SENT"})}
  BY DEF LoseData, Clear, next, Good, Stream
<1> HIDE DEF u
<1> QED BY <1>2, <1>3, <1>4, <1>5 DEF SameSlot

LEMMA AfterRecordGood ==
    ASSUME NEW i \in Slots, Good(st[i]), NEW r \in Records, NEW acked \in BOOLEAN,
           r.slot = i => r.off + r.len <= st[i].tx_hi
    PROVE  LET t == AfterRecord(i, r, acked) IN
           Good(t) /\ SameSlot(st[i], t) /\ t.tx_hi = st[i].tx_hi
<1> DEFINE s == st[i]
           d == IF r.slot # i THEN s ELSE IF acked THEN AckData(s, r) ELSE LoseData(s, r)
<1>1. Good(d) /\ SameSlot(s, d) /\ d.tx_hi = s.tx_hi
  BY AckDataGood, LoseDataGood DEF SameSlot
<1> HIDE DEF d
<1>2. ASSUME NEW fs \in SUBSET {"RST_PEND", "MSD_PEND", "SS_PEND", "RST_ACKED"}
      PROVE  Good(Set(d, fs)) /\ SameSlot(d, Set(d, fs)) /\ Set(d, fs).tx_hi = d.tx_hi
  <2>1. fs \in SUBSET (Flags \ {"USED", "TX", "RX_ABORT"})
    BY DEF Flags
  <2> QED BY <1>1, <2>1, FlagsGood, FlagsKeepHi
<1>3. \E fs \in SUBSET {"RST_PEND", "MSD_PEND", "SS_PEND", "RST_ACKED"} :
        AfterRecord(i, r, acked) \in {s, d, Set(d, fs)}
  <2> DEFINE Carried(k, pn) == k \in r.ctl /\ pn = r.pn
             final == Final(d) /\ d.rx_hi = d.rx_final
             Again(k) ==
               CASE k = "RST_PEND" -> Carried("RESET", d.reset_pn) /\ ~Has(d, "RST_ACKED")
                 [] k = "MSD_PEND" -> Carried("MSD", d.msd_pn)
                 [] k = "SS_PEND"  -> /\ Carried("STOP", d.ss_pn) /\ Has(d, "RX_ABORT")
                                      /\ ~Has(d, "RX_DONE") /\ ~Has(d, "RX_RESET") /\ ~final
             fs == {k \in {"RST_PEND", "MSD_PEND", "SS_PEND"} : Again(k)}
  <2>1. AfterRecord(i, r, acked) \in {s, d, Set(d, {"RST_ACKED"}), Set(d, fs)}
    BY DEF AfterRecord, d
  <2>2. fs \in SUBSET {"RST_PEND", "MSD_PEND", "SS_PEND", "RST_ACKED"}
    OBVIOUS
  <2> HIDE DEF fs
  <2> QED BY <2>1, <2>2
<1> QED BY <1>1, <1>2, <1>3 DEF SameSlot

-----------------------------------------------------------------------------
(* The table of slots *)

\* A table of legal slots; t holds the streams of `slots` and has sent as much or more of each.
AllGood(slots) == slots \in [Slots -> Stream] /\ \A i \in Slots : Good(slots[i])

SameTable(slots, t) == \A i \in Slots : SentMore(slots[i], t[i])

RecsOK(records, slots) == records \subseteq Records /\ \A r \in records : RecordOK(r, slots)

-----------------------------------------------------------------------------
(* Slot tables *)

LEMMA SlotsFinite == IsFiniteSet(Slots) /\ Cardinality(Slots) = QS_N
BY TpAssumption, FS_Interval DEF Slots

LEMMA FreeFinite ==
    ASSUME NEW slots
    PROVE  /\ free_slots(slots) \subseteq Slots /\ IsFiniteSet(free_slots(slots))
           /\ Cardinality(free_slots(slots)) \in Nat
<1>1. free_slots(slots) \subseteq Slots
  BY DEF free_slots
<1> QED BY <1>1, SlotsFinite, FS_Subset, FS_CardinalityType

LEMMA OneSlot ==
    ASSUME NEW slots, AllGood(slots), NEW i \in Slots, NEW t, Good(t), SentMore(slots[i], t)
    PROVE  AllGood([slots EXCEPT ![i] = t]) /\ SameTable(slots, [slots EXCEPT ![i] = t])
<1>1. \A j \in Slots : [slots EXCEPT ![i] = t][j] = IF j = i THEN t ELSE slots[j]
  BY DEF AllGood
<1>2. \A j \in Slots : slots[j].tx_hi <= slots[j].tx_hi
  BY DEF AllGood, Good, Stream
<1>3. [slots EXCEPT ![i] = t] \in [Slots -> Stream]
  BY DEF AllGood, Good
<1> QED BY <1>1, <1>2, <1>3 DEF AllGood, SameTable, SentMore

LEMMA SameUsed ==
    ASSUME NEW slots, NEW t, SameTable(slots, t)
    PROVE  Used(t) = Used(slots) /\ free_slots(t) = free_slots(slots)
BY DEF SameTable, SentMore, Used, free_slots

LEMMA SameBacked ==
    ASSUME NEW slots, NEW t, SameTable(slots, t), NEW opened, NEW allowed,
           Backed(slots, opened, allowed)
    PROVE  Backed(t, opened, allowed)
BY SameUsed DEF Backed

LEMMA SameRecords ==
    ASSUME NEW slots, NEW t, AllGood(slots), AllGood(t), SameTable(slots, t),
           NEW records, RecsOK(records, slots)
    PROVE  RecsOK(records, t)
<1> SUFFICES ASSUME NEW r \in records, r.slot # NoSlot
             PROVE  /\ Has(t[r.slot], "USED") /\ t[r.slot].id = r.id
                    /\ r.off + r.len <= t[r.slot].tx_hi
  BY DEF RecsOK, RecordOK
<1>1. r.slot \in Slots /\ r.off \in Nat /\ r.len \in Nat
  BY DEF RecsOK, Records
<1>2. /\ Has(slots[r.slot], "USED") /\ slots[r.slot].id = r.id
      /\ r.off + r.len <= slots[r.slot].tx_hi
  BY DEF RecsOK, RecordOK
<1>3. SentMore(slots[r.slot], t[r.slot])
  BY <1>1 DEF SameTable
<1>4. slots[r.slot].tx_hi \in Nat /\ t[r.slot].tx_hi \in Nat
  BY <1>1 DEF AllGood, Stream
<1> QED BY <1>1, <1>2, <1>3, <1>4 DEF SentMore

\* A finished stream gives back its slot, and one stream of credit if the peer opened it.
LEMMA MaybeFreeGood ==
    ASSUME NEW slots, AllGood(slots), NEW T, NEW records, RecsOK(records, slots), NEW owed,
           NEW opened \in [Dirs -> Nat], Backed(slots, opened, my_max_streams),
           my_max_streams \in [Dirs -> Nat], ms_pend \in [Dirs -> BOOLEAN],
           maybe_free(slots, T, records, owed)
    PROVE  /\ AllGood(st') /\ RecsOK(rec', st')
           /\ my_max_streams' \in [Dirs -> Nat] /\ ms_pend' \in [Dirs -> BOOLEAN]
           /\ Backed(st', opened, my_max_streams')
<1> DEFINE F == Freed(slots, T)
           P(d) == PeerOnes(slots, F, d)
<1>1. /\ st' = [i \in Slots |-> IF i \in F THEN FreeSlot ELSE slots[i]]
      /\ my_max_streams' = [d \in Dirs |-> my_max_streams[d] + Cardinality(P(d))]
      /\ ms_pend' = [d \in Dirs |-> ms_pend[d] \/ d \in owed \/ P(d) # {}]
      /\ rec' = {[r EXCEPT !.slot = IF @ \in F THEN NoSlot ELSE @] : r \in records}
  BY DEF maybe_free, Detached
<1>2. F \subseteq Used(slots) /\ F \subseteq Slots /\ IsFiniteSet(F)
  <2>1. F \subseteq Used(slots) /\ F \subseteq Slots
    BY DEF Freed, Used
  <2> QED BY <2>1, SlotsFinite, FS_Subset
<1>3. \A d : P(d) \subseteq F /\ IsFiniteSet(P(d)) /\ Cardinality(P(d)) \in Nat
  <2>1. \A d : P(d) \subseteq F
    BY DEF PeerOnes
  <2> QED BY <1>2, <2>1, FS_Subset, FS_CardinalityType
<1>4. Cardinality(P(BIDI)) + Cardinality(P(UNI)) <= Cardinality(F)
  <2>1. P(BIDI) \cap P(UNI) = {}
    BY DEF PeerOnes, BIDI, UNI
  <2>2. Cardinality(P(BIDI) \cup P(UNI)) = Cardinality(P(BIDI)) + Cardinality(P(UNI))
    BY <1>3, <2>1, FS_Union, FS_EmptySet
  <2>3. P(BIDI) \cup P(UNI) \subseteq F
    BY <1>3
  <2> QED BY <1>2, <2>2, <2>3, FS_Subset
<1> HIDE DEF F, P
<1>5. AllGood(st')
  BY <1>1, FreeSlotGood DEF AllGood, Good
<1>6. free_slots(st') = free_slots(slots) \cup F
  BY <1>1, <1>2, FreeSlotGood DEF free_slots, Used
<1>7. Cardinality(free_slots(st')) = Cardinality(free_slots(slots)) + Cardinality(F)
  <2>1. free_slots(slots) \cap F = {}
    BY <1>2 DEF free_slots
  <2>2. IsFiniteSet(free_slots(slots)) /\ Cardinality(free_slots(slots)) \in Nat
    BY FreeFinite
  <2>3. Cardinality(F) \in Nat
    BY <1>2, FS_CardinalityType
  <2>4. Cardinality(free_slots(slots) \cup F)
          = Cardinality(free_slots(slots)) + Cardinality(F) - Cardinality(free_slots(slots) \cap F)
    BY <1>2, <2>2, FS_Union
  <2>5. Cardinality(free_slots(slots) \cap F) = 0
    BY <2>1, FS_EmptySet
  <2> QED BY <1>6, <2>2, <2>3, <2>4, <2>5
<1>8. my_max_streams' \in [Dirs -> Nat] /\ ms_pend' \in [Dirs -> BOOLEAN]
  BY <1>1, <1>3 DEF Dirs
<1>9. Backed(st', opened, my_max_streams')
  <2>1. BIDI \in Dirs /\ UNI \in Dirs
    BY DEF Dirs
  <2>2. \A d \in Dirs : my_max_streams'[d] = my_max_streams[d] + Cardinality(P(d))
    BY <1>1
  <2>3. /\ opened[BIDI] <= my_max_streams[BIDI] /\ opened[UNI] <= my_max_streams[UNI]
        /\ (my_max_streams[BIDI] - opened[BIDI]) + (my_max_streams[UNI] - opened[UNI])
              <= Cardinality(free_slots(slots))
    BY <2>1 DEF Backed
  <2>4. /\ opened[BIDI] \in Nat /\ opened[UNI] \in Nat
        /\ my_max_streams[BIDI] \in Nat /\ my_max_streams[UNI] \in Nat
        /\ Cardinality(free_slots(slots)) \in Nat /\ Cardinality(F) \in Nat
    BY <1>2, <2>1, FreeFinite, FS_CardinalityType
  <2>5. /\ opened[BIDI] <= my_max_streams'[BIDI] /\ opened[UNI] <= my_max_streams'[UNI]
        /\ (my_max_streams'[BIDI] - opened[BIDI]) + (my_max_streams'[UNI] - opened[UNI])
              <= Cardinality(free_slots(st'))
    BY <1>3, <1>4, <1>7, <2>1, <2>2, <2>3, <2>4
  <2> QED BY <2>5 DEF Backed, Dirs
<1>10. RecsOK(rec', st')
  <2> SUFFICES ASSUME NEW q \in rec'
               PROVE  q \in Records /\ RecordOK(q, st')
    BY DEF RecsOK
  <2>1. PICK r \in records : q = [r EXCEPT !.slot = IF @ \in F THEN NoSlot ELSE @]
    BY <1>1
  <2>2. r \in Records /\ RecordOK(r, slots)
    BY DEF RecsOK
  <2>3. q \in Records
    BY <2>1, <2>2 DEF Records
  <2>4. q.slot # NoSlot => /\ q.slot = r.slot /\ q.slot \notin F /\ q.slot \in Slots
                           /\ q.id = r.id /\ q.off = r.off /\ q.len = r.len
    BY <2>1, <2>2 DEF Records
  <2>5. q.slot # NoSlot => st'[q.slot] = slots[q.slot]
    BY <1>1, <2>4
  <2> QED BY <2>2, <2>3, <2>4, <2>5 DEF RecordOK
<1> QED BY <1>5, <1>8, <1>9, <1>10

-----------------------------------------------------------------------------
(* Opening streams *)

\* The slots an allocation takes.
Taken(f, k) == {f[a] : a \in 1..k}

LEMMA AllocGood ==
    ASSUME NEW slots, NEW k \in Nat, NEW f \in alloc(slots, k)
    PROVE  /\ Taken(f, k) \subseteq free_slots(slots)
           /\ IsFiniteSet(Taken(f, k)) /\ Cardinality(Taken(f, k)) = k
<1> DEFINE R == {f[a] : a \in 1..k}
<1>1. /\ f \in [1..k -> Slots] /\ \A a, b \in 1..k : a < b => f[a] < f[b]
      /\ \A a \in 1..k : f[a] \in free_slots(slots)
  BY DEF alloc
<1>2. \A a, b \in 1..k : f[a] = f[b] => a = b
  <2> TAKE a, b \in 1..k
  <2>1. f[a] \in Int /\ f[b] \in Int /\ ~(f[a] < f[a]) /\ ~(f[b] < f[b])
    BY <1>1, TpAssumption DEF Slots
  <2>2. a < b \/ b < a \/ a = b
    OBVIOUS
  <2> QED BY <1>1, <2>1, <2>2
<1>3. f \in Bijection(1..k, R)
  BY <1>1, <1>2 DEF Bijection, Injection, Surjection, IsInjective
<1>4. IsFiniteSet(1..k) /\ Cardinality(1..k) = k
  BY FS_Interval
<1>5. IsFiniteSet(R) /\ Cardinality(R) = Cardinality(1..k)
  BY <1>3, <1>4, FS_Bijection DEF ExistsBijection
<1>6. R \subseteq free_slots(slots)
  BY <1>1
<1> QED BY <1>4, <1>5, <1>6 DEF Taken

\* The table with k new streams: so many slots fewer are free.
LEMMA TakenGood ==
    ASSUME NEW slots, AllGood(slots), NEW k \in Nat, NEW f \in alloc(slots, k),
           NEW t, t \in [Slots -> Stream],
           \A i \in Slots : IF \E a \in 1..k : f[a] = i
                            THEN Good(t[i]) /\ Has(t[i], "USED") ELSE t[i] = slots[i]
    PROVE  /\ AllGood(t)
           /\ Cardinality(free_slots(t)) = Cardinality(free_slots(slots)) - k
           /\ \A records : RecsOK(records, slots) => RecsOK(records, t)
<1> DEFINE R == Taken(f, k)
<1>1. R \subseteq free_slots(slots) /\ IsFiniteSet(R) /\ Cardinality(R) = k
  BY AllocGood
<1>2. AllGood(t)
  BY DEF AllGood
<1>3. free_slots(t) = free_slots(slots) \ R
  BY DEF free_slots, Used, Taken
<1> HIDE DEF R
<1>4. Cardinality(free_slots(t)) = Cardinality(free_slots(slots)) - k
  <2>1. Cardinality(free_slots(slots) \ R)
          = Cardinality(free_slots(slots)) - Cardinality(free_slots(slots) \cap R)
    BY <1>1, FreeFinite, FS_Difference
  <2>2. free_slots(slots) \cap R = R
    BY <1>1
  <2> QED BY <1>1, <1>3, <2>1, <2>2
<1>5. ASSUME NEW records, RecsOK(records, slots)
      PROVE  RecsOK(records, t)
  <2> SUFFICES ASSUME NEW r \in records, r.slot # NoSlot PROVE t[r.slot] = slots[r.slot]
    BY <1>5 DEF RecsOK, RecordOK
  <2>1. r.slot \in Slots /\ Has(slots[r.slot], "USED")
    BY <1>5 DEF RecsOK, RecordOK, Records
  <2>2. r.slot \notin R
    BY <1>1, <2>1 DEF free_slots, Used
  <2> QED BY <2>1, <2>2 DEF R, Taken
<1> QED BY <1>2, <1>4, <1>5

\* lookup: a frame opens no more streams than slots are free, and uses up as much credit.
LEMMA LookupGood ==
    ASSUME AllGood(st), next_peer \in [Dirs -> Nat], my_max_streams \in [Dirs -> Nat],
           Backed(st, next_peer, my_max_streams), NEW id \in StreamIds, NEW rx \in BOOLEAN
    PROVE  /\ LookupErr(id, rx) # "INTERNAL" /\ LookupErr(id, rx) \in Errors
           /\ Opens(id) \in Nat
           /\ \A slots \in lookup(id, rx) : OpenedPeer(id) =>
                /\ AllGood(slots) /\ next_peer' \in [Dirs -> Nat]
                /\ Backed(slots, next_peer', my_max_streams)
                /\ \A records : RecsOK(records, st) => RecsOK(records, slots)
<1> DEFINE k == Opens(id)
           c == Cardinality(free_slots(st))
<1>1. /\ id.d \in Dirs /\ id.n \in Nat /\ next_peer[id.d] \in Nat
      /\ my_max_streams[id.d] \in Nat /\ c \in Nat
      /\ next_peer[BIDI] \in Nat /\ next_peer[UNI] \in Nat
      /\ my_max_streams[BIDI] \in Nat /\ my_max_streams[UNI] \in Nat
  BY FreeFinite DEF StreamIds, Dirs
<1>2. k \in Nat
  BY <1>1 DEF Opens
<1>3. /\ next_peer[BIDI] <= my_max_streams[BIDI] /\ next_peer[UNI] <= my_max_streams[UNI]
      /\ (my_max_streams[BIDI] - next_peer[BIDI]) + (my_max_streams[UNI] - next_peer[UNI]) <= c
  BY DEF Backed, Dirs
<1>4. id.d = BIDI \/ id.d = UNI
  BY <1>1 DEF Dirs
<1>5. id.n < my_max_streams[id.d] => k <= c
  BY <1>1, <1>3, <1>4 DEF Opens
<1>6. LookupErr(id, rx) # "INTERNAL" /\ LookupErr(id, rx) \in Errors
  BY <1>1, <1>2, <1>5 DEF LookupErr, Errors, NoErr
<1>7. ASSUME NEW slots \in lookup(id, rx), OpenedPeer(id)
      PROVE  /\ AllGood(slots) /\ next_peer' \in [Dirs -> Nat]
             /\ Backed(slots, next_peer', my_max_streams)
             /\ \A records : RecsOK(records, st) => RecsOK(records, slots)
  <2>1. PICK f \in alloc(st, k) : slots = Opened(f, id)
    BY <1>7 DEF lookup
  <2>2. LookupErr(id, rx) = NoErr
    BY <1>7 DEF lookup
  <2>3. next_peer' = [next_peer EXCEPT ![id.d] = @ + k]
    BY <1>7 DEF OpenedPeer
  <2>4. next_peer' \in [Dirs -> Nat] /\ next_peer'[id.d] = next_peer[id.d] + k
        /\ \A d \in Dirs : d # id.d => next_peer'[d] = next_peer[d]
    BY <1>1, <1>2, <2>3
  <2>5. next_peer[id.d] + k <= my_max_streams[id.d]
    <3>1. CASE k = 0
      BY <1>1, <1>3, <1>4, <3>1
    <3>2. CASE k # 0
      <4>1. id.peer /\ id.n >= next_peer[id.d] /\ k = id.n + 1 - next_peer[id.d]
        BY <3>2 DEF Opens
      <4>2. ~(id.n >= my_max_streams[id.d])
        BY <2>2, <4>1 DEF LookupErr, NoErr
      <4> QED BY <1>1, <4>1, <4>2
    <3> QED BY <3>1, <3>2
  <2>6. /\ slots \in [Slots -> Stream]
        /\ \A i \in Slots : IF \E a \in 1..k : f[a] = i
                             THEN Good(slots[i]) /\ Has(slots[i], "USED") ELSE slots[i] = st[i]
    <3>1. ASSUME NEW i \in Slots, \E a \in 1..k : f[a] = i
          PROVE  Good(slots[i]) /\ Has(slots[i], "USED")
      <4> DEFINE n == next_peer[id.d] - 1 + CHOOSE a \in 1..k : f[a] = i
      <4>1. n \in Nat
        BY <1>1, <1>2, <3>1
      <4> HIDE DEF n
      <4>2. Id(TRUE, id.d, n) \in StreamIds
        BY <1>1, <4>1 DEF Id, StreamIds
      <4>3. slots[i] = NewStream(Id(TRUE, id.d, n))
        BY <2>1, <3>1 DEF Opened, n
      <4> QED BY <4>2, <4>3, NewStreamGood
    <3>2. ASSUME NEW i \in Slots, ~\E a \in 1..k : f[a] = i
          PROVE  slots[i] = st[i]
      BY <2>1, <3>2 DEF Opened
    <3>3. \A i \in Slots : slots[i] \in Stream
      BY <3>1, <3>2 DEF AllGood, Good
    <3>4. slots \in [Slots -> Stream]
      BY <2>1, <3>3 DEF Opened
    <3> QED BY <3>1, <3>2, <3>4
  <2>7. /\ AllGood(slots)
        /\ Cardinality(free_slots(slots)) = c - k
        /\ \A records : RecsOK(records, st) => RecsOK(records, slots)
    BY <1>2, <2>1, <2>6, TakenGood
  <2> HIDE DEF k, c
  <2>8. Backed(slots, next_peer', my_max_streams)
    BY <1>1, <1>2, <1>3, <1>4, <2>4, <2>5, <2>7 DEF Backed, Dirs, BIDI, UNI
  <2> QED BY <2>4, <2>7, <2>8
<1> QED BY <1>2, <1>6, <1>7

-----------------------------------------------------------------------------
(* The invariant, arranged by what an action touches *)

CountsOK == /\ next_local \in [Dirs -> Nat] /\ next_peer \in [Dirs -> Nat]
            /\ accepted \in [Dirs -> Nat] /\ peer_max_streams \in [Dirs -> Nat]
CreditOK == my_max_streams \in [Dirs -> Nat] /\ ms_pend \in [Dirs -> BOOLEAN]
RxFlowOK == max_data_rx \in Nat /\ sum_rx \in Nat /\ consumed \in Nat /\ md_pend \in BOOLEAN
TxFlowOK == max_data_tx \in Nat /\ sent_tx \in Nat /\ sent_tx <= max_data_tx
PnsOK == ms_pn \in [Dirs -> NatOrNone] /\ md_pn \in NatOrNone /\ tx_pn \in Nat
TableOK == AllGood(st) /\ RecsOK(rec, st)
BackedOK == err = NoErr => Backed(st, next_peer, my_max_streams)
ErrOK == err \in Errors /\ err # "INTERNAL"

Legal == /\ CountsOK /\ CreditOK /\ RxFlowOK /\ TxFlowOK /\ PnsOK
         /\ TableOK /\ BackedOK /\ ErrOK

LEMMA LegalIsIInv == Legal <=> IInv
BY DEF Legal, IInv, TypeOK, CountsOK, CreditOK, RxFlowOK, TxFlowOK, PnsOK, TableOK, BackedOK,
       ErrOK, AllGood, Good, RecsOK, NeverInternal

LEMMA NextLegalIsIInv == Legal' <=> IInv'
BY DEF Legal, IInv, TypeOK, CountsOK, CreditOK, RxFlowOK, TxFlowOK, PnsOK, TableOK, BackedOK,
       ErrOK, AllGood, Good, RecsOK, NeverInternal

LEMMA InitLegal == Init => Legal
<1> SUFFICES ASSUME Init PROVE Legal
  OBVIOUS
<1> USE DEF Init, streams_init
<1>1. my_tp.streams \in [Dirs -> Nat] /\ peer_tp.streams \in [Dirs -> Nat]
      /\ my_tp.max_data \in Nat /\ peer_tp.max_data \in Nat
  BY TpAssumption DEF Limits
<1>2. TableOK
  BY FreeSlotGood DEF TableOK, AllGood, Good, RecsOK
<1>3. BackedOK
  <2>1. free_slots(st) = Slots
    BY FreeSlotGood DEF free_slots, Used
  <2>2. /\ my_tp.streams[BIDI] + my_tp.streams[UNI] <= QS_N
        /\ my_tp.streams[BIDI] \in Nat /\ my_tp.streams[UNI] \in Nat
    BY <1>1, TpAssumption DEF Dirs
  <2>3. \A d \in Dirs : next_peer[d] = 0 /\ my_max_streams[d] = my_tp.streams[d]
    OBVIOUS
  <2>4. BIDI \in Dirs /\ UNI \in Dirs /\ \A d \in Dirs : d = BIDI \/ d = UNI
    BY DEF Dirs
  <2> QED BY <2>1, <2>2, <2>3, <2>4, SlotsFinite DEF BackedOK, Backed
<1>4. CountsOK /\ TxFlowOK
  BY <1>1 DEF CountsOK, TxFlowOK
<1>6. CreditOK
  BY <1>1, Zenon DEF CreditOK
<1>7. RxFlowOK /\ PnsOK
  BY <1>1 DEF RxFlowOK, PnsOK, NatOrNone
<1>5. ErrOK
  BY DEF ErrOK, Errors, NoErr
<1> QED BY <1>2, <1>3, <1>4, <1>5, <1>6, <1>7 DEF Legal

LEMMA FailLegal ==
    ASSUME Legal, NEW code \in Errors, code # "INTERNAL", code # NoErr, q_fail(code),
           next_peer' \in [Dirs -> Nat]
    PROVE  Legal'
<1>1. TableOK'
  BY FreeSlotGood DEF q_fail, TableOK, AllGood, Good, RecsOK
<1>2. BackedOK' /\ ErrOK'
  BY DEF q_fail, BackedOK, ErrOK
<1>3. CountsOK' /\ CreditOK' /\ RxFlowOK' /\ TxFlowOK' /\ PnsOK'
  BY DEF q_fail, Legal, CountsOK, CreditOK, RxFlowOK, TxFlowOK, PnsOK, credits, rxflow, txflow, pns
<1> QED BY <1>1, <1>2, <1>3 DEF Legal

LEMMA CreditConnGood ==
    ASSUME NEW c \in Nat, CreditConn(c), max_data_rx \in Nat, md_pend \in BOOLEAN
    PROVE  consumed' \in Nat /\ max_data_rx' \in Nat /\ md_pend' \in BOOLEAN
<1>1. my_tp.max_data \in Nat
  BY TpAssumption DEF Limits
<1> DEFINE win == my_tp.max_data
           up == c + win > max_data_rx /\ c + win - max_data_rx >= win \div 2
<1>2. consumed' = c /\ max_data_rx' = (IF up THEN c + win ELSE max_data_rx)
      /\ md_pend' = (md_pend \/ up)
  BY DEF CreditConn
<1>3. c + win \in Nat
  BY <1>1
<1> HIDE DEF up
<1> QED BY <1>2, <1>3

\* A table in which one slot was changed within its stream.
LEMMA PutLegal ==
    ASSUME NEW slots, AllGood(slots), RecsOK(rec, slots), NEW opened, NEW allowed,
           Backed(slots, opened, allowed),
           NEW i \in Slots, NEW t, Good(t), SentMore(slots[i], t)
    PROVE  LET u == [slots EXCEPT ![i] = t] IN
           AllGood(u) /\ RecsOK(rec, u) /\ Backed(u, opened, allowed)
<1> DEFINE u == [slots EXCEPT ![i] = t]
<1>1. AllGood(u) /\ SameTable(slots, u)
  BY OneSlot
<1> HIDE DEF u
<1> QED BY <1>1, SameBacked, SameRecords DEF u

LEMMA SameMore ==
    ASSUME NEW s, Good(s), NEW t, SameSlot(s, t)
    PROVE  SentMore(s, t)
BY DEF SameSlot, SentMore, Good, Stream

-----------------------------------------------------------------------------
(* One lemma per action *)

LEMMA OpenLegal ==
    ASSUME Legal, NEW d \in Dirs, stream_open(d)
    PROVE  Legal'
<1>1. AllGood(st) /\ RecsOK(rec, st) /\ Backed(st, next_peer, my_max_streams)
  BY DEF Legal, TableOK, BackedOK, stream_open
<1>2. PICK f \in alloc(st, 1) : st' = [st EXCEPT ![f[1]] = NewStream(Id(FALSE, d, next_local[d]))]
  BY DEF stream_open
<1> DEFINE new == NewStream(Id(FALSE, d, next_local[d]))
<1>3. Good(new) /\ Has(new, "USED")
  <2>1. Id(FALSE, d, next_local[d]) \in StreamIds
    BY DEF Id, StreamIds, Legal, CountsOK
  <2> QED BY <2>1, NewStreamGood
<1> HIDE DEF new
<1>4. \A i \in Slots : IF \E a \in 1..1 : f[a] = i
                       THEN Good(st'[i]) /\ Has(st'[i], "USED") ELSE st'[i] = st[i]
  <2>1. \A i \in Slots : st'[i] = IF i = f[1] THEN new ELSE st[i]
    BY <1>1, <1>2 DEF AllGood, new
  <2>2. \A i : (\E a \in 1..1 : f[a] = i) <=> i = f[1]
    OBVIOUS
  <2> QED BY <1>3, <2>1, <2>2
<1>5. st' \in [Slots -> Stream]
  BY <1>1, <1>2, <1>3 DEF AllGood, Good, new
<1>6. /\ AllGood(st') /\ RecsOK(rec, st')
      /\ Cardinality(free_slots(st')) = Cardinality(free_slots(st)) - 1
  BY <1>1, <1>4, <1>5, TakenGood
<1>7. Backed(st', next_peer, my_max_streams)
  <2>1. Cardinality(free_slots(st)) > reserved
    BY DEF stream_open
  <2>2. Cardinality(free_slots(st)) \in Nat /\ reserved \in Int
    BY FreeFinite DEF Legal, CountsOK, CreditOK, reserved, Dirs
  <2>3. reserved <= Cardinality(free_slots(st'))
    BY <1>6, <2>1, <2>2
  <2> QED BY <1>1, <2>3 DEF Backed, reserved
<1>8. next_local' \in [Dirs -> Nat]
  BY DEF stream_open, Legal, CountsOK
<1> QED BY <1>6, <1>7, <1>8 DEF stream_open, Legal, CountsOK, CreditOK, RxFlowOK, TxFlowOK, PnsOK,
           TableOK, BackedOK, ErrOK, credits, rxflow, txflow, pns

LEMMA AcceptLegal ==
    ASSUME Legal, NEW d \in Dirs, stream_accept(d)
    PROVE  Legal'
BY DEF stream_accept, Legal, CountsOK, CreditOK, RxFlowOK, TxFlowOK, PnsOK,
       TableOK, BackedOK, ErrOK, credits, rxflow, txflow, pns

LEMMA WriteLegal ==
    ASSUME Legal, NEW i \in Slots, NEW n \in Nat, NEW fin \in BOOLEAN, stream_write(i, n, fin)
    PROVE  Legal'
<1> DEFINE s == st[i]
           k == MinOf(n, QS_BUF - (s.tx_len - s.tx_base))
           t == Written(s, k, fin /\ k = n)
<1>1. AllGood(st) /\ RecsOK(rec, st) /\ Backed(st, next_peer, my_max_streams)
  BY DEF Legal, TableOK, BackedOK, stream_write
<1>2. Good(s)
  BY <1>1 DEF AllGood
<1>3. k \in Nat /\ k <= QS_BUF - (s.tx_len - s.tx_base)
  BY <1>2, TpAssumption DEF Good, Stream, SlotOK, MinOf
<1>4. Good(t) /\ SentMore(s, t)
  <2>1. (fin /\ k = n) \in BOOLEAN
    OBVIOUS
  <2> HIDE DEF k
  <2>2. Good(t) /\ SameSlot(s, t)
    BY <1>2, <1>3, <2>1, WrittenGood
  <2> QED BY <1>2, <2>2, SameMore
<1>5. st' = [st EXCEPT ![i] = t] /\ UNCHANGED <<counts, credits, rxflow, txflow, pns, rec, err>>
  BY DEF stream_write
<1> HIDE DEF t
<1>6. AllGood(st') /\ RecsOK(rec, st') /\ Backed(st', next_peer, my_max_streams)
  BY <1>1, <1>4, <1>5, PutLegal
<1> QED BY <1>5, <1>6 DEF Legal, CountsOK, CreditOK, RxFlowOK, TxFlowOK, PnsOK,
           TableOK, BackedOK, ErrOK, counts, credits, rxflow, txflow, pns

\* Everything that ends in maybe_free on a table with one slot changed.
LEMMA FreeLegal ==
    ASSUME NEW slots, AllGood(slots), RecsOK(rec, slots), CreditOK, next_peer' \in [Dirs -> Nat],
           Backed(slots, next_peer', my_max_streams), NEW i \in Slots, NEW t, Good(t),
           SameSlot(slots[i], t), NEW T, maybe_free([slots EXCEPT ![i] = t], T, rec, {})
    PROVE  TableOK' /\ CreditOK' /\ Backed(st', next_peer', my_max_streams')
<1> DEFINE u == [slots EXCEPT ![i] = t]
<1>1. SentMore(slots[i], t)
  BY SameMore DEF AllGood
<1>2. AllGood(u) /\ RecsOK(rec, u) /\ Backed(u, next_peer', my_max_streams)
  BY <1>1, PutLegal
<1> HIDE DEF u
<1>3. maybe_free(u, T, rec, {})
  BY DEF u
<1>4. /\ AllGood(st') /\ RecsOK(rec', st')
      /\ my_max_streams' \in [Dirs -> Nat] /\ ms_pend' \in [Dirs -> BOOLEAN]
      /\ Backed(st', next_peer', my_max_streams')
  BY <1>2, <1>3, MaybeFreeGood DEF CreditOK
<1> QED BY <1>4 DEF TableOK, CreditOK

LEMMA ReadLegal ==
    ASSUME Legal, NEW i \in Slots, NEW cap \in Nat, stream_read(i, cap)
    PROVE  Legal'
<1> DEFINE s == st[i]
<1>1. AllGood(st) /\ RecsOK(rec, st) /\ Backed(st, next_peer, my_max_streams) /\ CreditOK
  BY DEF Legal, TableOK, BackedOK, stream_read
<1>2. Good(s) /\ s.rx_read \in Nat /\ next_peer' = next_peer /\ next_peer \in [Dirs -> Nat]
  BY <1>1 DEF AllGood, Good, Stream, stream_read, counts, Legal, CountsOK
<1>3. CASE /\ maybe_free([st EXCEPT ![i] = Set(s, {"RX_DONE"})], {i}, rec, {})
           /\ UNCHANGED <<consumed, max_data_rx, md_pend>>
  <2> DEFINE t == Set(s, {"RX_DONE"})
  <2>1. Good(t) /\ SameSlot(s, t)
    BY <1>2, FlagsGood DEF Flags
  <2> HIDE DEF t
  <2>2. TableOK' /\ CreditOK' /\ Backed(st', next_peer', my_max_streams')
    BY <1>1, <1>2, <1>3, <2>1, FreeLegal DEF t
  <2> QED BY <1>3, <2>2 DEF stream_read, Legal, CountsOK, RxFlowOK, TxFlowOK, PnsOK,
             BackedOK, ErrOK, counts, txflow, pns
<1>4. ASSUME NEW n \in 1..QS_BUF, Readable(s, cap, n), CreditConn(consumed + n),
             st' = [st EXCEPT ![i] = CreditStream(Drained(s, n))],
             UNCHANGED <<credits, rec>>
      PROVE  Legal'
  <2> DEFINE r == Drained(s, n)
             t == CreditStream(r)
  <2>1. Good(r) /\ SameSlot(s, r)
    BY <1>2, <1>4, DrainedGood
  <2> HIDE DEF r
  <2>2. Good(t) /\ SameSlot(r, t)
    BY <2>1, CreditStreamGood
  <2>3. SentMore(s, t)
    BY <1>2, <2>1, <2>2, SameMore DEF SameSlot
  <2>a. st' = [st EXCEPT ![i] = t]
    BY <1>4 DEF r
  <2> HIDE DEF t
  <2>4. AllGood(st') /\ RecsOK(rec, st') /\ Backed(st', next_peer, my_max_streams)
    BY <1>1, <2>a, <2>2, <2>3, PutLegal
  <2>5. consumed + n \in Nat /\ max_data_rx \in Nat /\ md_pend \in BOOLEAN
    BY TpAssumption DEF Legal, RxFlowOK
  <2>6. consumed' \in Nat /\ max_data_rx' \in Nat /\ md_pend' \in BOOLEAN
    BY <1>4, <2>5, CreditConnGood
  <2> QED BY <1>4, <2>4, <2>6 DEF stream_read, Legal, CountsOK, CreditOK, RxFlowOK, TxFlowOK, PnsOK,
             TableOK, BackedOK, ErrOK, counts, credits, txflow, pns
<1> QED BY <1>3, <1>4 DEF stream_read

LEMMA AbortLegal ==
    ASSUME Legal, NEW i \in Slots, NEW tx \in BOOLEAN, NEW rx \in BOOLEAN, stream_abort(i, tx, rx)
    PROVE  Legal'
<1> DEFINE s == IF tx THEN AbortTx(st[i]) ELSE st[i]
           stops == rx /\ Has(st[i], "RX") /\ ~Has(st[i], "RX_ABORT") /\ ~Has(st[i], "RX_DONE")
           stops2 == rx /\ Has(s, "RX") /\ ~Has(s, "RX_ABORT") /\ ~Has(s, "RX_DONE")
           t == IF stops2 THEN AbortRx(s) ELSE s
<1>1. AllGood(st) /\ RecsOK(rec, st) /\ Backed(st, next_peer, my_max_streams) /\ CreditOK
  BY DEF Legal, TableOK, BackedOK, stream_abort
<1>2. Good(st[i]) /\ next_peer' = next_peer /\ next_peer \in [Dirs -> Nat]
  BY <1>1 DEF AllGood, stream_abort, counts, Legal, CountsOK
<1>3. Good(s) /\ SameSlot(st[i], s)
  BY <1>2, AbortTxGood DEF SameSlot
<1>4. PICK T : maybe_free([st EXCEPT ![i] = t], T, rec, {})
  BY DEF stream_abort
<1>5. \/ CreditConn(consumed + (s.rx_hi - s.rx_read))
      \/ UNCHANGED <<consumed, max_data_rx, md_pend>>
  BY DEF stream_abort
<1>6. UNCHANGED <<counts, sum_rx, txflow, pns, err>>
  BY DEF stream_abort
<1> HIDE DEF s
<1>7. Good(t) /\ SameSlot(st[i], t)
  BY <1>3, AbortRxGood DEF SameSlot
<1> HIDE DEF t
<1>8. TableOK' /\ CreditOK' /\ Backed(st', next_peer', my_max_streams')
  BY <1>1, <1>2, <1>4, <1>7, FreeLegal
<1>9. consumed' \in Nat /\ max_data_rx' \in Nat /\ md_pend' \in BOOLEAN
  <2>1. consumed \in Nat /\ max_data_rx \in Nat /\ md_pend \in BOOLEAN
    BY DEF Legal, RxFlowOK
  <2>2. consumed + (s.rx_hi - s.rx_read) \in Nat
    BY <1>3, <2>1 DEF Good, SlotOK, Stream
  <2> QED BY <1>5, <2>1, <2>2, CreditConnGood
<1> QED BY <1>6, <1>8, <1>9 DEF Legal, CountsOK, RxFlowOK, TxFlowOK, PnsOK,
           BackedOK, ErrOK, counts, txflow, pns

\* A table the peer's frame left, before the frame itself is applied.
Looked(slots) ==
    /\ AllGood(slots) /\ RecsOK(rec, slots)
    /\ next_peer' \in [Dirs -> Nat] /\ Backed(slots, next_peer', my_max_streams)

LEMMA RecvDataLegal ==
    ASSUME Legal, err = NoErr, NEW slots, Looked(slots), NEW i \in Slots,
           NEW off \in Nat, NEW end \in Nat, NEW fin \in BOOLEAN,
           RecvData(slots, i, off, end, fin)
    PROVE  Legal'
<1> DEFINE s == slots[i]
           h == Grow(s, end)
           g == [h EXCEPT !.rx_final = IF fin THEN end ELSE @]
<1>1. Good(s) /\ AllGood(slots) /\ RecsOK(rec, slots) /\ CreditOK
      /\ next_peer' \in [Dirs -> Nat] /\ Backed(slots, next_peer', my_max_streams)
  BY DEF Looked, AllGood, Legal
<1>2. CASE FinalSizeErr(s, end, fin)
  <2>1. q_fail("FINAL_SIZE")
    BY <1>2 DEF RecvData
  <2> QED BY <1>1, <2>1, FailLegal DEF Errors, NoErr
<1>3. CASE ~FinalSizeErr(s, end, fin) /\ GrowErr(s, end)
  <2>1. q_fail("FLOW_CONTROL")
    BY <1>3 DEF RecvData
  <2> QED BY <1>1, <2>1, FailLegal DEF Errors, NoErr
<1>4. CASE ~FinalSizeErr(s, end, fin) /\ ~GrowErr(s, end)
  <2>1. /\ s.rx_hi \in Nat /\ s.rx_max \in Nat /\ s.rx_read \in Nat
        /\ s.rx_final \in NatOrNone /\ end <= s.rx_max
        /\ Final(s) => end <= s.rx_final
        /\ fin => s.rx_hi <= end
    BY <1>1, <1>4 DEF Good, Stream, FinalSizeErr, GrowErr, NatOrNone, QS_NONE, Final
  <2>2. Good(h) /\ SameSlot(s, h)
    BY <1>1, <2>1, GrowGood
  <2>3. h.rx_hi = MaxOf(s.rx_hi, end) /\ h.rx_ring = s.rx_ring /\ h.flags = s.flags
    BY <1>1 DEF Grow, Good, Stream
  <2>4. end <= h.rx_hi /\ (fin => h.rx_hi = end)
    BY <2>1, <2>3 DEF MaxOf
  <2> HIDE DEF h
  <2>5. Good(g) /\ SameSlot(s, g) /\ g.rx_ring = s.rx_ring /\ g.flags = s.flags /\ g.rx_hi = h.rx_hi
    <3>1. CASE fin
      <4>1. g = [h EXCEPT !.rx_final = end]
        BY <3>1, <2>2 DEF Good, Stream
      <4>2. Good(g) /\ SameSlot(h, g)
        <5>1. h.rx_hi <= end
          BY <3>1, <2>4
        <5>2. Good([h EXCEPT !.rx_final = end]) /\ SameSlot(h, [h EXCEPT !.rx_final = end])
          BY <2>2, <5>1, FinalGood
        <5> QED BY <4>1, <5>2
      <4>3. g.rx_ring = h.rx_ring /\ g.flags = h.flags /\ g.rx_hi = h.rx_hi
        BY <2>2, <4>1 DEF Good, Stream
      <4> QED BY <2>2, <2>3, <4>2, <4>3 DEF SameSlot
    <3>2. CASE ~fin
      <4>1. g = h
        BY <3>2, <2>2 DEF Good, Stream
      <4> QED BY <2>2, <2>3, <4>1
    <3> QED BY <3>1, <3>2
  <2> HIDE DEF g
  <2>6. sum_rx' \in Nat
    BY <1>4, <2>1 DEF RecvData, GrowSum, MaxOf, Legal, RxFlowOK
  <2>7. UNCHANGED <<next_local, accepted, peer_max_streams, txflow, pns, err>>
    BY <1>4 DEF RecvData
  <2>8. CASE Has(s, "RX_ABORT") /\ ~Has(s, "RX_DONE")
    <3>1. PICK T : maybe_free([slots EXCEPT ![i] = rx_drop(g)], T, rec, {})
      BY <1>4, <2>8 DEF RecvData, g, h
    <3>2. CreditConn(consumed + (g.rx_hi - g.rx_read))
      BY <1>4, <2>8 DEF RecvData, g, h
    <3>3. g.rx_ring = Empty
      BY <1>1, <2>5, <2>8 DEF Good, RingsOK
    <3>4. Good(rx_drop(g)) /\ SameSlot(s, rx_drop(g))
      BY <2>5, <3>3, DropGood DEF SameSlot
    <3>5. TableOK' /\ CreditOK' /\ Backed(st', next_peer', my_max_streams')
      BY <1>1, <3>1, <3>4, FreeLegal
    <3>6. consumed + (g.rx_hi - g.rx_read) \in Nat /\ max_data_rx \in Nat /\ md_pend \in BOOLEAN
      BY <2>5 DEF Good, SlotOK, Stream, Legal, RxFlowOK
    <3>7. consumed' \in Nat /\ max_data_rx' \in Nat /\ md_pend' \in BOOLEAN
      BY <3>2, <3>6, CreditConnGood
    <3> QED BY <1>1, <2>6, <2>7, <3>5, <3>7 DEF Legal, CountsOK, RxFlowOK, TxFlowOK, PnsOK,
               BackedOK, ErrOK, txflow, pns
  <2>9. CASE ~(Has(s, "RX_ABORT") /\ ~Has(s, "RX_DONE"))
    <3>1. PICK t \in {g, Fill(g, off, end)} : /\ st' = [slots EXCEPT ![i] = t]
                                              /\ t # g => ~Has(s, "RX_ABORT")
      BY <1>4, <2>9 DEF RecvData, g, h
    <3>2. Good(t) /\ SentMore(s, t)
      <4>1. t # g => ~Has(g, "RX_ABORT")
        BY <2>5, <3>1 DEF Has
      <4>2. Good(t) /\ SameSlot(s, t)
        <5>1. CASE t = g
          BY <2>5, <5>1
        <5>2. CASE t # g
          <6>1. Good(Fill(g, off, end)) /\ SameSlot(g, Fill(g, off, end))
            BY <2>4, <2>5, <4>1, <5>2, FillGood
          <6>2. t = Fill(g, off, end)
            BY <3>1, <5>2
          <6> QED BY <2>5, <6>1, <6>2 DEF SameSlot
        <5> QED BY <5>1, <5>2
      <4> QED BY <1>1, <4>2, SameMore
    <3>3. AllGood(st') /\ RecsOK(rec, st') /\ Backed(st', next_peer', my_max_streams)
      <4> DEFINE u == [slots EXCEPT ![i] = t]
      <4>1. AllGood(u) /\ RecsOK(rec, u) /\ Backed(u, next_peer', my_max_streams)
        BY <1>1, <3>2, PutLegal
      <4> QED BY <3>1, <4>1
    <3>4. UNCHANGED <<consumed, max_data_rx, md_pend, credits, rec>>
      BY <1>4, <2>9 DEF RecvData
    <3> QED BY <1>1, <2>6, <2>7, <3>3, <3>4 DEF Legal, CountsOK, CreditOK, RxFlowOK, TxFlowOK, PnsOK,
               TableOK, BackedOK, ErrOK, credits, txflow, pns
  <2> QED BY <2>8, <2>9
<1> QED BY <1>2, <1>3, <1>4

LEMMA RecvResetLegal ==
    ASSUME Legal, err = NoErr, NEW slots, Looked(slots), NEW i \in Slots, NEW b \in Nat,
           RecvReset(slots, i, b)
    PROVE  Legal'
<1> DEFINE s == slots[i]
           bad == (Final(s) /\ b # s.rx_final) \/ b < s.rx_hi
           g == [Grow(s, b) EXCEPT !.rx_final = b]
           r == Set([g EXCEPT !.rx_ring = Empty, !.rx_read = b], {"RX_RESET"})
           d == Clear(Set(r, {"RX_DONE"}), {"SS_PEND"})
           t == IF Has(s, "RX_ABORT") THEN d ELSE r
<1>1. Good(s) /\ AllGood(slots) /\ RecsOK(rec, slots) /\ CreditOK
      /\ next_peer' \in [Dirs -> Nat] /\ Backed(slots, next_peer', my_max_streams)
  BY DEF Looked, AllGood, Legal
<1>2. CASE bad
  <2>1. q_fail("FINAL_SIZE")
    BY <1>2 DEF RecvReset
  <2> QED BY <1>1, <2>1, FailLegal DEF Errors, NoErr
<1>3. CASE ~bad /\ GrowErr(s, b)
  <2>1. q_fail("FLOW_CONTROL")
    BY <1>3 DEF RecvReset
  <2> QED BY <1>1, <2>1, FailLegal DEF Errors, NoErr
<1>4. CASE ~bad /\ ~GrowErr(s, b)
  <2>1. /\ s.rx_hi \in Nat /\ s.rx_max \in Nat /\ s.rx_read \in Nat /\ s.rx_read <= s.rx_hi
        /\ b <= s.rx_max /\ s.rx_hi <= b /\ (Final(s) => b <= s.rx_final)
    BY <1>1, <1>4 DEF Good, SlotOK, Stream, GrowErr
  <2>2. Good(r) /\ SameSlot(s, r) /\ Good(d) /\ SameSlot(s, d)
    BY <1>1, <2>1, ResetGood
  <2>3. Good(g) /\ SameSlot(s, g)
    <3>1. Good(Grow(s, b)) /\ SameSlot(s, Grow(s, b))
      BY <1>1, <2>1, GrowGood
    <3>2. Grow(s, b).rx_hi <= b
      BY <1>1, <2>1 DEF Grow, MaxOf, Good, Stream
    <3> QED BY <3>1, <3>2, FinalGood DEF SameSlot
  <2> HIDE DEF g, r, d
  <2>4. Good(t) /\ SameSlot(s, t)
    BY <2>2
  <2>5. sum_rx' \in Nat
    BY <1>4, <2>1 DEF RecvReset, GrowSum, MaxOf, Legal, RxFlowOK
  <2>6. UNCHANGED <<next_local, accepted, peer_max_streams, txflow, pns, err>>
    BY <1>4 DEF RecvReset
  <2>7. CASE Has(s, "RX_RESET") \/ Has(s, "RX_DONE")
    <3>1. st' = [slots EXCEPT ![i] = g] /\ UNCHANGED <<consumed, max_data_rx, md_pend, credits, rec>>
      BY <1>4, <2>7 DEF RecvReset, g
    <3>2. SentMore(s, g)
      BY <1>1, <2>3, SameMore
    <3>3. AllGood(st') /\ RecsOK(rec, st') /\ Backed(st', next_peer', my_max_streams)
      BY <1>1, <2>3, <3>1, <3>2, PutLegal
    <3> QED BY <1>1, <2>5, <2>6, <3>1, <3>3 DEF Legal, CountsOK, CreditOK, RxFlowOK, TxFlowOK, PnsOK,
               TableOK, BackedOK, ErrOK, credits, txflow, pns
  <2>8. CASE ~(Has(s, "RX_RESET") \/ Has(s, "RX_DONE"))
    <3>1. PICK T : maybe_free([slots EXCEPT ![i] = t], T, rec, {})
      BY <1>4, <2>8 DEF RecvReset, g, r, d
    <3>2. CreditConn(consumed + (b - s.rx_read))
      BY <1>4, <2>8 DEF RecvReset
    <3> HIDE DEF t
    <3>3. TableOK' /\ CreditOK' /\ Backed(st', next_peer', my_max_streams')
      BY <1>1, <2>4, <3>1, FreeLegal
    <3>4. consumed + (b - s.rx_read) \in Nat /\ max_data_rx \in Nat /\ md_pend \in BOOLEAN
      BY <2>1 DEF Legal, RxFlowOK
    <3>5. consumed' \in Nat /\ max_data_rx' \in Nat /\ md_pend' \in BOOLEAN
      BY <3>2, <3>4, CreditConnGood
    <3> QED BY <1>1, <2>5, <2>6, <3>3, <3>5 DEF Legal, CountsOK, RxFlowOK, TxFlowOK, PnsOK,
               BackedOK, ErrOK, txflow, pns
  <2> QED BY <2>7, <2>8
<1> QED BY <1>2, <1>3, <1>4

\* What precedes the handler of every frame that names a stream.
LEMMA LookedGood ==
    ASSUME Legal, err = NoErr, NEW id \in StreamIds, NEW rx \in BOOLEAN
    PROVE  /\ LookupFails(id, rx) => Legal'
           /\ \A slots \in lookup(id, rx) : OpenedPeer(id) => Looked(slots)
<1>1. /\ AllGood(st) /\ RecsOK(rec, st) /\ Backed(st, next_peer, my_max_streams)
      /\ next_peer \in [Dirs -> Nat] /\ my_max_streams \in [Dirs -> Nat]
  BY DEF Legal, TableOK, BackedOK, CountsOK, CreditOK
<1>2. LookupErr(id, rx) # "INTERNAL" /\ LookupErr(id, rx) \in Errors
  BY <1>1, LookupGood
<1>3. ASSUME LookupFails(id, rx)
      PROVE  Legal'
  BY <1>1, <1>2, <1>3, FailLegal DEF LookupFails
<1>4. ASSUME NEW slots \in lookup(id, rx), OpenedPeer(id)
      PROVE  Looked(slots)
  BY <1>1, <1>4, LookupGood DEF Looked
<1> QED BY <1>3, <1>4

LEMMA ClosedLegal ==
    ASSUME Legal, NEW slots, Looked(slots), NEW id, ClosedStream(slots, id),
           UNCHANGED <<next_local, accepted, peer_max_streams, pns>>
    PROVE  Legal'
BY DEF Looked, ClosedStream, Legal, CountsOK, CreditOK, RxFlowOK, TxFlowOK, PnsOK,
       TableOK, BackedOK, ErrOK, credits, rxflow, txflow, pns

LEMMA FrameLegal ==
    ASSUME Legal, NEW id \in StreamIds, NEW off \in Nat, NEW n \in Nat, NEW fin \in BOOLEAN,
           stream_frame(id, off, n, fin)
    PROVE  Legal'
<1>1. err = NoErr
  BY DEF stream_frame
<1>2. CASE LookupFails(id, TRUE)
  BY <1>1, <1>2, LookedGood
<1>3. CASE ~LookupFails(id, TRUE)
  <2>1. PICK slots \in lookup(id, TRUE) :
          /\ OpenedPeer(id)
          /\ \/ /\ ClosedStream(slots, id)
                /\ UNCHANGED <<next_local, accepted, peer_max_streams, pns>>
             \/ \E i \in find(slots, id) : RecvData(slots, i, off, off + n, fin)
    BY <1>3 DEF stream_frame
  <2>2. Looked(slots)
    BY <1>1, <2>1, LookedGood
  <2>3. \A i \in find(slots, id) : i \in Slots
    BY DEF find, Used
  <2>4. off + n \in Nat
    OBVIOUS
  <2> QED BY <1>1, <2>1, <2>2, <2>3, <2>4, ClosedLegal, RecvDataLegal
<1> QED BY <1>2, <1>3

\* Frames that change one slot and nothing else.
LEMMA OnlySlotLegal ==
    ASSUME Legal, NEW slots, Looked(slots), NEW i \in Slots, NEW t, Good(t),
           SameSlot(slots[i], t), OnlySlot(slots, i, t)
    PROVE  Legal'
<1>1. SentMore(slots[i], t)
  BY SameMore DEF Looked, AllGood
<1>2. LET u == [slots EXCEPT ![i] = t] IN
      AllGood(u) /\ RecsOK(rec, u) /\ Backed(u, next_peer', my_max_streams)
  BY <1>1, PutLegal DEF Looked
<1>3. AllGood(st') /\ RecsOK(rec, st') /\ Backed(st', next_peer', my_max_streams)
  BY <1>2 DEF OnlySlot
<1> QED BY <1>3 DEF OnlySlot, Looked, Legal, CountsOK, CreditOK, RxFlowOK, TxFlowOK, PnsOK,
           TableOK, BackedOK, ErrOK, credits, rxflow, txflow, pns

LEMMA CtlLegal ==
    ASSUME Legal, NEW type \in CtlTypes, NEW id \in StreamIds, NEW a \in Nat,
           stream_ctl(type, id, a)
    PROVE  Legal'
<1> DEFINE rx == type \in {"RESET_STREAM", "STREAM_DATA_BLOCKED"}
<1>1. err = NoErr /\ rx \in BOOLEAN
  BY DEF stream_ctl
<1>2. CASE LookupFails(id, rx)
  BY <1>1, <1>2, LookedGood
<1>3. CASE ~LookupFails(id, rx)
  <2>1. PICK slots \in lookup(id, rx) :
          /\ OpenedPeer(id)
          /\ \/ /\ ClosedStream(slots, id)
                /\ UNCHANGED <<next_local, accepted, peer_max_streams, pns>>
             \/ \E i \in find(slots, id) :
                  \/ RecvReset(slots, i, a)
                  \/ \E t \in {StopStream(slots[i]), RaiseTxMax(slots[i], a), slots[i]} :
                        OnlySlot(slots, i, t)
    BY <1>3 DEF stream_ctl
  <2>2. Looked(slots)
    BY <1>1, <2>1, LookedGood
  <2>3. ASSUME NEW i \in find(slots, id)
        PROVE  /\ i \in Slots
               /\ \A t \in {StopStream(slots[i]), RaiseTxMax(slots[i], a), slots[i]} :
                     Good(t) /\ SameSlot(slots[i], t)
    <3>1. i \in Slots
      BY DEF find, Used
    <3>2. Good(slots[i]) /\ SameSlot(slots[i], slots[i])
      BY <2>2, <3>1 DEF Looked, AllGood, SameSlot
    <3>3. Good(StopStream(slots[i])) /\ SameSlot(slots[i], StopStream(slots[i]))
      BY <3>2, FlagsGood DEF StopStream, Flags
    <3>4. Good(RaiseTxMax(slots[i], a)) /\ SameSlot(slots[i], RaiseTxMax(slots[i], a))
      BY <3>2, RaiseTxMaxGood
    <3> QED BY <3>1, <3>2, <3>3, <3>4
  <2> QED BY <1>1, <2>1, <2>2, <2>3, ClosedLegal, RecvResetLegal, OnlySlotLegal
<1> QED BY <1>2, <1>3

LEMMA LimitsLegal ==
    ASSUME Legal, NEW v \in Nat, NEW d \in Dirs, max_data_frame(v) \/ max_streams_frame(d, v)
    PROVE  Legal'
<1>1. CASE max_data_frame(v)
  <2>1. TxFlowOK'
    BY <1>1 DEF max_data_frame, Legal, TxFlowOK, MaxOf
  <2> QED BY <1>1, <2>1 DEF max_data_frame, Legal, CountsOK, CreditOK, RxFlowOK, PnsOK,
             TableOK, BackedOK, ErrOK, counts, credits, rxflow, pns
<1>2. CASE max_streams_frame(d, v)
  <2>1. peer_max_streams' \in [Dirs -> Nat]
    BY <1>2 DEF max_streams_frame, MaxOf, Legal, CountsOK
  <2> QED BY <1>2, <2>1 DEF max_streams_frame, Legal, CountsOK, CreditOK, RxFlowOK, TxFlowOK, PnsOK,
             TableOK, BackedOK, ErrOK, credits, rxflow, txflow, pns
<1> QED BY <1>1, <1>2

LEMMA RecordLegal ==
    ASSUME Legal, NEW r, NEW acked \in BOOLEAN, stream_record(r, acked)
    PROVE  Legal'
<1> DEFINE slots == [i \in Slots |-> AfterRecord(i, r, acked)]
<1>1. /\ AllGood(st) /\ RecsOK(rec, st) /\ Backed(st, next_peer, my_max_streams) /\ CreditOK
      /\ next_peer \in [Dirs -> Nat] /\ r \in rec
  BY DEF Legal, TableOK, BackedOK, CountsOK, stream_record
<1>2. r \in Records /\ RecordOK(r, st)
  BY <1>1 DEF RecsOK
<1>3. \A i \in Slots : Good(slots[i]) /\ SameSlot(st[i], slots[i])
  <2> TAKE i \in Slots
  <2>1. Good(st[i])
    BY <1>1 DEF AllGood
  <2>2. r.slot = i => r.off + r.len <= st[i].tx_hi
    BY <1>2, TpAssumption DEF RecordOK, NoSlot, Slots
  <2>3. LET t == AfterRecord(i, r, acked) IN Good(t) /\ SameSlot(st[i], t)
    BY <1>2, <2>1, <2>2, AfterRecordGood
  <2> QED BY <2>3
<1>4. slots \in [Slots -> Stream]
  BY <1>3 DEF Good
<1>5. PICK T, owed : maybe_free(slots, T, rec \ {r}, owed)
  BY DEF stream_record
<1> HIDE DEF slots
<1>6. AllGood(slots) /\ SameTable(st, slots)
  BY <1>1, <1>3, <1>4, SameMore DEF AllGood, SameTable
<1>7. RecsOK(rec \ {r}, slots) /\ Backed(slots, next_peer, my_max_streams)
  <2>1. RecsOK(rec, slots)
    BY <1>1, <1>6, SameRecords
  <2> QED BY <1>1, <1>6, <2>1, SameBacked DEF RecsOK
<1>8. /\ AllGood(st') /\ RecsOK(rec', st')
      /\ my_max_streams' \in [Dirs -> Nat] /\ ms_pend' \in [Dirs -> BOOLEAN]
      /\ Backed(st', next_peer, my_max_streams')
  BY <1>1, <1>5, <1>6, <1>7, MaybeFreeGood DEF CreditOK
<1>9. md_pend' \in BOOLEAN
  <2>1. md_pend' = (md_pend \/ (~acked /\ "MAXDATA" \in r.ctl /\ md_pn = r.pn))
    BY DEF stream_record
  <2> QED BY <2>1
<1> QED BY <1>8, <1>9 DEF stream_record, Legal, CountsOK, CreditOK, RxFlowOK, TxFlowOK, PnsOK,
           TableOK, BackedOK, ErrOK, counts, txflow, pns

\* Where a pending control frame belongs: a slot, the connection, or a direction.
Places == (Slots \cup {0}) \cup Dirs

LEMMA PendingPlaces == Pending \subseteq Kinds \X Places
BY DEF Pending, Kinds, Places

LEMMA PendingFinite == IsFiniteSet(Pending) /\ Cardinality(Pending) \in Nat
<1>1. \A x : IsFiniteSet({x})
  BY FS_Singleton
<1>2. \A S, T : IsFiniteSet(S) /\ IsFiniteSet(T) => IsFiniteSet(S \cup T)
  BY FS_Union
<1>3. IsFiniteSet(Places)
  <2>1. Places = (Slots \cup {0}) \cup ({BIDI} \cup {UNI})
    BY DEF Places, Dirs
  <2> QED BY <1>1, <1>2, <2>1, SlotsFinite
<1>4. IsFiniteSet(Kinds)
  <2>1. Kinds = (({"RESET"} \cup {"STOP"}) \cup ({"MAXDATA"} \cup {"MSD"})) \cup {"MAXSTR"}
    BY DEF Kinds
  <2> QED BY <1>1, <1>2, <2>1
<1>5. IsFiniteSet(Kinds \X Places)
  BY <1>3, <1>4, FS_Product
<1> QED BY <1>5, PendingPlaces, FS_Subset, FS_CardinalityType

LEMMA ControlKinds ==
    ASSUME NEW room
    PROVE  {x[1] : x \in Control(room)} \subseteq Kinds
<1>1. Control(room) \subseteq Kinds \X Places
  BY PendingPlaces DEF Control
<1>2. \A x \in Kinds \X Places : x[1] \in Kinds
  OBVIOUS
<1> QED BY <1>1, <1>2

\* A packet leaves: every slot may lose pending flags, one slot sends data.
LEMMA OutLegal ==
    ASSUME Legal, NEW room \in Nat, stream_out(room)
    PROVE  Legal'
<1> DEFINE u == Unit(room)
           Scanned(i) == \A j \in u.slot : i <= j
           ready(i) == LET s == AfterControl(i, u.ctl) IN
                       IF Scanned(i) /\ Sends(s) THEN SkipAcked(s) ELSE s
           kinds == {x[1] : x \in u.ctl}
           table == [i \in Slots |-> ready(i)]
<1>1. /\ AllGood(st) /\ RecsOK(rec, st) /\ Backed(st, next_peer, my_max_streams)
      /\ tx_pn \in Nat /\ TxFlowOK /\ err = NoErr
  BY DEF Legal, TableOK, BackedOK, PnsOK, stream_out
<1>2. u.ctl = Control(room) /\ u.left = room - Cardinality(Pending)
      /\ u.slot \subseteq {i \in Slots : CanSend(SkipAcked(AfterControl(i, u.ctl)), u.left)}
  BY DEF Unit
<1>3. kinds \subseteq Kinds
  BY <1>2, ControlKinds
<1>4. u.left \in Int
  BY <1>2, PendingFinite
<1>5. \A i \in Slots : Good(ready(i)) /\ SameSlot(st[i], ready(i))
  <2> TAKE i \in Slots
  <2> DEFINE s == AfterControl(i, u.ctl)
  <2>1. Good(s) /\ SameSlot(st[i], s)
    BY <1>1, AfterControlGood DEF AllGood
  <2> HIDE DEF s
  <2>2. Good(SkipAcked(s)) /\ SameSlot(s, SkipAcked(s))
    BY <2>1, SkipAckedGood
  <2>3. ready(i) \in {s, SkipAcked(s)}
    BY DEF s
  <2> HIDE DEF ready
  <2> QED BY <2>1, <2>2, <2>3 DEF SameSlot
<1>6. /\ md_pend' = (md_pend /\ <<"MAXDATA", 0>> \notin u.ctl)
      /\ md_pn' = IF <<"MAXDATA", 0>> \in u.ctl THEN tx_pn ELSE md_pn
      /\ ms_pend' = [d \in Dirs |-> ms_pend[d] /\ <<"MAXSTR", d>> \notin u.ctl]
      /\ ms_pn' = [d \in Dirs |-> IF <<"MAXSTR", d>> \in u.ctl THEN tx_pn ELSE ms_pn[d]]
      /\ UNCHANGED <<counts, my_max_streams, max_data_rx, sum_rx, consumed, max_data_tx, err>>
  BY DEF stream_out
<1>7. CASE /\ st' = table
           /\ \/ rec' = rec
              \/ rec' = rec \cup {[pn |-> tx_pn, id |-> Id(FALSE, BIDI, 0), slot |-> NoSlot, off |-> 0,
                                  len |-> 0, fin |-> FALSE, ctl |-> kinds]}
           /\ tx_pn' \in {tx_pn, tx_pn + 1} /\ UNCHANGED sent_tx
  <2> DEFINE q == [pn |-> tx_pn, id |-> Id(FALSE, BIDI, 0), slot |-> NoSlot, off |-> 0,
                   len |-> 0, fin |-> FALSE, ctl |-> kinds]
  <2>1. q \in Records /\ RecordOK(q, st')
    BY <1>1, <1>3 DEF Records, RecordOK, NoSlot, StreamIds, Id, Dirs
  <2> HIDE DEF q
  <2>2. AllGood(table) /\ SameTable(st, table)
    <3> HIDE DEF ready
    <3>1. table \in [Slots -> Stream]
      BY <1>5 DEF Good
    <3> QED BY <1>1, <1>5, <3>1, SameMore DEF AllGood, SameTable
  <2> HIDE DEF table, kinds
  <2>3. RecsOK(rec, st') /\ AllGood(st') /\ Backed(st', next_peer, my_max_streams)
    BY <1>1, <1>7, <2>2, SameRecords, SameBacked
  <2>4. RecsOK(rec', st')
    BY <1>7, <2>1, <2>3 DEF RecsOK, q
  <2> QED BY <1>6, <1>7, <2>3, <2>4 DEF Legal, CountsOK, CreditOK, RxFlowOK, TxFlowOK, PnsOK,
             TableOK, BackedOK, ErrOK, counts, NatOrNone
<1>8. ASSUME NEW i \in u.slot,
             LET s == ready(i)
                 n == DataLen(s, u.left)
                 fin == DataFin(s, u.left)
             IN  /\ st' = [j \in Slots |-> IF j = i THEN AfterData(s, n, fin) ELSE ready(j)]
                 /\ rec' = rec \cup {[pn |-> tx_pn, id |-> s.id, slot |-> i, off |-> s.tx_next,
                                     len |-> n, fin |-> fin, ctl |-> kinds]}
                 /\ tx_pn' = tx_pn + 1
                 /\ sent_tx' = sent_tx + (MaxOf(s.tx_hi, s.tx_next + n) - s.tx_hi)
      PROVE  Legal'
  <2> DEFINE s == ready(i)
             n == DataLen(s, u.left)
             fin == DataFin(s, u.left)
             t == AfterData(s, n, fin)
             q == [pn |-> tx_pn, id |-> s.id, slot |-> i, off |-> s.tx_next,
                   len |-> n, fin |-> fin, ctl |-> kinds]
             new == [j \in Slots |-> IF j = i THEN t ELSE ready(j)]
  <2>1. i \in Slots /\ CanSend(SkipAcked(AfterControl(i, u.ctl)), u.left)
    BY <1>2
  <2>2. Good(AfterControl(i, u.ctl)) /\ Sends(AfterControl(i, u.ctl))
    <3> DEFINE c == AfterControl(i, u.ctl)
    <3>1. Good(c)
      BY <1>1, <2>1, AfterControlGood DEF AllGood
    <3> HIDE DEF c
    <3>2. Sends(SkipAcked(c))
      BY <2>1 DEF CanSend, c
    <3>3. SkipAcked(c).flags = c.flags
      BY <3>1 DEF SkipAcked, Good, Stream
    <3>4. Sends(c)
      BY <3>2, <3>3 DEF Sends, Has
    <3> QED BY <3>1, <3>4 DEF c
  <2>3. u.left >= 1
    BY <2>1 DEF CanSend
  <2>4. Good(s) /\ SameSlot(st[i], s) /\ Has(s, "USED")
    <3>1. Has(AfterControl(i, u.ctl), "USED")
      BY <2>2 DEF Good, SlotOK, Sends
    <3>2. SameSlot(st[i], AfterControl(i, u.ctl))
      BY <1>1, <2>1, AfterControlGood DEF AllGood
    <3> QED BY <1>5, <2>1, <3>1, <3>2 DEF SameSlot
  <2>a. \A j \in Slots : Good(ready(j)) /\ SameSlot(st[j], ready(j))
    BY <1>5
  <2>b. /\ st' = new /\ rec' = rec \cup {q} /\ tx_pn' = tx_pn + 1
        /\ sent_tx' = sent_tx + (MaxOf(s.tx_hi, s.tx_next + n) - s.tx_hi)
    BY <1>8
  <2> HIDE DEF ready
  <2> HIDE DEF s
  <2>5. n \in Nat /\ n <= Avail(s)
    <3>1. Avail(s) \in Nat
      BY <1>1, <2>4, AvailBound DEF TxFlowOK
    <3> HIDE DEF u
    <3> QED BY <1>4, <2>3, <3>1 DEF DataLen, MinOf
  <2>6. fin \in BOOLEAN
    BY DEF DataFin, FinDue, Has
  <2> HIDE DEF n, fin
  <2>7. /\ Good(t) /\ SentMore(s, t) /\ s.tx_next + n <= t.tx_hi
        /\ MaxOf(s.tx_hi, s.tx_next + n) - s.tx_hi \in Nat
        /\ sent_tx + (MaxOf(s.tx_hi, s.tx_next + n) - s.tx_hi) <= max_data_tx
    BY <1>1, <2>4, <2>5, <2>6, AfterDataGood DEF TxFlowOK
  <2> HIDE DEF t
  <2>8. AllGood(new) /\ SameTable(st, new)
    <3>1. \A j \in Slots : Good(new[j]) /\ SentMore(st[j], new[j])
      <4> TAKE j \in Slots
      <4>1. CASE j = i
        BY <2>4, <2>7, <4>1 DEF SameSlot, SentMore
      <4>2. CASE j # i
        BY <1>1, <2>a, <4>2, SameMore DEF AllGood
      <4> QED BY <4>1, <4>2
    <3>2. new \in [Slots -> Stream]
      BY <3>1 DEF Good
    <3> QED BY <3>1, <3>2 DEF AllGood, SameTable
  <2>9. q \in Records /\ RecordOK(q, new)
    <3>1. s.id \in StreamIds /\ s.tx_next \in Nat
      BY <2>4 DEF Good, Stream
    <3>2. q \in Records
      <4> HIDE DEF kinds
      <4> QED BY <1>1, <1>3, <2>1, <2>5, <2>6, <3>1 DEF Records
    <3>3. new[i] = t
      BY <2>1
    <3>4. Has(t, "USED") /\ t.id = s.id
      BY <2>4, <2>7 DEF SentMore
    <3> QED BY <2>7, <3>2, <3>3, <3>4 DEF RecordOK
  <2> HIDE DEF new, q
  <2>10. AllGood(st') /\ RecsOK(rec', st') /\ Backed(st', next_peer, my_max_streams)
    <3>1. RecsOK(rec, new) /\ Backed(new, next_peer, my_max_streams)
      BY <1>1, <2>8, SameRecords, SameBacked
    <3> QED BY <2>8, <2>9, <2>b, <3>1 DEF RecsOK
  <2>11. sent_tx' \in Nat /\ sent_tx' <= max_data_tx
    BY <1>1, <2>7, <2>b DEF TxFlowOK
  <2> HIDE DEF u
  <2> QED BY <1>6, <2>10, <2>11, <2>b DEF Legal, CountsOK, CreditOK, RxFlowOK, TxFlowOK, PnsOK,
             TableOK, BackedOK, ErrOK, counts, NatOrNone
<1> QED BY <1>7, <1>8 DEF stream_out

LEMMA StepLegal ==
    ASSUME Legal, Next
    PROVE  Legal'
<1>1. /\ Chunks \subseteq Nat /\ Rooms \subseteq Nat /\ Offsets \subseteq Nat
      /\ FrameIds \subseteq StreamIds
  BY BoundsAssumption DEF FrameIds, StreamIds
<1>2. CASE App
  BY <1>1, <1>2, OpenLegal, AcceptLegal, WriteLegal, ReadLegal, AbortLegal DEF App
<1>3. CASE Peer
  <2>1. ASSUME NEW id \in FrameIds, NEW off \in Offsets, NEW n \in Chunks, NEW fin \in BOOLEAN,
               stream_frame(id, off, n, fin)
        PROVE  Legal'
    BY <1>1, <2>1, FrameLegal
  <2>2. ASSUME NEW type \in CtlTypes, NEW id \in FrameIds, NEW a \in Offsets,
               stream_ctl(type, id, a)
        PROVE  Legal'
    BY <1>1, <2>2, CtlLegal
  <2>3. ASSUME NEW v \in Offsets, NEW d \in Dirs, max_data_frame(v) \/ max_streams_frame(d, v)
        PROVE  Legal'
    BY <1>1, <2>3, LimitsLegal
  <2>4. BIDI \in Dirs
    BY DEF Dirs
  <2> QED BY <1>3, <2>1, <2>2, <2>3, <2>4 DEF Peer
<1>4. CASE Packets
  BY <1>1, <1>4, OutLegal, RecordLegal DEF Packets
<1> QED BY <1>2, <1>3, <1>4 DEF Next

LEMMA StutterLegal ==
    ASSUME Legal, UNCHANGED vars
    PROVE  Legal'
BY DEF Legal, CountsOK, CreditOK, RxFlowOK, TxFlowOK, PnsOK, TableOK, BackedOK, ErrOK,
       vars, counts, credits, rxflow, txflow, pns

-----------------------------------------------------------------------------
(* Theorems *)

\* The offsets of every slot, the records and the credit for streams of the peer stay consistent.
THEOREM Invariance == Spec => []IInv
<1>1. Init => IInv
  BY InitLegal, LegalIsIInv
<1>2. IInv /\ [Next]_vars => IInv'
  BY StepLegal, StutterLegal, LegalIsIInv, NextLegalIsIInv
<1> QED BY <1>1, <1>2, PTL DEF Spec

\* Every field of the stream layer keeps its type, with any peer.
THEOREM TypeCorrect == Spec => []TypeOK
<1>1. IInv => TypeOK
  BY DEF IInv
<1> QED BY <1>1, Invariance, PTL

\* Behind every stream the peer may still open there is a free slot.
THEOREM Reservation == Spec => []ReservationHolds
<1>1. IInv => ReservationHolds
  <2> SUFFICES ASSUME IInv, err = NoErr PROVE Cardinality(free_slots(st)) >= reserved
    BY DEF ReservationHolds
  <2>1. /\ next_peer[BIDI] \in Nat /\ next_peer[UNI] \in Nat
        /\ my_max_streams[BIDI] \in Nat /\ my_max_streams[UNI] \in Nat
    BY DEF IInv, TypeOK, Dirs
  <2> QED BY <2>1, FreeFinite DEF IInv, Backed, reserved
<1> QED BY <1>1, Invariance, PTL

\* No frame of any peer makes implicit opening run out of slots.
THEOREM Unreachable == Spec => []NeverInternal
<1>1. IInv => NeverInternal
  BY DEF IInv
<1> QED BY <1>1, Invariance, PTL

\* A reused slot is not touched by the packets of the stream it held before.
THEOREM RecordsName == Spec => []RecordsNameTheirStream
<1>1. IInv => RecordsNameTheirStream
  BY DEF IInv, RecordOK, RecordsNameTheirStream
<1> QED BY <1>1, Invariance, PTL

\* Windows never promise more than a ring holds.
THEOREM WindowsFit == Spec => []WindowFitsRing
<1>1. IInv => WindowFitsRing
  BY DEF IInv, SlotOK, WindowFitsRing, Used
<1> QED BY <1>1, Invariance, PTL

\* Every byte in a receive ring sits at the position of its offset.
THEOREM ReceiveInOrder == Spec => []RxRingInOrder
<1>1. IInv => RxRingInOrder
  BY DEF IInv, RingsOK, RxRingInOrder, Used
<1> QED BY <1>1, Invariance, PTL

\* Every byte not yet acknowledged can be sent again.
THEOREM SendRingComplete == Spec => []TxRingHoldsUnacked
<1>1. IInv => TxRingHoldsUnacked
  BY DEF IInv, RingsOK, TxRingHoldsUnacked, Used
<1> QED BY <1>1, Invariance, PTL

\* Both rings hold each byte at the position of its offset: what is read, and what is sent
\* again, is what was sent and written.
THEOREM RingsCorrect == Spec => []RingsInOrder
<1>1. RxRingInOrder /\ TxRingHoldsUnacked => RingsInOrder
  BY DEF RingsInOrder
<1> QED BY <1>1, ReceiveInOrder, SendRingComplete, PTL

-----------------------------------------------------------------------------
(* Conservation, proved for every number of slots, ring size, transport    *)
(* parameter and peer: connection credit and stream credit are neither     *)
(* lost nor made, no byte, FIN or RESET_STREAM is forgotten, and final     *)
(* sizes stay what they are.  The invariant is CInv.                       *)

\* t has the sending half of s, and the receiving half of s, as far as conservation looks at them.
TxFlags == {"TX", "TX_FIN", "FIN_SENT", "FIN_ACKED", "STOP", "RST_PEND", "RST_ACKED"}
RxFlags == {"RX", "RX_ABORT", "RX_RESET", "RX_DONE"}

Same(s, t) == t.id = s.id /\ (Has(t, "USED") <=> Has(s, "USED"))

TxSame(s, t) ==
    /\ Same(s, t)
    /\ t.tx_base = s.tx_base /\ t.tx_next = s.tx_next /\ t.tx_hi = s.tx_hi /\ t.tx_len = s.tx_len
    /\ t.ack_lo = s.ack_lo /\ t.ack_hi = s.ack_hi /\ t.reset_pn = s.reset_pn
    /\ \A f \in TxFlags : Has(t, f) <=> Has(s, f)

RxSame(s, t) ==
    /\ Same(s, t)
    /\ t.rx_read = s.rx_read /\ t.rx_hi = s.rx_hi /\ t.rx_final = s.rx_final
    /\ \A f \in RxFlags : Has(t, f) <=> Has(s, f)

-----------------------------------------------------------------------------
(* What the receiving operators change *)

\* The sending half of the stream is what it was.
LEMMA TxSameTrans ==
    ASSUME NEW s, NEW t, NEW u, TxSame(s, t), TxSame(t, u)
    PROVE  TxSame(s, u)
BY DEF TxSame, Same

\* The receiving half of the stream is what it was.
LEMMA RxSameTrans ==
    ASSUME NEW s, NEW t, NEW u, RxSame(s, t), RxSame(t, u)
    PROVE  RxSame(s, u)
BY DEF RxSame, Same

\* Flags of the receiving half do not touch the sending half, and no offset.
LEMMA RxFlagsEffect ==
    ASSUME NEW s \in Stream, NEW fs, fs \cap (TxFlags \cup {"USED"}) = {}
    PROVE  /\ TxSame(s, Set(s, fs)) /\ TxSame(s, Clear(s, fs))
           /\ \A t \in {Set(s, fs), Clear(s, fs)} :
                 t.rx_read = s.rx_read /\ t.rx_hi = s.rx_hi /\ t.rx_final = s.rx_final
BY DEF TxSame, Same, TxFlags, Set, Clear, Stream, Has

\* A frame raises the highest offset and may fix the final size.
LEMMA GrownEffect ==
    ASSUME NEW s \in Stream, NEW end \in Nat, NEW fin \in BOOLEAN
    PROVE  LET g == [Grow(s, end) EXCEPT !.rx_final = IF fin THEN end ELSE @] IN
           /\ TxSame(s, g) /\ g.flags = s.flags /\ g.rx_read = s.rx_read
           /\ g.rx_hi = MaxOf(s.rx_hi, end)
           /\ g.rx_final = IF fin THEN end ELSE s.rx_final
           /\ g \in Stream
BY DEF TxSame, Same, Grow, Stream, Has, MaxOf, NatOrNone

\* Bytes copied into the ring move no offset.
LEMMA FillEffect ==
    ASSUME NEW s \in Stream, NEW off, NEW end
    PROVE  TxSame(s, Fill(s, off, end)) /\ RxSame(s, Fill(s, off, end))
BY DEF Fill, TxSame, RxSame, Same, Stream, Has

\* A receiving part that is dropped counts as read, and is over at its final size.
LEMMA DropEffect ==
    ASSUME NEW s \in Stream
    PROVE  LET t == rx_drop(s) IN
           /\ TxSame(s, t)
           /\ t.rx_read = s.rx_hi /\ t.rx_hi = s.rx_hi /\ t.rx_final = s.rx_final
           /\ \A f \in {"RX", "RX_ABORT", "RX_RESET"} : Has(t, f) <=> Has(s, f)
           /\ Has(t, "RX_DONE") => Has(s, "RX_DONE") \/ s.rx_final = s.rx_hi
<1> DEFINE r == [s EXCEPT !.rx_read = s.rx_hi]
           u == Clear(Set(r, {"RX_DONE"}), {"SS_PEND"})
<1>1. r \in Stream /\ r.rx_read = s.rx_hi /\ r.rx_hi = s.rx_hi /\ r.rx_final = s.rx_final
      /\ r.flags = s.flags
  BY DEF Stream
<1>2. TxSame(s, r)
  BY DEF TxSame, Same, Stream, Has
<1>3. rx_drop(s) = IF Final(r) /\ r.rx_read = r.rx_final THEN u ELSE r
  BY DEF rx_drop
<1>4. /\ TxSame(r, u) /\ u.rx_read = r.rx_read /\ u.rx_hi = r.rx_hi /\ u.rx_final = r.rx_final
      /\ u.flags = (r.flags \cup {"RX_DONE"}) \ {"SS_PEND"}
  BY <1>1 DEF TxSame, Same, TxFlags, Set, Clear, Stream, Has
<1> HIDE DEF r, u
<1>5. TxSame(s, u)
  BY <1>2, <1>4, TxSameTrans
<1> QED BY <1>1, <1>2, <1>3, <1>4, <1>5 DEF Has

\* RESET_STREAM: the receiving half was read to its final size.
LEMMA ResetEffect ==
    ASSUME NEW s \in Stream, NEW b \in Nat, s.rx_hi <= b
    PROVE  LET g == [Grow(s, b) EXCEPT !.rx_final = b]
               r == Set([g EXCEPT !.rx_ring = Empty, !.rx_read = b], {"RX_RESET"})
               d == Clear(Set(r, {"RX_DONE"}), {"SS_PEND"})
           IN  /\ TxSame(s, g) /\ g.flags = s.flags /\ g.rx_read = s.rx_read
               /\ g.rx_hi = b /\ g.rx_final = b
               /\ \A t \in {r, d} :
                    /\ TxSame(s, t) /\ t.rx_read = b /\ t.rx_hi = b /\ t.rx_final = b
                    /\ \A f \in {"RX", "RX_ABORT"} : Has(t, f) <=> Has(s, f)
               /\ Has(r, "RX_DONE") <=> Has(s, "RX_DONE")
<1> DEFINE h == [s EXCEPT !.rx_hi = b, !.rx_final = b]
           e == [s EXCEPT !.rx_hi = b, !.rx_final = b, !.rx_ring = Empty, !.rx_read = b]
           r == Set(e, {"RX_RESET"})
           d == Clear(Set(r, {"RX_DONE"}), {"SS_PEND"})
<1>0. MaxOf(s.rx_hi, b) = b
  BY DEF MaxOf, Stream
<1>1. [Grow(s, b) EXCEPT !.rx_final = b] = h
  BY <1>0 DEF Grow, Stream
<1>2. [h EXCEPT !.rx_ring = Empty, !.rx_read = b] = e
  BY DEF Stream
<1>3. TxSame(s, h) /\ h.flags = s.flags /\ h.rx_read = s.rx_read /\ h.rx_hi = b /\ h.rx_final = b
  BY DEF TxSame, Same, Stream, Has
<1>4. /\ TxSame(s, e) /\ e.flags = s.flags /\ e.rx_read = b /\ e.rx_hi = b /\ e.rx_final = b
      /\ e \in Stream
  BY EmptyType DEF TxSame, Same, Stream, Has, NatOrNone
<1>5. /\ TxSame(e, r) /\ r.rx_read = b /\ r.rx_hi = b /\ r.rx_final = b
      /\ r.flags = s.flags \cup {"RX_RESET"} /\ r \in Stream
  BY <1>4 DEF TxSame, Same, TxFlags, Set, Stream, Has, Flags
<1> HIDE DEF h, e, r
<1>6. /\ TxSame(r, d) /\ d.rx_read = b /\ d.rx_hi = b /\ d.rx_final = b
      /\ d.flags = (r.flags \cup {"RX_DONE"}) \ {"SS_PEND"}
  BY <1>5 DEF TxSame, Same, TxFlags, Set, Clear, Stream, Has
<1> HIDE DEF d
<1>7. TxSame(s, r) /\ TxSame(s, d)
  BY <1>4, <1>5, <1>6, TxSameTrans
<1>8. \A t \in {r, d} : \A f \in {"RX", "RX_ABORT"} : Has(t, f) <=> Has(s, f)
  BY <1>5, <1>6 DEF Has
<1>9. Has(r, "RX_DONE") <=> Has(s, "RX_DONE")
  BY <1>5 DEF Has
<1> QED BY <1>1, <1>2, <1>3, <1>5, <1>6, <1>7, <1>8, <1>9 DEF r, d

\* Reading n bytes.
LEMMA ReadEffect ==
    ASSUME NEW s \in Stream, NEW n \in Nat
    PROVE  LET t == CreditStream(Drained(s, n)) IN
           /\ TxSame(s, t) /\ t.rx_read = s.rx_read + n /\ t.rx_hi = s.rx_hi
           /\ t.rx_final = s.rx_final
           /\ \A f \in RxFlags : Has(t, f) <=> Has(s, f)
<1> DEFINE r == Drained(s, n)
           m == [r EXCEPT !.rx_max = r.rx_read + rx_window(r.id)]
<1>1. /\ TxSame(s, r) /\ r.rx_read = s.rx_read + n /\ r.rx_hi = s.rx_hi
      /\ r.rx_final = s.rx_final /\ r.flags = s.flags
  BY DEF Drained, TxSame, Same, Stream, Has
<1>2. /\ TxSame(r, m) /\ m.rx_read = r.rx_read /\ m.rx_hi = r.rx_hi
      /\ m.rx_final = r.rx_final /\ m.flags = r.flags
  BY DEF Drained, TxSame, Same, Stream, Has
<1>3. LET t == Set(m, {"MSD_PEND"}) IN
      /\ TxSame(m, t) /\ t.rx_read = m.rx_read /\ t.rx_hi = m.rx_hi
      /\ t.rx_final = m.rx_final /\ t.flags = m.flags \cup {"MSD_PEND"}
  BY DEF Drained, TxSame, Same, TxFlags, Set, Stream, Has
<1>4. CreditStream(r) \in {r, Set(m, {"MSD_PEND"})}
  BY DEF CreditStream
<1> HIDE DEF r, m
<1>5. TxSame(s, Set(m, {"MSD_PEND"}))
  BY <1>1, <1>2, <1>3, TxSameTrans
<1> QED BY <1>1, <1>2, <1>3, <1>4, <1>5 DEF r, RxFlags, Has

\* Cancelling the receiving half.
LEMMA AbortRxEffect ==
    ASSUME NEW s \in Stream, Has(s, "RX_RESET") => s.rx_final = s.rx_hi /\ s.rx_read = s.rx_hi
    PROVE  LET t == AbortRx(s) IN
           /\ TxSame(s, t) /\ t.rx_hi = s.rx_hi /\ t.rx_final = s.rx_final /\ t.rx_read = s.rx_hi
           /\ \A f \in {"RX", "RX_RESET"} : Has(t, f) <=> Has(s, f)
           /\ Has(t, "RX_DONE") => Has(s, "RX_DONE") \/ s.rx_final = s.rx_hi
<1> DEFINE e == [s EXCEPT !.rx_ring = Empty]
           a == Set(e, {"RX_ABORT"})
           b == IF Has(s, "RX_RESET") \/ (Final(s) /\ s.rx_hi = s.rx_final)
                THEN a ELSE Set(a, {"SS_PEND"})
           x == Set(b, {"RX_DONE"})
<1>1. /\ TxSame(s, a) /\ a.rx_read = s.rx_read /\ a.rx_hi = s.rx_hi /\ a.rx_final = s.rx_final
      /\ a.flags = s.flags \cup {"RX_ABORT"} /\ a \in Stream
  BY EmptyType DEF TxSame, Same, TxFlags, Set, Stream, Has, Flags
<1> HIDE DEF a
<1>2. /\ TxSame(a, b) /\ b.rx_read = s.rx_read /\ b.rx_hi = s.rx_hi /\ b.rx_final = s.rx_final
      /\ b.flags \in {a.flags, a.flags \cup {"SS_PEND"}} /\ b \in Stream
  BY <1>1 DEF TxSame, Same, TxFlags, Set, Stream, Has, Flags
<1> HIDE DEF b
<1>3. /\ TxSame(b, x) /\ x.rx_read = s.rx_read /\ x.rx_hi = s.rx_hi /\ x.rx_final = s.rx_final
      /\ x.flags = b.flags \cup {"RX_DONE"}
  BY <1>2 DEF TxSame, Same, TxFlags, Set, Stream, Has
<1> HIDE DEF x
<1>4. LET t == rx_drop(b) IN
      /\ TxSame(b, t)
      /\ t.rx_read = b.rx_hi /\ t.rx_hi = b.rx_hi /\ t.rx_final = b.rx_final
      /\ \A f \in {"RX", "RX_ABORT", "RX_RESET"} : Has(t, f) <=> Has(b, f)
      /\ Has(t, "RX_DONE") => Has(b, "RX_DONE") \/ b.rx_final = b.rx_hi
  BY <1>2, DropEffect
<1>5. AbortRx(s) = IF Has(s, "RX_RESET") THEN x ELSE rx_drop(b)
  BY DEF AbortRx, a, b, x
<1>6. TxSame(s, x) /\ TxSame(s, rx_drop(b))
  BY <1>1, <1>2, <1>3, <1>4, TxSameTrans
<1> QED BY <1>1, <1>2, <1>3, <1>4, <1>5, <1>6 DEF Has

-----------------------------------------------------------------------------
(* What the sending operators change *)

\* Every byte sent and not acknowledged is sent again, acknowledged above the prefix, or in X.
Accounted(s, X) ==
    \A o \in s.tx_base..(s.tx_hi - 1) :
        o >= s.tx_next \/ (s.ack_lo <= o /\ o < s.ack_hi) \/ o \in X

Flying(i, records) == {o \in Nat : InFlight(i, o, records)}

\* The offsets of the sending half may have moved, its flags, its size and its reset have not.
Moved(s, t) ==
    /\ RxSame(s, t) /\ t.flags = s.flags
    /\ t.tx_hi = s.tx_hi /\ t.tx_len = s.tx_len /\ t.reset_pn = s.reset_pn

\* Two moves are one.
LEMMA MovedTrans ==
    ASSUME NEW s, NEW t, NEW u, Moved(s, t), Moved(t, u)
    PROVE  Moved(s, u)
BY DEF Moved, RxSame, Same

\* What BytesKept says, with the offsets as a set.
LEMMA KeptAccounted ==
    ASSUME NEW i, NEW s \in Stream, NEW records
    PROVE  BytesKept(i, s, records) <=> (Sends(s) => Accounted(s, Flying(i, records)))
<1>1. s.tx_base \in Nat /\ s.tx_hi \in Nat
  BY DEF Stream
<1>2. \A o \in s.tx_base..(s.tx_hi - 1) : o \in Nat
  BY <1>1
<1> QED BY <1>2 DEF BytesKept, Accounted, Flying

\* The acknowledged prefix moves.
LEMMA AdvanceEffect ==
    ASSUME NEW s, Good(s), NEW to \in Nat, NEW X, Accounted(s, X \cup (s.tx_base..(to - 1)))
    PROVE  LET t == tx_advance(s, to) IN
           /\ Moved(s, t) /\ t.ack_lo = s.ack_lo /\ t.ack_hi = s.ack_hi
           /\ t.tx_base = MaxOf(s.tx_base, to) /\ Accounted(t, X)
<1>1. s.tx_base \in Nat /\ s.tx_next \in Nat /\ s.tx_hi \in Nat
  BY DEF Good, Stream
<1>2. CASE to <= s.tx_base
  <2>1. tx_advance(s, to) = s
    BY <1>1, <1>2 DEF tx_advance
  <2>2. MaxOf(s.tx_base, to) = s.tx_base
    BY <1>1, <1>2 DEF MaxOf
  <2>3. Accounted(s, X)
    BY <1>1, <1>2 DEF Accounted
  <2> QED BY <2>1, <2>2, <2>3 DEF Moved, RxSame, Same
<1>3. CASE to > s.tx_base
  <2> DEFINE t == tx_advance(s, to)
  <2>1. /\ t.tx_base = to /\ t.tx_next = MaxOf(s.tx_next, to) /\ Moved(s, t)
        /\ t.ack_lo = s.ack_lo /\ t.ack_hi = s.ack_hi /\ t.tx_hi = s.tx_hi
    BY <1>1, <1>3 DEF tx_advance, Moved, RxSame, Same, Has, Good, Stream
  <2>2. MaxOf(s.tx_base, to) = to
    BY <1>1, <1>3 DEF MaxOf
  <2>3. Accounted(t, X)
    BY <1>1, <1>3, <2>1 DEF Accounted, MaxOf
  <2> QED BY <2>1, <2>2, <2>3
<1> QED BY <1>1, <1>2, <1>3

\* An acknowledged range is in the prefix, in the range kept, or sent again.
LEMMA AckBytesEffect ==
    ASSUME NEW s, Good(s), NEW off \in Nat, NEW end \in Nat, off <= end,
           NEW X, Accounted(s, X \cup (off..(end - 1)))
    PROVE  LET t == AckBytes(s, off, end) IN Moved(s, t) /\ Accounted(t, X)
<1>1. /\ s.tx_base \in Nat /\ s.tx_next \in Nat /\ s.tx_hi \in Nat
      /\ s.ack_lo \in Nat /\ s.ack_hi \in Nat /\ s.ack_lo <= s.ack_hi /\ s.tx_base <= s.tx_next
  BY DEF Good, SlotOK, Stream
<1>2. CASE off <= s.tx_base
  <2>1. Accounted(s, X \cup (s.tx_base..(end - 1)))
    BY <1>1, <1>2 DEF Accounted
  <2>2. LET t == tx_advance(s, end) IN Moved(s, t) /\ Accounted(t, X)
    BY <2>1, AdvanceEffect
  <2> QED BY <1>2, <2>2 DEF AckBytes
<1>3. CASE off > s.tx_base /\ ~HasRange(s)
  <2> DEFINE t == [s EXCEPT !.ack_lo = off, !.ack_hi = end]
  <2>1. AckBytes(s, off, end) = t
    BY <1>1, <1>3 DEF AckBytes
  <2>2. /\ t.tx_base = s.tx_base /\ t.tx_next = s.tx_next /\ t.tx_hi = s.tx_hi
        /\ t.ack_lo = off /\ t.ack_hi = end /\ Moved(s, t)
    BY DEF Moved, RxSame, Same, Has, Good, Stream
  <2> HIDE DEF t
  <2>3. Accounted(t, X)
    BY <1>1, <1>3, <2>2 DEF Accounted, HasRange
  <2> QED BY <2>1, <2>2, <2>3
<1>4. CASE off > s.tx_base /\ HasRange(s) /\ off <= s.ack_hi /\ end >= s.ack_lo
  <2> DEFINE t == [s EXCEPT !.ack_lo = MinOf(@, off), !.ack_hi = MaxOf(@, end)]
  <2>1. AckBytes(s, off, end) = t
    BY <1>1, <1>4 DEF AckBytes
  <2>2. /\ t.tx_base = s.tx_base /\ t.tx_next = s.tx_next /\ t.tx_hi = s.tx_hi
        /\ t.ack_lo = MinOf(s.ack_lo, off) /\ t.ack_hi = MaxOf(s.ack_hi, end) /\ Moved(s, t)
    BY DEF Moved, RxSame, Same, Has, Good, Stream
  <2> HIDE DEF t
  <2>3. Accounted(t, X)
    BY <1>1, <1>4, <2>2 DEF Accounted, MinOf, MaxOf
  <2> QED BY <2>1, <2>2, <2>3
<1>5. CASE off > s.tx_base /\ HasRange(s) /\ ~(off <= s.ack_hi /\ end >= s.ack_lo)
  <2> DEFINE t == [s EXCEPT !.tx_next = MinOf(@, off)]
  <2>1. AckBytes(s, off, end) = t
    BY <1>1, <1>5 DEF AckBytes
  <2>2. /\ t.tx_base = s.tx_base /\ t.tx_next = MinOf(s.tx_next, off) /\ t.tx_hi = s.tx_hi
        /\ t.ack_lo = s.ack_lo /\ t.ack_hi = s.ack_hi /\ Moved(s, t)
    BY DEF Moved, RxSame, Same, Has, Good, Stream
  <2> HIDE DEF t
  <2>3. Accounted(t, X)
    BY <1>1, <2>2 DEF Accounted, MinOf
  <2> QED BY <2>1, <2>2, <2>3
<1> QED BY <1>1, <1>2, <1>3, <1>4, <1>5

\* The range kept joins the prefix when it touches it.
LEMMA JoinRangeEffect ==
    ASSUME NEW s, Good(s), NEW X, Accounted(s, X)
    PROVE  Moved(s, JoinRange(s)) /\ Accounted(JoinRange(s), X)
<1>1. /\ s.tx_base \in Nat /\ s.tx_next \in Nat /\ s.tx_hi \in Nat
      /\ s.ack_lo \in Nat /\ s.ack_hi \in Nat
  BY DEF Good, Stream
<1>2. CASE ~(HasRange(s) /\ s.ack_lo <= s.tx_base)
  <2>1. JoinRange(s) = s
    BY <1>2 DEF JoinRange
  <2> QED BY <2>1 DEF Moved, RxSame, Same
<1>3. CASE HasRange(s) /\ s.ack_lo <= s.tx_base
  <2> DEFINE u == tx_advance(s, s.ack_hi)
             t == [u EXCEPT !.ack_lo = 0, !.ack_hi = 0]
  <2>1. Accounted(s, X \cup (s.tx_base..(s.ack_hi - 1)))
    BY <1>1 DEF Accounted
  <2>2. /\ Moved(s, u) /\ u.ack_lo = s.ack_lo /\ u.ack_hi = s.ack_hi
        /\ u.tx_base = MaxOf(s.tx_base, s.ack_hi) /\ Accounted(u, X)
    BY <1>1, <2>1, AdvanceEffect
  <2>3. s.ack_hi <= s.tx_hi
    BY DEF Good, SlotOK
  <2>4. Good(u) /\ u.tx_hi = s.tx_hi
    BY <1>1, <2>3, AdvanceGood
  <2>5. JoinRange(s) = t
    BY <1>3 DEF JoinRange
  <2> HIDE DEF u
  <2>6. /\ t.tx_base = u.tx_base /\ t.tx_next = u.tx_next /\ t.tx_hi = u.tx_hi
        /\ t.ack_lo = 0 /\ t.ack_hi = 0 /\ Moved(u, t)
    BY <2>4 DEF Moved, RxSame, Same, Has, Good, Stream
  <2> HIDE DEF t
  <2>7. Accounted(t, X)
    <3>1. \A o \in u.tx_base..(u.tx_hi - 1) : o >= s.ack_hi
      BY <1>1, <2>2, <2>4 DEF MaxOf
    <3> QED BY <1>1, <2>2, <2>4, <2>6, <3>1 DEF Accounted
  <2> QED BY <2>2, <2>5, <2>6, <2>7, MovedTrans
<1> QED BY <1>2, <1>3

\* The acknowledged range of a record, and its FIN.
LEMMA AckDataEffect ==
    ASSUME NEW s, Good(s), NEW r \in Records, r.off + r.len <= s.tx_hi,
           NEW X, Accounted(s, X \cup (r.off..(r.off + r.len - 1)))
    PROVE  LET t == AckData(s, r) IN
           /\ Accounted(t, X) /\ RxSame(s, t)
           /\ t.flags = IF r.fin THEN s.flags \cup {"FIN_ACKED"} ELSE s.flags
           /\ t.tx_hi = s.tx_hi /\ t.tx_len = s.tx_len /\ t.reset_pn = s.reset_pn
<1> DEFINE u == IF r.fin THEN Set(s, {"FIN_ACKED"}) ELSE s
           v == AckBytes(u, r.off, r.off + r.len)
<1>1. r.off \in Nat /\ r.len \in Nat /\ r.off + r.len \in Nat /\ r.off <= r.off + r.len
  BY DEF Records
<1>2. Good(u)
  BY FlagsGood DEF Flags
<1>3. /\ RxSame(s, u) /\ u.tx_hi = s.tx_hi /\ u.tx_len = s.tx_len /\ u.reset_pn = s.reset_pn
      /\ u.flags = IF r.fin THEN s.flags \cup {"FIN_ACKED"} ELSE s.flags
      /\ u.tx_base = s.tx_base /\ u.tx_next = s.tx_next
      /\ u.ack_lo = s.ack_lo /\ u.ack_hi = s.ack_hi
  BY DEF RxSame, RxFlags, Same, Set, Has, Good, Stream
<1>4. Accounted(u, X \cup (r.off..(r.off + r.len - 1)))
  BY <1>3 DEF Accounted
<1> HIDE DEF u
<1>5. Moved(u, v) /\ Accounted(v, X)
  BY <1>1, <1>2, <1>4, AckBytesEffect
<1>6. Good(v)
  BY <1>1, <1>2, <1>3, AckBytesGood
<1> HIDE DEF v
<1>7. Moved(v, JoinRange(v)) /\ Accounted(JoinRange(v), X)
  BY <1>5, <1>6, JoinRangeEffect
<1>8. AckData(s, r) = JoinRange(v)
  BY DEF AckData, u, v
<1> QED BY <1>3, <1>5, <1>7, <1>8, RxSameTrans DEF Moved

\* A lost range is sent again, and its FIN.
LEMMA LoseDataEffect ==
    ASSUME NEW s, Good(s), NEW r \in Records,
           NEW X, Accounted(s, X \cup (r.off..(r.off + r.len - 1)))
    PROVE  LET t == LoseData(s, r) IN
           /\ Accounted(t, X) /\ RxSame(s, t)
           /\ t.flags = IF r.fin THEN s.flags \ {"FIN_SENT"} ELSE s.flags
           /\ t.tx_hi = s.tx_hi /\ t.tx_len = s.tx_len /\ t.reset_pn = s.reset_pn
<1> DEFINE next == IF r.off < s.tx_next THEN MaxOf(r.off, s.tx_base) ELSE s.tx_next
           t == LoseData(s, r)
<1>1. /\ s.tx_base \in Nat /\ s.tx_next \in Nat /\ s.tx_hi \in Nat
      /\ s.ack_lo \in Nat /\ s.ack_hi \in Nat /\ s.tx_base <= s.tx_next
      /\ r.off \in Nat /\ r.len \in Nat
  BY DEF Good, SlotOK, Stream, Records
<1>2. CASE r.off + r.len > s.tx_base \/ r.fin
  <2>1. /\ t.tx_next = next /\ t.tx_base = s.tx_base /\ t.tx_hi = s.tx_hi
        /\ t.ack_lo = s.ack_lo /\ t.ack_hi = s.ack_hi /\ RxSame(s, t)
        /\ t.flags = IF r.fin THEN s.flags \ {"FIN_SENT"} ELSE s.flags
        /\ t.tx_len = s.tx_len /\ t.reset_pn = s.reset_pn
    BY <1>2 DEF LoseData, RxSame, RxFlags, Same, Has, Good, Stream
  <2> HIDE DEF t
  <2>2. Accounted(t, X)
    BY <1>1, <2>1 DEF Accounted, MaxOf
  <2> QED BY <2>1, <2>2 DEF t
<1>3. CASE ~(r.off + r.len > s.tx_base \/ r.fin)
  <2>1. LoseData(s, r) = s
    BY <1>3 DEF LoseData
  <2>2. Accounted(s, X)
    BY <1>1, <1>3 DEF Accounted
  <2> QED BY <1>3, <2>1, <2>2 DEF RxSame, Same
<1> QED BY <1>2, <1>3

\* A record's fate: what it carried is acknowledged, or it goes out again.
LEMMA AfterRecordEffect ==
    ASSUME NEW i \in Slots, Good(st[i]), Has(st[i], "USED"), rec \subseteq Records,
           NEW r \in rec, NEW acked \in BOOLEAN, r.slot = i => r.off + r.len <= st[i].tx_hi,
           Remembered(i, st[i], rec)
    PROVE  LET t == AfterRecord(i, r, acked) IN
           /\ RxSame(st[i], t) /\ Remembered(i, t, rec \ {r}) /\ SizesKept(st[i], t)
           /\ t.tx_hi = st[i].tx_hi
<1> DEFINE s == st[i]
           R == rec \ {r}
           X == IF Sends(s) THEN Flying(i, R) ELSE Nat
           d == IF r.slot # i THEN s ELSE IF acked THEN AckData(s, r) ELSE LoseData(s, r)
           carried == "RESET" \in r.ctl /\ d.reset_pn = r.pn
           t == AfterRecord(i, r, acked)
<1>1. /\ s \in Stream /\ s.tx_base \in Nat /\ s.tx_hi \in Nat
      /\ r \in Records /\ r.off \in Nat /\ r.len \in Nat
  BY DEF Good, Stream, Records
<1>2. ASSUME r.slot = i
      PROVE  Accounted(s, X \cup (r.off..(r.off + r.len - 1)))
  <2>1. CASE Sends(s)
    <3>1. Accounted(s, Flying(i, rec))
      BY <1>1, <2>1, KeptAccounted DEF Remembered
    <3>2. \A o \in Flying(i, rec) : o \in Flying(i, R) \/ o \in r.off..(r.off + r.len - 1)
      BY <1>1 DEF Flying, InFlight
    <3> QED BY <2>1, <3>1, <3>2 DEF Accounted
  <2>2. CASE ~Sends(s)
    BY <1>1, <2>2 DEF Accounted
  <2> QED BY <2>1, <2>2
<1>3. /\ RxSame(s, d) /\ d.tx_hi = s.tx_hi /\ d.tx_len = s.tx_len /\ d.reset_pn = s.reset_pn
      /\ d.flags = IF r.slot = i /\ r.fin
                   THEN IF acked THEN s.flags \cup {"FIN_ACKED"} ELSE s.flags \ {"FIN_SENT"}
                   ELSE s.flags
  BY <1>1, <1>2, AckDataEffect, LoseDataEffect, ZenonT(40) DEF RxSame, Same
<1>4. Sends(s) => Accounted(d, Flying(i, R))
  <2>1. CASE r.slot = i
    BY <1>1, <1>2, <2>1, AckDataEffect, LoseDataEffect
  <2>2. CASE r.slot # i
    <3>1. Sends(s) => Accounted(s, Flying(i, rec))
      BY <1>1, KeptAccounted DEF Remembered
    <3>2. Flying(i, rec) = Flying(i, R)
      BY <2>2 DEF Flying, InFlight
    <3> QED BY <2>2, <3>1, <3>2
  <2> QED BY <2>1, <2>2
<1>5. Good(d)
  BY <1>1, AckDataGood, LoseDataGood
<1> HIDE DEF d
<1>6. \E fs \in SUBSET {"RST_PEND", "MSD_PEND", "SS_PEND", "RST_ACKED"} :
        /\ t = Set(d, fs)
        /\ carried => "RST_PEND" \in fs \/ "RST_ACKED" \in fs \/ "RST_ACKED" \in d.flags
  <2> DEFINE Carried(k, pn) == k \in r.ctl /\ pn = r.pn
             final == Final(d) /\ d.rx_hi = d.rx_final
             Again(k) ==
               CASE k = "RST_PEND" -> Carried("RESET", d.reset_pn) /\ ~Has(d, "RST_ACKED")
                 [] k = "MSD_PEND" -> Carried("MSD", d.msd_pn)
                 [] k = "SS_PEND"  -> /\ Carried("STOP", d.ss_pn) /\ Has(d, "RX_ABORT")
                                      /\ ~Has(d, "RX_DONE") /\ ~Has(d, "RX_RESET") /\ ~final
             fs == {k \in {"RST_PEND", "MSD_PEND", "SS_PEND"} : Again(k)}
  <2>1. t = IF acked THEN IF carried THEN Set(d, {"RST_ACKED"}) ELSE d ELSE Set(d, fs)
    BY DEF AfterRecord, d
  <2>2. fs \in SUBSET {"RST_PEND", "MSD_PEND", "SS_PEND", "RST_ACKED"}
        /\ (carried => "RST_PEND" \in fs \/ Has(d, "RST_ACKED"))
    OBVIOUS
  <2>3. d = Set(d, {})
    BY <1>5 DEF Set, Good, Stream
  <2> HIDE DEF fs, carried
  <2>4. CASE ~acked
    BY <2>1, <2>2, <2>4 DEF Has
  <2>5. CASE acked /\ carried
    <3>1. {"RST_ACKED"} \in SUBSET {"RST_PEND", "MSD_PEND", "SS_PEND", "RST_ACKED"}
      OBVIOUS
    <3> QED BY <2>1, <2>5, <3>1
  <2>6. CASE acked /\ ~carried
    <3>1. {} \in SUBSET {"RST_PEND", "MSD_PEND", "SS_PEND", "RST_ACKED"}
      OBVIOUS
    <3> QED BY <2>1, <2>3, <2>6, <3>1
  <2> QED BY <2>4, <2>5, <2>6
<1>7. PICK fs \in SUBSET {"RST_PEND", "MSD_PEND", "SS_PEND", "RST_ACKED"} :
        /\ t = Set(d, fs)
        /\ carried => "RST_PEND" \in fs \/ "RST_ACKED" \in fs \/ "RST_ACKED" \in d.flags
  BY <1>6
<1>8. /\ RxSame(d, t) /\ t.flags = d.flags \cup fs /\ t.tx_hi = d.tx_hi /\ t.tx_len = d.tx_len
      /\ t.reset_pn = d.reset_pn /\ t.tx_base = d.tx_base /\ t.tx_next = d.tx_next
      /\ t.ack_lo = d.ack_lo /\ t.ack_hi = d.ack_hi /\ t.rx_final = d.rx_final
  BY <1>5, <1>7 DEF RxSame, RxFlags, Same, Set, Has, Good, Stream
<1> HIDE DEF t
<1>9. t.rx_final = s.rx_final
  BY <1>3, <1>8 DEF RxSame
<1>10. ResetKept(t, R)
  <2> SUFFICES ASSUME Has(t, "STOP"), ~Has(t, "RST_PEND"), ~Has(t, "RST_ACKED")
               PROVE  \E q \in R : "RESET" \in q.ctl /\ q.pn = t.reset_pn
    BY DEF ResetKept
  <2>1. Has(s, "STOP") /\ ~Has(s, "RST_PEND") /\ ~Has(s, "RST_ACKED")
    BY <1>3, <1>8 DEF Has
  <2>2. PICK q \in rec : "RESET" \in q.ctl /\ q.pn = s.reset_pn
    BY <2>1 DEF Remembered, ResetKept
  <2>3. ~carried
    BY <1>7, <1>8 DEF Has
  <2>4. q # r
    BY <1>3, <2>2, <2>3
  <2> QED BY <1>3, <1>8, <2>2, <2>4
<1>11. FinKept(i, t, R)
  <2> SUFFICES ASSUME Has(t, "FIN_SENT"), ~Has(t, "FIN_ACKED")
               PROVE  \E q \in R : q.slot = i /\ q.fin
    BY DEF FinKept
  <2>1. Has(s, "FIN_SENT") /\ ~Has(s, "FIN_ACKED") /\ ~(r.slot = i /\ r.fin)
    BY <1>3, <1>8 DEF Has
  <2>2. PICK q \in rec : q.slot = i /\ q.fin
    BY <2>1 DEF Remembered, FinKept
  <2> QED BY <2>1, <2>2
<1>12. BytesKept(i, t, R)
  <2>1. Sends(t) => Sends(s)
    BY <1>3, <1>8 DEF Sends, Has
  <2>2. Sends(t) => Accounted(t, Flying(i, R))
    BY <1>4, <1>8, <2>1 DEF Accounted
  <2>3. t \in Stream
    BY <1>1, AfterRecordGood DEF Good, t
  <2> QED BY <2>2, <2>3, KeptAccounted
<1> QED BY <1>3, <1>8, <1>9, <1>10, <1>11, <1>12, RxSameTrans DEF Remembered, SizesKept, t

\* Skipping what was acknowledged above the prefix leaves nothing out.
LEMMA SkipEffect ==
    ASSUME NEW s, Good(s), NEW X
    PROVE  /\ Moved(s, SkipAcked(s))
           /\ Accounted(s, X) => Accounted(SkipAcked(s), X)
<1> DEFINE t == [s EXCEPT !.tx_next = s.ack_hi]
<1>1. /\ s.tx_base \in Nat /\ s.tx_next \in Nat /\ s.tx_hi \in Nat
      /\ s.ack_lo \in Nat /\ s.ack_hi \in Nat
  BY DEF Good, Stream
<1>2. /\ t.tx_base = s.tx_base /\ t.tx_next = s.ack_hi /\ t.tx_hi = s.tx_hi
      /\ t.ack_lo = s.ack_lo /\ t.ack_hi = s.ack_hi /\ Moved(s, t)
  BY DEF Moved, RxSame, Same, Has, Good, Stream
<1>3. SkipAcked(s) = IF HasRange(s) /\ s.tx_next >= s.ack_lo /\ s.tx_next < s.ack_hi THEN t ELSE s
  BY DEF SkipAcked
<1> HIDE DEF t
<1>4. Moved(s, s)
  BY DEF Moved, RxSame, Same
<1>5. Accounted(s, X) /\ s.tx_next >= s.ack_lo => Accounted(t, X)
  BY <1>1, <1>2 DEF Accounted
<1> QED BY <1>2, <1>3, <1>4, <1>5

\* What a slot is after the control frames went out, and the data scan passed it.
LEMMA ReadyEffect ==
    ASSUME NEW i \in Slots, Good(st[i]), tx_pn \in Nat, NEW ctl, NEW records, rec \subseteq records,
           NEW t \in {AfterControl(i, ctl), SkipAcked(AfterControl(i, ctl))},
           <<"RESET", i>> \in ctl => \E q \in records : "RESET" \in q.ctl /\ q.pn = tx_pn
    PROVE  /\ RxSame(st[i], t) /\ SizesKept(st[i], t) /\ t.tx_hi = st[i].tx_hi
           /\ Sends(t) => Sends(st[i])
           /\ Remembered(i, st[i], rec) => Remembered(i, t, records)
<1> DEFINE s == st[i]
           c == AfterControl(i, ctl)
           kept == TxFlags \ {"RST_PEND"}
<1>1. Good(c)
  BY AfterControlGood
<1>2. /\ RxSame(s, c) /\ c.tx_hi = s.tx_hi /\ c.tx_len = s.tx_len /\ c.tx_base = s.tx_base
      /\ c.tx_next = s.tx_next /\ c.ack_lo = s.ack_lo /\ c.ack_hi = s.ack_hi
      /\ \A f \in kept : Has(c, f) <=> Has(s, f)
      /\ c.rx_final = s.rx_final
  BY DEF AfterControl, RxSame, RxFlags, TxFlags, Same, Has, Good, Stream
<1>3. /\ <<"RESET", i>> \in ctl => c.reset_pn = tx_pn
      /\ <<"RESET", i>> \notin ctl => c.reset_pn = s.reset_pn /\ (Has(c, "RST_PEND") <=> Has(s, "RST_PEND"))
  BY DEF AfterControl, Has, Good, Stream
<1> HIDE DEF c
<1>4. Moved(c, t) /\ \A X : Accounted(c, X) => Accounted(t, X)
  BY <1>1, SkipEffect DEF c, Moved, RxSame, Same
<1>5. t.flags = c.flags /\ t.rx_final = c.rx_final /\ t.tx_hi = c.tx_hi /\ t.tx_len = c.tx_len
      /\ t.reset_pn = c.reset_pn
  BY <1>4 DEF Moved, RxSame
<1>6. \A f \in kept : Has(t, f) <=> Has(s, f)
  BY <1>2, <1>5 DEF Has
<1>7. Sends(t) => Sends(s)
  BY <1>6 DEF Sends, TxFlags
<1>8. ASSUME Remembered(i, s, rec)
      PROVE  Remembered(i, t, records)
  <2>1. BytesKept(i, t, records)
    <3>1. Sends(s) => Accounted(s, Flying(i, rec))
      BY <1>8, KeptAccounted DEF Remembered, Good
    <3>2. Flying(i, rec) \subseteq Flying(i, records)
      BY DEF Flying, InFlight
    <3>3. Sends(t) => Accounted(c, Flying(i, records))
      BY <1>2, <1>7, <3>1, <3>2 DEF Accounted
    <3>4. t \in Stream
      BY <1>1, SkipAckedGood DEF c, Good
    <3> QED BY <1>4, <3>3, <3>4, KeptAccounted
  <2>2. FinKept(i, t, records)
    BY <1>6, <1>8 DEF Remembered, FinKept, TxFlags
  <2>3. ResetKept(t, records)
    <3>1. CASE <<"RESET", i>> \in ctl
      BY <1>3, <1>5, <3>1 DEF ResetKept
    <3>2. CASE <<"RESET", i>> \notin ctl
      BY <1>3, <1>5, <1>6, <1>8, <3>2 DEF Remembered, ResetKept, TxFlags, Has
    <3> QED BY <3>1, <3>2
  <2> QED BY <2>1, <2>2, <2>3 DEF Remembered
<1>9. SizesKept(s, t)
  BY <1>2, <1>5 DEF SizesKept
<1>10. RxSame(s, t)
  BY <1>2, <1>4, RxSameTrans DEF Moved
<1> QED BY <1>2, <1>5, <1>7, <1>8, <1>9, <1>10

\* One STREAM frame: its bytes and its FIN are in its record.
LEMMA AfterDataEffect ==
    ASSUME NEW i, NEW s, Good(s), Sends(s), NEW n \in Nat, NEW fin \in BOOLEAN, NEW records,
           NEW q \in records, q.slot = i, q.off = s.tx_next, q.len = n, q.fin = fin
    PROVE  LET t == AfterData(s, n, fin) IN
           /\ RxSame(s, t) /\ SizesKept(s, t)
           /\ Remembered(i, s, records) => Remembered(i, t, records)
<1> DEFINE t == AfterData(s, n, fin)
<1>1. /\ s.tx_base \in Nat /\ s.tx_next \in Nat /\ s.tx_hi \in Nat
      /\ s.ack_lo \in Nat /\ s.ack_hi \in Nat /\ s.tx_next <= s.tx_hi /\ s \in Stream
  BY DEF Good, SlotOK, Stream
<1>2. /\ RxSame(s, t) /\ t.tx_len = s.tx_len /\ t.rx_final = s.rx_final
      /\ t.tx_base = s.tx_base /\ t.tx_next = s.tx_next + n
      /\ t.tx_hi = MaxOf(s.tx_hi, s.tx_next + n)
      /\ t.ack_lo = s.ack_lo /\ t.ack_hi = s.ack_hi /\ t.reset_pn = s.reset_pn
      /\ t.flags = IF fin THEN s.flags \cup {"FIN_SENT"} ELSE s.flags
  BY <1>1 DEF AfterData, RxSame, RxFlags, Same, Has, Stream
<1> HIDE DEF t
<1>3. ASSUME Remembered(i, s, records)
      PROVE  Remembered(i, t, records)
  <2>1. BytesKept(i, t, records)
    <3> SUFFICES ASSUME NEW o \in t.tx_base..(t.tx_hi - 1)
                 PROVE  \/ o >= t.tx_next \/ (t.ack_lo <= o /\ o < t.ack_hi)
                        \/ InFlight(i, o, records)
      BY DEF BytesKept
    <3>1. o \in Int
      BY <1>1, <1>2 DEF MaxOf
    <3>2. CASE o >= s.tx_next + n
      BY <1>2, <3>2
    <3>3. CASE s.tx_next <= o /\ o < s.tx_next + n
      BY <3>3 DEF InFlight
    <3>4. CASE o < s.tx_next
      <4>1. o \in s.tx_base..(s.tx_hi - 1)
        BY <1>1, <1>2, <3>1, <3>4
      <4> QED BY <1>1, <1>2, <1>3, <3>4, <4>1 DEF Remembered, BytesKept
    <3> QED BY <1>1, <3>1, <3>2, <3>3, <3>4
  <2>2. FinKept(i, t, records)
    BY <1>2, <1>3 DEF Remembered, FinKept, Has
  <2>3. ResetKept(t, records)
    BY <1>2, <1>3 DEF Remembered, ResetKept, Has
  <2> QED BY <2>1, <2>2, <2>3 DEF Remembered
<1>4. SizesKept(s, t)
  BY <1>2 DEF SizesKept, Sends
<1> QED BY <1>2, <1>3, <1>4 DEF t

\* Bytes written are not sent yet.
LEMMA WrittenEffect ==
    ASSUME NEW i, NEW s \in Stream, ~Has(s, "TX_FIN"), NEW k \in Nat, NEW fin \in BOOLEAN, NEW records
    PROVE  LET t == Written(s, k, fin) IN
           /\ RxSame(s, t) /\ SizesKept(s, t) /\ t.tx_hi = s.tx_hi
           /\ Remembered(i, s, records) => Remembered(i, t, records)
<1> DEFINE t == Written(s, k, fin)
<1>1. /\ RxSame(s, t) /\ t.rx_final = s.rx_final /\ t.tx_base = s.tx_base /\ t.tx_next = s.tx_next
      /\ t.tx_hi = s.tx_hi /\ t.ack_lo = s.ack_lo /\ t.ack_hi = s.ack_hi /\ t.reset_pn = s.reset_pn
      /\ t.flags = IF fin THEN s.flags \cup {"TX_FIN"} ELSE s.flags
  BY DEF Written, RxSame, RxFlags, Same, Has, Stream
<1> HIDE DEF t
<1>2. Remembered(i, s, records) => Remembered(i, t, records)
  BY <1>1 DEF Remembered, BytesKept, FinKept, ResetKept, Sends, Has
<1> QED BY <1>1, <1>2 DEF SizesKept, t

\* A stream that stops sending owes a RESET_STREAM.
LEMMA StopEffect ==
    ASSUME NEW i, NEW s \in Stream, NEW records
    PROVE  LET t == Set(s, {"STOP", "RST_PEND"}) IN
           /\ RxSame(s, t) /\ SizesKept(s, t) /\ t.tx_hi = s.tx_hi
           /\ Remembered(i, s, records) => Remembered(i, t, records)
<1> DEFINE t == Set(s, {"STOP", "RST_PEND"})
<1>1. /\ RxSame(s, t) /\ SizesKept(s, t) /\ t.tx_hi = s.tx_hi
      /\ t.flags = s.flags \cup {"STOP", "RST_PEND"}
  BY DEF Set, RxSame, RxFlags, Same, SizesKept, Has, Stream
<1> HIDE DEF t
<1>2. Remembered(i, s, records) => Remembered(i, t, records)
  BY <1>1 DEF Remembered, BytesKept, FinKept, ResetKept, Sends, Has
<1> QED BY <1>1, <1>2 DEF t

\* MAX_STREAM_DATA changes neither half.
LEMMA RaiseEffect ==
    ASSUME NEW s \in Stream, NEW a
    PROVE  RxSame(s, RaiseTxMax(s, a)) /\ TxSame(s, RaiseTxMax(s, a))
BY DEF RaiseTxMax, RxSame, TxSame, Same, Has, Stream

\* What holds of a sending half holds of the same one.
LEMMA TxKeeps ==
    ASSUME NEW s, NEW t, TxSame(s, t), NEW i, NEW records
    PROVE  /\ Remembered(i, s, records) => Remembered(i, t, records)
           /\ SentOn(t) = SentOn(s)
           /\ (Final(s) => t.rx_final = s.rx_final) => SizesKept(s, t)
<1>1. \A f \in TxFlags : Has(t, f) <=> Has(s, f)
  BY DEF TxSame
<1>2. Sends(t) <=> Sends(s)
  BY <1>1 DEF TxFlags, Sends
<1>3. Remembered(i, s, records) => Remembered(i, t, records)
  BY <1>1, <1>2 DEF TxSame, TxFlags, Remembered, BytesKept, FinKept, ResetKept
<1> QED BY <1>3 DEF TxSame, Same, SentOn, SizesKept

\* What holds of a receiving half holds of the same one.
LEMMA RxKeeps ==
    ASSUME NEW s, NEW t, RxSame(s, t), NEW taken
    PROVE  /\ RxOK(s) => RxOK(t)
           /\ Untouched(s, taken) => Untouched(t, taken)
           /\ Unread(t) = Unread(s)
           /\ t.tx_hi = s.tx_hi => SentOn(t) = SentOn(s)
BY DEF RxSame, RxFlags, Same, RxOK, Untouched, Unread, SentOn

-----------------------------------------------------------------------------
(* Tables of slots *)

Kept(slots, records, taken) ==
    \A i \in Used(slots) :
        RxOK(slots[i]) /\ Untouched(slots[i], taken) /\ Remembered(i, slots[i], records)

Served(slots, opened, allowed, taken) ==
    CreditKept(slots, opened, allowed) /\ Waiting(slots, opened, taken)

\* The sums are over numbers.
LEMMA SumTypes ==
    ASSUME NEW slots, AllGood(slots)
    PROVE  /\ AllUnread(slots) \in Nat /\ AllSent(slots) \in Nat
           /\ \A i \in Slots : Unread(slots[i]) \in Nat /\ SentOn(slots[i]) \in Nat
<1> DEFINE f == [i \in Slots |-> Unread(slots[i])]
           g == [i \in Slots |-> SentOn(slots[i])]
<1>1. \A i \in Slots : Unread(slots[i]) \in Nat /\ SentOn(slots[i]) \in Nat
  BY DEF AllGood, Good, SlotOK, Stream, Unread, SentOn
<1>2. DOMAIN f = Slots /\ DOMAIN g = Slots
  OBVIOUS
<1>3. SumFunctionOnSet(f, Slots) \in Nat /\ SumFunctionOnSet(g, Slots) \in Nat
  BY <1>1, SlotsFinite, SumNat
<1> QED BY <1>1, <1>2, <1>3 DEF AllUnread, AllSent, SumFunction

\* The sums when slots change: they depend on the slots' own shares.
LEMMA SumsPut ==
    ASSUME NEW slots, AllGood(slots), NEW i \in Slots, NEW t, Good(t)
    PROVE  LET u == [slots EXCEPT ![i] = t] IN
           /\ AllUnread(u) = AllUnread(slots) - Unread(slots[i]) + Unread(t)
           /\ AllSent(u) = AllSent(slots) - SentOn(slots[i]) + SentOn(t)
<1> DEFINE u == [slots EXCEPT ![i] = t]
           f == [j \in Slots |-> Unread(slots[j])]
           g == [j \in Slots |-> Unread(u[j])]
           h == [j \in Slots |-> SentOn(slots[j])]
           k == [j \in Slots |-> SentOn(u[j])]
<1>1. \A j \in Slots : u[j] = IF j = i THEN t ELSE slots[j]
  BY DEF AllGood
<1>2. AllGood(u)
  <2>1. u \in [Slots -> Stream]
    BY DEF AllGood, Good
  <2> QED BY <1>1, <2>1 DEF AllGood
<1> HIDE DEF u
<1>3. \A j \in Slots : f[j] \in Int /\ g[j] \in Int /\ h[j] \in Int /\ k[j] \in Int
  BY <1>2, SumTypes
<1>4. \A j \in Slots \ {i} : g[j] = f[j] /\ k[j] = h[j]
  BY <1>1
<1>5. f[i] = Unread(slots[i]) /\ g[i] = Unread(t) /\ h[i] = SentOn(slots[i]) /\ k[i] = SentOn(t)
  BY <1>1
<1>6. /\ DOMAIN f = Slots /\ DOMAIN g = Slots /\ DOMAIN h = Slots /\ DOMAIN k = Slots
  OBVIOUS
<1>7. /\ AllUnread(slots) = SumFunctionOnSet(f, Slots) /\ AllUnread(u) = SumFunctionOnSet(g, Slots)
      /\ AllSent(slots) = SumFunctionOnSet(h, Slots) /\ AllSent(u) = SumFunctionOnSet(k, Slots)
  BY <1>6 DEF AllUnread, AllSent, SumFunction
<1> HIDE DEF f, g, h, k
<1>8. /\ SumFunctionOnSet(g, Slots) = SumFunctionOnSet(f, Slots) - f[i] + g[i]
      /\ SumFunctionOnSet(k, Slots) = SumFunctionOnSet(h, Slots) - h[i] + k[i]
  BY <1>3, <1>4, SlotsFinite, SumChange
<1> QED BY <1>5, <1>7, <1>8 DEF u

\* Slots with the same shares have the same sums, with smaller shares smaller ones.
LEMMA SumsSame ==
    ASSUME NEW slots, AllGood(slots), NEW u, AllGood(u)
    PROVE  /\ (\A i \in Slots : Unread(u[i]) = Unread(slots[i])) => AllUnread(u) = AllUnread(slots)
           /\ (\A i \in Slots : SentOn(u[i]) <= SentOn(slots[i])) => AllSent(u) <= AllSent(slots)
<1> DEFINE f == [j \in Slots |-> Unread(slots[j])]
           g == [j \in Slots |-> Unread(u[j])]
           h == [j \in Slots |-> SentOn(slots[j])]
           k == [j \in Slots |-> SentOn(u[j])]
<1>1. \A j \in Slots : h[j] \in Int /\ k[j] \in Int
  BY SumTypes
<1>2. /\ DOMAIN f = Slots /\ DOMAIN g = Slots /\ DOMAIN h = Slots /\ DOMAIN k = Slots
  OBVIOUS
<1>3. /\ AllUnread(slots) = SumFunctionOnSet(f, Slots) /\ AllUnread(u) = SumFunctionOnSet(g, Slots)
      /\ AllSent(slots) = SumFunctionOnSet(h, Slots) /\ AllSent(u) = SumFunctionOnSet(k, Slots)
  BY <1>2 DEF AllUnread, AllSent, SumFunction
<1>4. ASSUME \A i \in Slots : Unread(u[i]) = Unread(slots[i])
      PROVE  AllUnread(u) = AllUnread(slots)
  <2>1. \A j \in Slots : f[j] = g[j]
    BY <1>4
  <2> HIDE DEF f, g
  <2> QED BY <1>3, <2>1, SlotsFinite, SumSame
<1>5. ASSUME \A i \in Slots : SentOn(u[i]) <= SentOn(slots[i])
      PROVE  AllSent(u) <= AllSent(slots)
  <2>1. \A j \in Slots : k[j] <= h[j]
    BY <1>5
  <2> HIDE DEF h, k
  <2> QED BY <1>1, <1>3, <2>1, SlotsFinite, SumLeq
<1> QED BY <1>4, <1>5

\* The same streams in the same slots: as much credit, and nobody's stream is gone.
LEMMA SameServed ==
    ASSUME NEW slots, NEW u, \A i \in Slots : Same(slots[i], u[i]),
           NEW opened, NEW allowed, NEW taken, Served(slots, opened, allowed, taken)
    PROVE  Served(u, opened, allowed, taken)
<1>1. Used(u) = Used(slots)
  BY DEF Same, Used
<1>2. \A d : LivePeer(u, d) = LivePeer(slots, d)
  BY <1>1 DEF Same, LivePeer, Used
<1>3. \A id : find(u, id) = find(slots, id)
  BY <1>1 DEF Same, find, Used
<1> QED BY <1>2, <1>3 DEF Served, CreditKept, Waiting

\* One slot changes within its stream.
LEMMA PutKept ==
    ASSUME NEW slots, AllGood(slots), NEW i \in Slots, NEW t, Good(t), Same(slots[i], t),
           NEW taken, Kept(slots, rec, taken),
           Has(t, "USED") => RxOK(t) /\ Untouched(t, taken) /\ Remembered(i, t, rec)
    PROVE  LET u == [slots EXCEPT ![i] = t] IN
           /\ AllGood(u) /\ Kept(u, rec, taken)
           /\ \A opened, allowed : Served(slots, opened, allowed, taken)
                                     => Served(u, opened, allowed, taken)
<1> DEFINE u == [slots EXCEPT ![i] = t]
<1>1. \A j \in Slots : u[j] = IF j = i THEN t ELSE slots[j]
  BY DEF AllGood
<1>2. AllGood(u)
  <2>1. u \in [Slots -> Stream]
    BY DEF AllGood, Good
  <2> QED BY <1>1, <2>1 DEF AllGood
<1> HIDE DEF u
<1>3. \A j \in Slots : Same(slots[j], u[j])
  BY <1>1 DEF Same
<1>4. Kept(u, rec, taken)
  BY <1>1 DEF Kept, Used
<1> QED BY <1>2, <1>3, <1>4, SameServed DEF u

\* maybe_free frees streams whose two halves are over: no unread byte goes with them, each one
\* of the peer gives back one stream of credit, and no stream that waits to be accepted goes.
LEMMA FreeKept ==
    ASSUME NEW slots, AllGood(slots), NEW T, NEW records, RecsOK(records, slots), NEW owed,
           NEW taken \in [Dirs -> Nat], Kept(slots, records, taken),
           NEW opened \in [Dirs -> Nat], my_max_streams \in [Dirs -> Nat],
           Served(slots, opened, my_max_streams, taken),
           maybe_free(slots, T, records, owed)
    PROVE  /\ Kept(st', rec', taken)
           /\ Served(st', opened, my_max_streams', taken)
           /\ AllUnread(st') = AllUnread(slots) /\ AllSent(st') <= AllSent(slots)
           /\ \A i \in Used(st') : i \in Used(slots) /\ st'[i] = slots[i]
<1> DEFINE F == Freed(slots, T)
           P(d) == PeerOnes(slots, F, d)
<1>1. /\ st' = [i \in Slots |-> IF i \in F THEN FreeSlot ELSE slots[i]]
      /\ my_max_streams' = [d \in Dirs |-> my_max_streams[d] + Cardinality(P(d))]
      /\ rec' = {[r EXCEPT !.slot = IF @ \in F THEN NoSlot ELSE @] : r \in records}
  BY DEF maybe_free, Detached
<1>2. F \subseteq Used(slots) /\ F \subseteq Slots
      /\ \A i \in F : ~Has(slots[i], "RX") \/ Has(slots[i], "RX_DONE")
  BY DEF Freed, Used, rx_done
<1> HIDE DEF F
<1>3. \A i \in Slots : st'[i] = IF i \in F THEN FreeSlot ELSE slots[i]
  BY <1>1
<1>4. Used(st') = Used(slots) \ F
  BY <1>2, <1>3, FreeSlotGood DEF Used
<1>5. AllGood(st')
  <2>1. st' \in [Slots -> Stream]
    BY <1>1, FreeSlotGood DEF AllGood, Good
  <2> QED BY <1>3, <2>1, FreeSlotGood DEF AllGood
<1>6. \A i \in F : Unread(slots[i]) = 0
  <2> SUFFICES ASSUME NEW i \in F PROVE Unread(slots[i]) = 0
    OBVIOUS
  <2>1. RxOK(slots[i]) /\ slots[i] \in Stream
    BY <1>2 DEF Kept, AllGood
  <2>2. slots[i].rx_read = slots[i].rx_hi
    BY <1>2, <2>1 DEF RxOK
  <2> QED BY <2>1, <2>2 DEF Unread, Stream
<1>7. Unread(FreeSlot) = 0 /\ SentOn(FreeSlot) = 0
  BY FreeSlotGood DEF Unread, SentOn
<1>8. AllUnread(st') = AllUnread(slots) /\ AllSent(st') <= AllSent(slots)
  <2>1. \A i \in Slots : Unread(st'[i]) = Unread(slots[i])
    BY <1>3, <1>6, <1>7
  <2>2. \A i \in Slots : SentOn(st'[i]) <= SentOn(slots[i])
    <3>1. \A i \in Slots : SentOn(slots[i]) \in Nat
      BY SumTypes
    <3> QED BY <1>3, <1>7, <3>1
  <2> QED BY <1>5, <2>1, <2>2, SumsSame
<1>9. Kept(st', rec', taken)
  <2> SUFFICES ASSUME NEW i \in Used(slots) \ F
               PROVE  Remembered(i, slots[i], rec')
    BY <1>3, <1>4 DEF Kept, Used
  <2>1. Remembered(i, slots[i], records) /\ i \in Slots
    BY DEF Kept, Used
  <2>2. \A r \in records : \E q \in rec' :
          /\ q.off = r.off /\ q.len = r.len /\ q.fin = r.fin /\ q.ctl = r.ctl /\ q.pn = r.pn
          /\ r.slot = i => q.slot = i
    <3> TAKE r \in records
    <3> DEFINE q == [r EXCEPT !.slot = IF @ \in F THEN NoSlot ELSE @]
    <3>1. q \in rec' /\ r \in Records
      BY <1>1 DEF RecsOK
    <3>2. /\ q.off = r.off /\ q.len = r.len /\ q.fin = r.fin /\ q.ctl = r.ctl /\ q.pn = r.pn
          /\ r.slot = i => q.slot = i
      BY <3>1 DEF Records
    <3> QED BY <3>1, <3>2
  <2>3. \A o : InFlight(i, o, records) => InFlight(i, o, rec')
    BY <2>2 DEF InFlight
  <2>4. BytesKept(i, slots[i], rec')
    BY <2>1, <2>3 DEF Remembered, BytesKept
  <2>5. FinKept(i, slots[i], rec') /\ ResetKept(slots[i], rec')
    BY <2>1, <2>2 DEF Remembered, FinKept, ResetKept
  <2> QED BY <2>4, <2>5 DEF Remembered
<1>10. CreditKept(st', opened, my_max_streams')
  <2> SUFFICES ASSUME NEW d \in Dirs
               PROVE  /\ opened[d] <= my_max_streams'[d]
                      /\ Cardinality(LivePeer(st', d)) + (my_max_streams'[d] - opened[d])
                           = my_tp.streams[d]
    BY DEF CreditKept
  <2> DEFINE L == LivePeer(slots, d)
  <2>1. L \subseteq Slots /\ IsFiniteSet(L) /\ Cardinality(L) \in Nat
    <3>1. L \subseteq Slots
      BY DEF LivePeer, Used
    <3> QED BY <3>1, SlotsFinite, FS_Subset, FS_CardinalityType
  <2>2. P(d) \subseteq L
    BY <1>2 DEF PeerOnes, LivePeer
  <2>3. LivePeer(st', d) = L \ P(d)
    BY <1>2, <1>3, <1>4 DEF PeerOnes, LivePeer, Used
  <2> HIDE DEF L, P
  <2>4. Cardinality(L \ P(d)) = Cardinality(L) - Cardinality(P(d)) /\ Cardinality(P(d)) \in Nat
    <3>1. L \cap P(d) = P(d) /\ IsFiniteSet(P(d)) /\ Cardinality(P(d)) \in Nat
      BY <2>1, <2>2, FS_Subset, FS_CardinalityType
    <3> QED BY <2>1, <3>1, FS_Difference
  <2>5. my_max_streams'[d] = my_max_streams[d] + Cardinality(P(d))
    BY <1>1
  <2>6. /\ opened[d] <= my_max_streams[d] /\ opened[d] \in Nat /\ my_max_streams[d] \in Nat
        /\ Cardinality(L) + (my_max_streams[d] - opened[d]) = my_tp.streams[d]
    BY DEF Served, CreditKept, L
  <2> QED BY <2>1, <2>3, <2>4, <2>5, <2>6
<1>11. Waiting(st', opened, taken)
  <2> SUFFICES ASSUME NEW d \in Dirs, NEW n \in taken[d]..(opened[d] - 1)
               PROVE  find(st', Id(TRUE, d, n)) # {}
    BY DEF Waiting
  <2>1. PICK i \in find(slots, Id(TRUE, d, n)) : TRUE
    BY DEF Served, Waiting
  <2>2. i \in Used(slots) /\ slots[i].id = Id(TRUE, d, n)
    BY <2>1 DEF find
  <2>3. taken[d] \in Nat /\ n >= taken[d]
    BY DEF Dirs
  <2>4. Untouched(slots[i], taken) /\ RxOK(slots[i])
    BY <2>2 DEF Kept
  <2>5. ~Has(slots[i], "RX_DONE") /\ Has(slots[i], "RX")
    BY <2>2, <2>3, <2>4 DEF Untouched, RxOK, Id
  <2>6. i \notin F
    BY <1>2, <2>5
  <2>7. i \in Used(st') /\ st'[i].id = Id(TRUE, d, n)
    BY <1>2, <1>3, <1>4, <2>2, <2>6 DEF Used
  <2> QED BY <2>7 DEF find
<1> QED BY <1>3, <1>4, <1>8, <1>9, <1>10, <1>11 DEF Served, Used

\* A new stream.
LEMMA NewKept ==
    ASSUME NEW id \in StreamIds, NEW taken, NEW i, NEW records
    PROVE  LET s == NewStream(id) IN
           /\ RxOK(s) /\ Untouched(s, taken) /\ Remembered(i, s, records)
           /\ Unread(s) = 0 /\ SentOn(s) = 0
<1> DEFINE s == NewStream(id)
<1>1. /\ s.id = id /\ s.rx_read = 0 /\ s.rx_hi = 0 /\ s.tx_hi = 0 /\ s.tx_base = 0
      /\ s.flags \subseteq {"USED", "RX", "TX"}
      /\ "RX" \notin s.flags => id.d = UNI /\ ~id.peer
  BY DEF NewStream
<1> HIDE DEF s
<1> QED BY <1>1 DEF s, RxOK, Untouched, Remembered, BytesKept, FinKept, ResetKept, Unread, SentOn, Has

\* Tables that differ in slots that were free: nothing moves.
LEMMA TakenKept ==
    ASSUME NEW slots, AllGood(slots), NEW taken, Kept(slots, rec, taken), NEW u, AllGood(u),
           \A i \in Slots : \/ u[i] = slots[i]
                            \/ /\ i \in free_slots(slots)
                               /\ \E id \in StreamIds : u[i] = NewStream(id)
    PROVE  /\ Kept(u, rec, taken) /\ AllUnread(u) = AllUnread(slots) /\ AllSent(u) <= AllSent(slots)
           /\ \A i \in Used(slots) : u[i] = slots[i] /\ i \in Used(u)
<1>1. \A i \in Used(slots) : i \in Slots /\ u[i] = slots[i] /\ i \in Used(u)
  BY DEF free_slots, Used
<1>2. Kept(u, rec, taken)
  BY NewKept DEF Kept, Used
<1>3. \A i \in Slots : Unread(u[i]) = Unread(slots[i]) /\ SentOn(u[i]) <= SentOn(slots[i])
  <2> TAKE i \in Slots
  <2>1. Unread(slots[i]) \in Nat /\ SentOn(slots[i]) \in Nat
    BY SumTypes
  <2>2. CASE u[i] = slots[i]
    BY <2>1, <2>2
  <2>3. CASE u[i] # slots[i]
    <3>1. ~Has(slots[i], "USED")
      BY <2>3 DEF free_slots, Used
    <3>2. Unread(slots[i]) = 0 /\ SentOn(slots[i]) = 0
      BY <3>1 DEF Unread, SentOn
    <3> QED BY <2>3, <3>2, NewKept
  <2> QED BY <2>2, <2>3
<1> QED BY <1>1, <1>2, <1>3, SumsSame

\* lookup opens the streams up to the one the frame names, each in a slot of its own.
LEMMA LookupKept ==
    ASSUME AllGood(st), next_peer \in [Dirs -> Nat], my_max_streams \in [Dirs -> Nat],
           Backed(st, next_peer, my_max_streams), NEW id \in StreamIds, NEW rx \in BOOLEAN,
           NEW taken \in [Dirs -> Nat], Kept(st, rec, taken),
           Served(st, next_peer, my_max_streams, taken),
           NEW slots \in lookup(id, rx), OpenedPeer(id)
    PROVE  /\ Kept(slots, rec, taken) /\ Served(slots, next_peer', my_max_streams, taken)
           /\ AllUnread(slots) = AllUnread(st) /\ AllSent(slots) <= AllSent(st)
           /\ \A i \in Used(st) : slots[i] = st[i] /\ i \in Used(slots)
           /\ rx => \A i \in find(slots, id) : Has(slots[i], "RX")
<1> DEFINE k == Opens(id)
<1>1. /\ k \in Nat /\ AllGood(slots) /\ next_peer' \in [Dirs -> Nat]
      /\ Backed(slots, next_peer', my_max_streams)
  BY LookupGood
<1>2. PICK f \in alloc(st, k) : slots = Opened(f, id)
  BY DEF lookup
<1>3. LookupErr(id, rx) = NoErr
  BY DEF lookup
<1>4. /\ id.d \in Dirs /\ id.n \in Nat /\ next_peer[id.d] \in Nat /\ id.peer \in BOOLEAN
      /\ next_peer'[id.d] = next_peer[id.d] + k
      /\ \A d \in Dirs : d # id.d => next_peer'[d] = next_peer[d]
  BY <1>1 DEF StreamIds, OpenedPeer
<1>5. /\ Taken(f, k) \subseteq free_slots(st) /\ IsFiniteSet(Taken(f, k))
      /\ Cardinality(Taken(f, k)) = k
  BY <1>1, <1>2, AllocGood
<1>6. /\ f \in [1..k -> Slots] /\ \A a, b \in 1..k : f[a] = f[b] => a = b
  <2>1. f \in [1..k -> Slots] /\ \A a, b \in 1..k : a < b => f[a] < f[b]
    BY <1>2 DEF alloc
  <2>2. \A a, b \in 1..k : f[a] = f[b] => a = b
    <3> TAKE a, b \in 1..k
    <3>1. f[a] \in Int /\ f[b] \in Int /\ (a < b \/ b < a \/ a = b)
      BY <2>1, TpAssumption DEF Slots
    <3> QED BY <2>1, <3>1
  <2> QED BY <2>1, <2>2
<1>7. \A a \in 1..k : /\ f[a] \in Slots
                      /\ slots[f[a]] = NewStream(Id(TRUE, id.d, next_peer[id.d] - 1 + a))
                      /\ Id(TRUE, id.d, next_peer[id.d] - 1 + a) \in StreamIds
  <2> TAKE a \in 1..k
  <2>1. f[a] \in Slots /\ (CHOOSE b \in 1..k : f[b] = f[a]) = a
    BY <1>6
  <2>2. slots[f[a]] = NewStream(Id(TRUE, id.d, next_peer[id.d] - 1 + CHOOSE b \in 1..k : f[b] = f[a]))
    BY <1>2, <2>1 DEF Opened
  <2>3. next_peer[id.d] - 1 + a \in Nat
    BY <1>1, <1>4
  <2> QED BY <1>4, <2>1, <2>2, <2>3 DEF Id, StreamIds
<1>8. \A i \in Slots : i \notin Taken(f, k) => slots[i] = st[i]
  BY <1>2 DEF Opened, Taken
<1>9. /\ Kept(slots, rec, taken) /\ AllUnread(slots) = AllUnread(st) /\ AllSent(slots) <= AllSent(st)
      /\ \A i \in Used(st) : slots[i] = st[i] /\ i \in Used(slots)
  <2>1. \A i \in Slots : \/ slots[i] = st[i]
                         \/ /\ i \in free_slots(st)
                            /\ \E x \in StreamIds : slots[i] = NewStream(x)
    BY <1>5, <1>7, <1>8 DEF Taken
  <2> QED BY <1>1, <2>1, TakenKept
<1>10. \A a \in 1..k : /\ f[a] \in Used(slots)
                       /\ slots[f[a]].id = Id(TRUE, id.d, next_peer[id.d] - 1 + a)
                       /\ slots[f[a]].id.d = id.d /\ slots[f[a]].id.peer
  <2> TAKE a \in 1..k
  <2>1. f[a] \in Used(slots) /\ slots[f[a]].id = Id(TRUE, id.d, next_peer[id.d] - 1 + a)
    BY <1>7, NewStreamGood DEF Used
  <2> QED BY <2>1 DEF Id
<1> HIDE DEF k
<1>11. CreditKept(slots, next_peer', my_max_streams)
  <2> SUFFICES ASSUME NEW d \in Dirs
               PROVE  /\ next_peer'[d] <= my_max_streams[d]
                      /\ Cardinality(LivePeer(slots, d)) + (my_max_streams[d] - next_peer'[d])
                           = my_tp.streams[d]
    BY DEF CreditKept
  <2> DEFINE L == LivePeer(st, d)
  <2>1. /\ next_peer'[d] <= my_max_streams[d] /\ next_peer[d] \in Nat /\ my_max_streams[d] \in Nat
        /\ Cardinality(L) + (my_max_streams[d] - next_peer[d]) = my_tp.streams[d]
    BY <1>1 DEF Backed, Served, CreditKept
  <2>2. L \subseteq Used(st) /\ IsFiniteSet(L) /\ Cardinality(L) \in Nat
    <3>1. L \subseteq Slots /\ L \subseteq Used(st)
      BY DEF LivePeer, Used
    <3> QED BY <3>1, SlotsFinite, FS_Subset, FS_CardinalityType
  <2>3. CASE d # id.d
    <3>1. LivePeer(slots, d) = L
      <4>1. \A i \in Taken(f, k) : slots[i].id.d = id.d
        BY <1>10 DEF Taken
      <4> QED BY <1>8, <1>9, <2>3, <4>1 DEF LivePeer, Used
    <3> QED BY <1>4, <2>1, <2>3, <3>1
  <2>4. CASE d = id.d
    <3>1. LivePeer(slots, d) = L \cup Taken(f, k)
      <4>1. \A i \in Taken(f, k) : i \in Used(slots) /\ slots[i].id.d = d /\ slots[i].id.peer
        BY <1>10, <2>4 DEF Taken
      <4> QED BY <1>8, <1>9, <4>1 DEF LivePeer, Used
    <3>2. L \cap Taken(f, k) = {}
      BY <1>5, <2>2 DEF free_slots
    <3> HIDE DEF L
    <3>3. Cardinality(L \cup Taken(f, k)) = Cardinality(L) + k
      <4>1. Cardinality(L \cap Taken(f, k)) = 0
        BY <3>2, FS_EmptySet
      <4>2. Cardinality(L \cup Taken(f, k))
              = Cardinality(L) + Cardinality(Taken(f, k)) - Cardinality(L \cap Taken(f, k))
        BY <1>5, <2>2, FS_Union
      <4>3. k \in Nat /\ Cardinality(Taken(f, k)) = k /\ Cardinality(L) \in Nat
        BY <1>1, <1>5, <2>2
      <4> QED BY <4>1, <4>2, <4>3
    <3> QED BY <1>1, <1>4, <2>1, <2>2, <2>4, <3>1, <3>3
  <2> QED BY <2>3, <2>4
<1>12. Waiting(slots, next_peer', taken)
  <2> SUFFICES ASSUME NEW d \in Dirs, NEW n \in taken[d]..(next_peer'[d] - 1)
               PROVE  find(slots, Id(TRUE, d, n)) # {}
    BY DEF Waiting
  <2>1. n \in Int /\ next_peer[d] \in Nat /\ taken[d] \in Nat /\ n >= taken[d]
    BY <1>1
  <2>2. CASE n < next_peer[d]
    <3>a. n \in taken[d]..(next_peer[d] - 1)
      BY <2>1, <2>2
    <3>b. find(st, Id(TRUE, d, n)) # {}
      BY <3>a DEF Served, Waiting
    <3>1. PICK i \in find(st, Id(TRUE, d, n)) : TRUE
      BY <3>b
    <3>2. i \in Used(slots) /\ slots[i].id = Id(TRUE, d, n)
      BY <1>9, <3>1 DEF find
    <3> QED BY <3>2 DEF find
  <2>3. CASE n >= next_peer[d]
    <3>1. d = id.d /\ n < next_peer[d] + k
      BY <1>1, <1>4, <2>1, <2>3
    <3>2. n - next_peer[d] + 1 \in 1..k /\ next_peer[d] - 1 + (n - next_peer[d] + 1) = n
      BY <1>1, <2>1, <2>3, <3>1
    <3>3. f[n - next_peer[d] + 1] \in Used(slots)
          /\ slots[f[n - next_peer[d] + 1]].id = Id(TRUE, d, n)
      BY <1>10, <3>1, <3>2
    <3> QED BY <3>3 DEF find
  <2>4. n < next_peer[d] \/ n >= next_peer[d]
    BY <2>1
  <2> QED BY <2>2, <2>3, <2>4
<1>13. ASSUME rx, NEW i \in find(slots, id)
       PROVE  Has(slots[i], "RX")
  <2>1. RxOK(slots[i]) /\ slots[i].id = id
    BY <1>9 DEF Kept, find
  <2>2. ~(~id.peer /\ id.d = UNI)
    BY <1>3, <1>13 DEF LookupErr, NoErr
  <2> QED BY <2>1, <2>2 DEF RxOK
<1> QED BY <1>9, <1>11, <1>12, <1>13 DEF Served
-----------------------------------------------------------------------------
(* The invariant, and what steps have in common *)

RxFlow ==
    /\ sum_rx - consumed = AllUnread(st)
    /\ sum_rx <= max_data_rx /\ max_data_rx <= consumed + my_tp.max_data

Parts ==
    /\ Kept(st, rec, accepted)
    /\ err = NoErr => Served(st, next_peer, my_max_streams, accepted) /\ RxFlow
    /\ AllSent(st) <= sent_tx

\* Streams that are in a slot before and after keep their final sizes.
SizesHeld(slots, t) == \A i \in Used(slots) : i \in Used(t) => SizesKept(slots[i], t[i])

\* More credit for the connection never takes any back, and stays within the window.
LEMMA CreditConnEffect ==
    ASSUME NEW c \in Nat, CreditConn(c), consumed \in Nat, max_data_rx \in Nat,
           consumed <= c, max_data_rx <= consumed + my_tp.max_data
    PROVE  /\ consumed' = c /\ max_data_rx <= max_data_rx'
           /\ max_data_rx' <= c + my_tp.max_data /\ max_data_rx' \in Nat
<1>1. my_tp.max_data \in Nat
  BY TpAssumption DEF Limits
<1> DEFINE win == my_tp.max_data
           up == c + win > max_data_rx /\ c + win - max_data_rx >= win \div 2
<1>2. consumed' = c /\ max_data_rx' = (IF up THEN c + win ELSE max_data_rx)
      /\ (up => c + win > max_data_rx)
  BY DEF CreditConn
<1> HIDE DEF up
<1> QED BY <1>1, <1>2

\* A failed connection has no streams left.
LEMMA FailKept ==
    ASSUME Legal, Parts, NEW code, code # NoErr, q_fail(code)
    PROVE  Parts' /\ SizesHeld(st, st')
<1>1. /\ st' = [i \in Slots |-> FreeSlot] /\ sent_tx' = sent_tx /\ err' # NoErr
      /\ accepted' = accepted
  BY DEF q_fail, txflow
<1>2. \A i \in Slots : st'[i] = FreeSlot
  BY <1>1
<1>3. Used(st') = {}
  BY <1>2, FreeSlotGood DEF Used
<1>4. AllGood(st) /\ AllGood(st')
  <2>1. st' \in [Slots -> Stream]
    BY <1>1, FreeSlotGood DEF Good
  <2> QED BY <1>2, <2>1, FreeSlotGood DEF AllGood, Legal, TableOK
<1>5. AllSent(st') <= AllSent(st) /\ AllSent(st) \in Nat /\ AllSent(st') \in Nat
  <2>1. SentOn(FreeSlot) = 0
    BY FreeSlotGood DEF SentOn
  <2>2. \A i \in Slots : SentOn(st[i]) \in Nat
    BY <1>4, SumTypes
  <2>3. \A i \in Slots : SentOn(st'[i]) <= SentOn(st[i])
    BY <1>2, <2>1, <2>2
  <2> QED BY <1>4, <2>3, SumsSame, SumTypes
<1>6. AllSent(st') <= sent_tx'
  BY <1>1, <1>5 DEF Parts, Legal, TxFlowOK
<1>7. Kept(st', rec', accepted') /\ SizesHeld(st, st')
  BY <1>3 DEF Kept, SizesHeld
<1> QED BY <1>1, <1>6, <1>7 DEF Parts

\* One slot changes within its stream, and the stream may then be freed.
LEMMA SlotKept ==
    ASSUME NEW slots, AllGood(slots), RecsOK(rec, slots), CreditOK,
           accepted \in [Dirs -> Nat], Kept(slots, rec, accepted),
           NEW opened \in [Dirs -> Nat], Served(slots, opened, my_max_streams, accepted),
           NEW i \in Slots, NEW t, Good(t), SameSlot(slots[i], t),
           Has(t, "USED") => RxOK(t) /\ Untouched(t, accepted) /\ Remembered(i, t, rec),
           Has(t, "USED") => SizesKept(slots[i], t),
           \/ st' = [slots EXCEPT ![i] = t] /\ UNCHANGED <<rec, my_max_streams>>
           \/ \E T : maybe_free([slots EXCEPT ![i] = t], T, rec, {})
    PROVE  /\ Kept(st', rec', accepted) /\ Served(st', opened, my_max_streams', accepted)
           /\ AllUnread(st') = AllUnread(slots) - Unread(slots[i]) + Unread(t)
           /\ AllSent(st') <= AllSent(slots)
           /\ SizesHeld(slots, st')
<1> DEFINE u == [slots EXCEPT ![i] = t]
<1>1. \A j \in Slots : u[j] = IF j = i THEN t ELSE slots[j]
  BY DEF AllGood
<1>2. Same(slots[i], t) /\ t.tx_hi = slots[i].tx_hi
  BY DEF SameSlot, Same
<1>3. /\ AllGood(u) /\ Kept(u, rec, accepted)
      /\ Served(u, opened, my_max_streams, accepted)
  BY <1>2, PutKept
<1>4. RecsOK(rec, u)
  <2>1. SentMore(slots[i], t)
    BY SameMore DEF AllGood
  <2>2. AllGood(u) /\ SameTable(slots, u)
    BY <2>1, OneSlot
  <2> HIDE DEF u
  <2> QED BY <2>2, SameRecords
<1>5. AllUnread(u) = AllUnread(slots) - Unread(slots[i]) + Unread(t) /\ AllSent(u) = AllSent(slots)
  <2>1. SentOn(slots[i]) = SentOn(t) /\ SentOn(t) \in Nat /\ AllSent(slots) \in Nat
    <3>1. SentOn(slots[i]) = SentOn(t)
      BY <1>2 DEF Same, SentOn
    <3> QED BY <3>1, SumTypes
  <2>2. AllSent(u) = AllSent(slots) - SentOn(slots[i]) + SentOn(t)
    BY SumsPut
  <2>3. AllUnread(u) = AllUnread(slots) - Unread(slots[i]) + Unread(t)
    BY SumsPut
  <2> HIDE DEF u
  <2> QED BY <2>1, <2>2, <2>3
<1>6. \A j \in Used(u) : j \in Used(slots) => SizesKept(slots[j], u[j])
  <2> SUFFICES ASSUME NEW j \in Used(u) PROVE SizesKept(slots[j], u[j])
    OBVIOUS
  <2>1. CASE j = i
    BY <1>1, <2>1 DEF Used
  <2>2. CASE j # i
    BY <1>1, <2>2 DEF Used, SizesKept
  <2> QED BY <2>1, <2>2
<1> HIDE DEF u
<1>7. CASE st' = u /\ UNCHANGED <<rec, my_max_streams>>
  <2>1. AllSent(slots) \in Nat
    BY SumTypes
  <2> QED BY <1>3, <1>5, <1>6, <1>7, <2>1 DEF SizesHeld
<1>8. ASSUME NEW T, maybe_free(u, T, rec, {})
      PROVE  /\ Kept(st', rec', accepted) /\ Served(st', opened, my_max_streams', accepted)
             /\ AllUnread(st') = AllUnread(u) /\ AllSent(st') <= AllSent(u)
             /\ SizesHeld(slots, st')
  <2>1. my_max_streams \in [Dirs -> Nat]
    BY DEF CreditOK
  <2>2. /\ Kept(st', rec', accepted) /\ Served(st', opened, my_max_streams', accepted)
        /\ AllUnread(st') = AllUnread(u) /\ AllSent(st') <= AllSent(u)
        /\ \A j \in Used(st') : j \in Used(u) /\ st'[j] = u[j]
    BY <1>3, <1>4, <1>8, <2>1, FreeKept
  <2> QED BY <1>6, <2>2 DEF SizesHeld
<1> QED BY <1>5, <1>7, <1>8 DEF u
-----------------------------------------------------------------------------
(* One lemma per action: the application's *)

\* A local stream opens in a free slot: no credit of the peer moves.
LEMMA OpenKept ==
    ASSUME Legal, Parts, NEW d \in Dirs, stream_open(d)
    PROVE  Parts' /\ SizesHeld(st, st')
<1> DEFINE id == Id(FALSE, d, next_local[d])
<1>1. /\ AllGood(st) /\ AllGood(st') /\ err = NoErr /\ Kept(st, rec, accepted)
      /\ Served(st, next_peer, my_max_streams, accepted) /\ RxFlow
      /\ sent_tx \in Nat /\ AllSent(st) <= sent_tx
  <2>1. Legal'
    BY OpenLegal
  <2> QED BY <2>1 DEF Legal, TableOK, TxFlowOK, Parts, stream_open
<1>2. PICK f \in alloc(st, 1) : st' = [st EXCEPT ![f[1]] = NewStream(id)]
  BY DEF stream_open
<1>3. f[1] \in Slots /\ f[1] \in free_slots(st)
  BY <1>2 DEF alloc
<1>4. id \in StreamIds /\ ~id.peer
  BY DEF Id, StreamIds, Legal, CountsOK
<1> HIDE DEF id
<1>5. \A i \in Slots : st'[i] = IF i = f[1] THEN NewStream(id) ELSE st[i]
  BY <1>1, <1>2 DEF AllGood
<1>6. /\ Kept(st', rec, accepted) /\ AllUnread(st') = AllUnread(st) /\ AllSent(st') <= AllSent(st)
      /\ \A i \in Used(st) : st'[i] = st[i] /\ i \in Used(st')
  <2>1. \A i \in Slots : \/ st'[i] = st[i]
                         \/ /\ i \in free_slots(st)
                            /\ \E x \in StreamIds : st'[i] = NewStream(x)
    BY <1>3, <1>4, <1>5
  <2> QED BY <1>1, <2>1, TakenKept
<1>7. Served(st', next_peer, my_max_streams, accepted)
  <2>1. \A x \in Dirs : LivePeer(st', x) = LivePeer(st, x)
    <3>1. NewStream(id).id = id
      BY <1>4, NewStreamGood
    <3> QED BY <1>3, <1>4, <1>5, <1>6, <3>1 DEF LivePeer, Used, free_slots
  <2>2. \A x : find(st, x) \subseteq find(st', x)
    BY <1>6 DEF find
  <2> QED BY <1>1, <2>1, <2>2 DEF Served, CreditKept, Waiting
<1>8. SizesHeld(st, st')
  BY <1>6 DEF SizesHeld, SizesKept
<1>9. AllSent(st') <= sent_tx /\ RxFlow'
  <2>1. AllSent(st') \in Nat /\ AllSent(st) \in Nat
    BY <1>1, SumTypes
  <2>2. UNCHANGED rxflow
    BY DEF stream_open
  <2> QED BY <1>1, <1>6, <2>1, <2>2 DEF RxFlow, rxflow
<1>10. UNCHANGED <<next_peer, accepted, credits, txflow, rec, err>>
  BY DEF stream_open
<1> QED BY <1>6, <1>7, <1>8, <1>9, <1>10 DEF Parts, credits, txflow

\* An accepted stream no longer waits.
LEMMA AcceptKept ==
    ASSUME Legal, Parts, NEW d \in Dirs, stream_accept(d)
    PROVE  Parts' /\ SizesHeld(st, st')
<1>1. /\ accepted \in [Dirs -> Nat] /\ next_peer \in [Dirs -> Nat]
      /\ accepted' = [accepted EXCEPT ![d] = @ + 1]
      /\ UNCHANGED <<st, next_peer, credits, rxflow, txflow, rec, err>>
  BY DEF stream_accept, Legal, CountsOK
<1>2. \A x \in Dirs : accepted[x] \in Nat /\ accepted'[x] \in Nat /\ accepted[x] <= accepted'[x]
  BY <1>1
<1>3. Kept(st', rec', accepted')
  <2> SUFFICES ASSUME NEW i \in Used(st), Untouched(st[i], accepted)
               PROVE  Untouched(st[i], accepted')
    BY <1>1 DEF Parts, Kept
  <2>1. st[i].id.d \in Dirs /\ st[i].id.n \in Nat
    BY DEF Legal, TableOK, AllGood, Used, Stream, StreamIds
  <2> QED BY <1>2, <2>1 DEF Untouched
<1>4. Served(st, next_peer, my_max_streams, accepted)
        => Served(st', next_peer', my_max_streams', accepted')
  <2> SUFFICES ASSUME Waiting(st, next_peer, accepted) PROVE Waiting(st, next_peer, accepted')
    BY <1>1 DEF Served, credits
  <2>1. \A x \in Dirs : accepted'[x]..(next_peer[x] - 1) \subseteq accepted[x]..(next_peer[x] - 1)
    BY <1>1, <1>2
  <2> QED BY <2>1 DEF Waiting
<1>5. RxFlow => RxFlow'
  BY <1>1 DEF RxFlow, rxflow
<1>6. SizesHeld(st, st')
  BY <1>1 DEF SizesHeld, SizesKept
<1> QED BY <1>1, <1>3, <1>4, <1>5, <1>6 DEF Parts, txflow

\* Written bytes wait to be sent.
LEMMA WriteKept ==
    ASSUME Legal, Parts, NEW i \in Slots, NEW n \in Nat, NEW fin \in BOOLEAN, stream_write(i, n, fin)
    PROVE  Parts' /\ SizesHeld(st, st')
<1> DEFINE s == st[i]
           k == MinOf(n, QS_BUF - (s.tx_len - s.tx_base))
           t == Written(s, k, fin /\ k = n)
<1>1. /\ AllGood(st) /\ RecsOK(rec, st) /\ CreditOK /\ accepted \in [Dirs -> Nat]
      /\ next_peer \in [Dirs -> Nat] /\ err = NoErr
      /\ Kept(st, rec, accepted) /\ Served(st, next_peer, my_max_streams, accepted) /\ RxFlow
      /\ sent_tx \in Nat /\ AllSent(st) <= sent_tx
  BY DEF Legal, TableOK, CountsOK, TxFlowOK, Parts, stream_write
<1>2. Good(s) /\ s \in Stream /\ i \in Used(st) /\ ~Has(s, "TX_FIN")
  BY <1>1 DEF AllGood, Used, stream_write, Known
<1>3. k \in Nat /\ k <= QS_BUF - (s.tx_len - s.tx_base) /\ (fin /\ k = n) \in BOOLEAN
  BY <1>2, TpAssumption DEF Good, Stream, SlotOK, MinOf
<1>4. st' = [st EXCEPT ![i] = t] /\ UNCHANGED <<counts, credits, rxflow, txflow, rec, err>>
  BY DEF stream_write
<1> HIDE DEF k
<1>5. Good(t) /\ SameSlot(s, t)
  BY <1>2, <1>3, WrittenGood
<1>6. /\ RxSame(s, t) /\ SizesKept(s, t) /\ t.tx_hi = s.tx_hi
      /\ Remembered(i, s, rec) => Remembered(i, t, rec)
  BY <1>2, <1>3, WrittenEffect
<1> HIDE DEF t
<1>7. RxOK(t) /\ Untouched(t, accepted) /\ Remembered(i, t, rec) /\ Unread(t) = Unread(s)
  BY <1>1, <1>2, <1>6, RxKeeps DEF Kept
<1>8. /\ Kept(st', rec', accepted) /\ Served(st', next_peer, my_max_streams', accepted)
      /\ AllUnread(st') = AllUnread(st) - Unread(s) + Unread(t)
      /\ AllSent(st') <= AllSent(st) /\ SizesHeld(st, st')
  <2>1. UNCHANGED <<rec, my_max_streams>>
    BY <1>4 DEF credits
  <2> QED BY <1>1, <1>4, <1>5, <1>6, <1>7, <2>1, SlotKept
<1>9. AllSent(st') <= sent_tx' /\ RxFlow'
  <2>1. AllSent(st') \in Nat /\ AllSent(st) \in Nat /\ AllUnread(st) \in Nat /\ Unread(s) \in Nat
    <3>1. Legal'
      BY WriteLegal
    <3> QED BY <1>1, <3>1, SumTypes DEF Legal, TableOK
  <2> QED BY <1>1, <1>4, <1>7, <1>8, <2>1 DEF RxFlow, rxflow, txflow
<1> QED BY <1>4, <1>8, <1>9 DEF Parts, counts
\* The books of the connection's window stay balanced when slot i's unread bytes change by what
\* was received less what was consumed.
LEMMA BooksKept ==
    ASSUME Legal, NEW slots, AllGood(slots), AllGood(st'), NEW i \in Slots, NEW t, Good(t),
           sum_rx - consumed = AllUnread(slots), sum_rx <= max_data_rx,
           max_data_rx <= consumed + my_tp.max_data,
           AllUnread(st') = AllUnread(slots) - Unread(slots[i]) + Unread(t),
           NEW grown \in Nat, sum_rx' = sum_rx + grown, sum_rx + grown <= max_data_rx,
           NEW used \in Nat, Unread(t) = Unread(slots[i]) + grown - used,
           \/ CreditConn(consumed + used)
           \/ used = 0 /\ UNCHANGED <<consumed, max_data_rx>>
    PROVE  RxFlow'
<1>1. consumed \in Nat /\ max_data_rx \in Nat /\ sum_rx \in Nat
  BY DEF Legal, RxFlowOK
<1>2. AllUnread(slots) \in Nat /\ AllUnread(st') \in Nat /\ Unread(slots[i]) \in Nat
  BY SumTypes
<1>3. my_tp.max_data \in Nat
  BY TpAssumption DEF Limits
<1>4. /\ consumed' = consumed + used /\ max_data_rx <= max_data_rx'
      /\ max_data_rx' <= consumed' + my_tp.max_data /\ max_data_rx' \in Nat
  <2>1. CASE CreditConn(consumed + used)
    <3>1. consumed + used \in Nat /\ consumed <= consumed + used
      BY <1>1
    <3> QED BY <1>1, <2>1, <3>1, CreditConnEffect
  <2>2. CASE used = 0 /\ UNCHANGED <<consumed, max_data_rx>>
    BY <1>1, <2>2
  <2> QED BY <2>1, <2>2
<1>5. sum_rx' - consumed' = AllUnread(st')
  BY <1>1, <1>2, <1>4
<1>6. sum_rx' <= max_data_rx'
  BY <1>1, <1>4
<1> QED BY <1>4, <1>5, <1>6 DEF RxFlow

\* What a step that changes one slot leaves: the parts of the invariant follow.
LEMMA PartsFollow ==
    ASSUME Legal, NEW slots, AllGood(slots), Legal', err' = NoErr, accepted' = accepted,
           sent_tx' = sent_tx, AllSent(slots) <= sent_tx,
           Kept(st', rec', accepted), Served(st', next_peer', my_max_streams', accepted),
           AllSent(st') <= AllSent(slots), RxFlow'
    PROVE  Parts'
<1>1. AllSent(slots) \in Nat /\ AllSent(st') \in Nat /\ sent_tx \in Nat
  BY SumTypes DEF Legal, TableOK, TxFlowOK
<1>2. AllSent(st') <= sent_tx'
  BY <1>1
<1> QED BY <1>2 DEF Parts

\* A stream the application knows is not one that waits to be accepted.
LEMMA KnownTouched ==
    ASSUME Legal, NEW i \in Slots, Known(i), NEW t, t.id = st[i].id
    PROVE  Untouched(t, accepted)
<1>1. st[i].id.d \in Dirs /\ st[i].id.n \in Nat /\ accepted \in [Dirs -> Nat]
  BY DEF Legal, TableOK, AllGood, Stream, StreamIds, CountsOK
<1> QED BY <1>1 DEF Known, Untouched

\* Reading: what was read is consumed, and credit goes out again; a stream read to its end is
\* over.
LEMMA ReadKept ==
    ASSUME Legal, Parts, NEW i \in Slots, NEW cap \in Nat, stream_read(i, cap)
    PROVE  Parts' /\ SizesHeld(st, st')
<1> DEFINE s == st[i]
<1>1. /\ AllGood(st) /\ RecsOK(rec, st) /\ CreditOK /\ accepted \in [Dirs -> Nat]
      /\ next_peer \in [Dirs -> Nat] /\ err = NoErr
      /\ Kept(st, rec, accepted) /\ Served(st, next_peer, my_max_streams, accepted) /\ RxFlow
      /\ sent_tx \in Nat /\ AllSent(st) <= sent_tx /\ consumed \in Nat /\ sum_rx \in Nat
  BY DEF Legal, TableOK, CountsOK, TxFlowOK, RxFlowOK, Parts, stream_read
<1>2. /\ Good(s) /\ s \in Stream /\ i \in Used(st) /\ Has(s, "USED") /\ Has(s, "RX")
      /\ RxOK(s) /\ Remembered(i, s, rec) /\ Known(i)
      /\ s.rx_read \in Nat /\ s.rx_hi \in Nat /\ s.rx_read <= s.rx_hi
      /\ Final(s) => s.rx_hi <= s.rx_final
  BY <1>1 DEF AllGood, Good, SlotOK, Stream, Used, stream_read, Known, Kept
<1>3. UNCHANGED <<counts, sum_rx, txflow, pns, err>> /\ Legal' /\ AllGood(st')
  <2>1. Legal'
    BY ReadLegal
  <2> QED BY <2>1 DEF stream_read, Legal, TableOK
<1>4. ASSUME NEW t, Good(t), SameSlot(s, t), RxOK(t), TxSame(s, t), t.rx_final = s.rx_final,
             NEW used \in Nat, Unread(t) = Unread(s) - used,
             \/ CreditConn(consumed + used)
             \/ used = 0 /\ UNCHANGED <<consumed, max_data_rx>>,
             \/ st' = [st EXCEPT ![i] = t] /\ UNCHANGED <<rec, my_max_streams>>
             \/ \E T : maybe_free([st EXCEPT ![i] = t], T, rec, {})
      PROVE  Parts' /\ SizesHeld(st, st')
  <2>1. Untouched(t, accepted)
    BY <1>2, <1>4, KnownTouched DEF SameSlot
  <2>2. Remembered(i, t, rec) /\ SizesKept(s, t)
    BY <1>2, <1>4, TxKeeps
  <2>3. /\ Kept(st', rec', accepted) /\ Served(st', next_peer, my_max_streams', accepted)
        /\ AllUnread(st') = AllUnread(st) - Unread(s) + Unread(t)
        /\ AllSent(st') <= AllSent(st) /\ SizesHeld(st, st')
    BY <1>1, <1>4, <2>1, <2>2, SlotKept
  <2>4. Unread(t) = Unread(s) + 0 - used /\ sum_rx' = sum_rx + 0 /\ sum_rx + 0 <= max_data_rx
        /\ sum_rx - consumed = AllUnread(st) /\ max_data_rx <= consumed + my_tp.max_data
    <3>1. Unread(s) \in Nat /\ sum_rx' = sum_rx
      BY <1>1, <1>3, SumTypes
    <3> QED BY <1>1, <1>4, <3>1 DEF RxFlow
  <2>5. 0 \in Nat /\ sum_rx <= max_data_rx
    BY <1>1 DEF RxFlow
  <2>6. RxFlow'
    BY <1>1, <1>3, <1>4, <2>3, <2>4, <2>5, BooksKept
  <2> QED BY <1>1, <1>3, <2>3, <2>6, PartsFollow DEF counts, txflow
<1>5. CASE /\ \/ Has(s, "RX_RESET")
              \/ ~Has(s, "RX_DONE") /\ Readable(s, cap, 0) /\ s.rx_final = s.rx_read
           /\ maybe_free([st EXCEPT ![i] = Set(s, {"RX_DONE"})], {i}, rec, {})
           /\ UNCHANGED <<consumed, max_data_rx, md_pend>>
  <2> DEFINE t == Set(s, {"RX_DONE"})
  <2>1. Good(t) /\ SameSlot(s, t)
    BY <1>2, FlagsGood DEF Flags
  <2>2. /\ TxSame(s, t) /\ t.rx_read = s.rx_read /\ t.rx_hi = s.rx_hi /\ t.rx_final = s.rx_final
    <3>1. {"RX_DONE"} \cap (TxFlags \cup {"USED"}) = {}
      BY DEF TxFlags
    <3> QED BY <1>2, <3>1, RxFlagsEffect
  <2>3. s.rx_final = s.rx_hi /\ s.rx_read = s.rx_hi
    <3>1. CASE Has(s, "RX_RESET")
      BY <1>2, <3>1 DEF RxOK
    <3>2. CASE s.rx_final = s.rx_read
      <4>1. Final(s)
        BY <1>2, <3>2 DEF Final, QS_NONE
      <4> QED BY <1>2, <3>2, <4>1
    <3> QED BY <1>5, <3>1, <3>2
  <2>4. Has(t, "RX")
    BY <1>2 DEF Set, Has, Stream
  <2> HIDE DEF t
  <2>5. RxOK(t)
    BY <2>2, <2>3, <2>4 DEF RxOK
  <2>6. Unread(t) = Unread(s) - 0 /\ 0 \in Nat
    BY <1>2, <2>2, <2>3 DEF Unread
  <2>7. maybe_free([st EXCEPT ![i] = t], {i}, rec, {})
    BY <1>5 DEF t
  <2>8. UNCHANGED <<consumed, max_data_rx>>
    BY <1>5
  <2> QED BY <1>4, <2>1, <2>2, <2>5, <2>6, <2>7, <2>8
<1>6. ASSUME NEW n \in 1..QS_BUF, ~Has(s, "RX_RESET"), ~Has(s, "RX_DONE"), Readable(s, cap, n),
             CreditConn(consumed + n), st' = [st EXCEPT ![i] = CreditStream(Drained(s, n))],
             UNCHANGED <<credits, rec>>
      PROVE  Parts' /\ SizesHeld(st, st')
  <2> DEFINE r == Drained(s, n)
             t == CreditStream(r)
  <2>0. n \in Nat
    BY TpAssumption
  <2>1. Good(r) /\ SameSlot(s, r)
    BY <1>2, <1>6, DrainedGood
  <2>2. /\ TxSame(s, t) /\ t.rx_read = s.rx_read + n /\ t.rx_hi = s.rx_hi /\ t.rx_final = s.rx_final
        /\ \A f \in RxFlags : Has(t, f) <=> Has(s, f)
    BY <1>2, <2>0, ReadEffect
  <2> HIDE DEF r
  <2>3. Good(t) /\ SameSlot(s, t)
    BY <2>1, CreditStreamGood DEF SameSlot
  <2>a. st' = [st EXCEPT ![i] = t]
    BY <1>6 DEF r
  <2> HIDE DEF t
  <2>4. RxOK(t)
    BY <1>2, <1>6, <2>2 DEF RxOK, RxFlags
  <2>5. Unread(t) = Unread(s) - n
    BY <1>2, <2>0, <2>2, <2>3 DEF Unread, SameSlot
  <2>6. UNCHANGED <<rec, my_max_streams>>
    BY <1>6 DEF credits
  <2> QED BY <1>4, <1>6, <2>0, <2>2, <2>3, <2>4, <2>5, <2>6, <2>a
<1> QED BY <1>5, <1>6 DEF stream_read
\* Cancelling: the sending half owes a RESET_STREAM, what the receiving half holds is consumed.
LEMMA AbortKept ==
    ASSUME Legal, Parts, NEW i \in Slots, NEW tx \in BOOLEAN, NEW rx \in BOOLEAN,
           stream_abort(i, tx, rx)
    PROVE  Parts' /\ SizesHeld(st, st')
<1> DEFINE s == st[i]
           a == IF tx THEN AbortTx(s) ELSE s
           stops == rx /\ Has(a, "RX") /\ ~Has(a, "RX_ABORT") /\ ~Has(a, "RX_DONE")
           t == IF stops THEN AbortRx(a) ELSE a
           drops == stops /\ ~Has(a, "RX_RESET")
           used == IF drops THEN a.rx_hi - a.rx_read ELSE 0
<1>1. /\ AllGood(st) /\ RecsOK(rec, st) /\ CreditOK /\ accepted \in [Dirs -> Nat]
      /\ next_peer \in [Dirs -> Nat] /\ err = NoErr
      /\ Kept(st, rec, accepted) /\ Served(st, next_peer, my_max_streams, accepted) /\ RxFlow
      /\ sent_tx \in Nat /\ AllSent(st) <= sent_tx /\ consumed \in Nat /\ sum_rx \in Nat
  BY DEF Legal, TableOK, CountsOK, TxFlowOK, RxFlowOK, Parts, stream_abort
<1>2. /\ Good(s) /\ s \in Stream /\ i \in Used(st) /\ Has(s, "USED")
      /\ RxOK(s) /\ Remembered(i, s, rec) /\ Known(i)
      /\ s.rx_read \in Nat /\ s.rx_hi \in Nat /\ s.rx_read <= s.rx_hi
  BY <1>1 DEF AllGood, Good, SlotOK, Stream, Used, stream_abort, Known, Kept
<1>3. UNCHANGED <<counts, sum_rx, txflow, pns, err>> /\ Legal' /\ AllGood(st')
  <2>1. Legal'
    BY AbortLegal
  <2> QED BY <2>1 DEF stream_abort, Legal, TableOK
<1>4. IF drops THEN CreditConn(consumed + (a.rx_hi - a.rx_read))
               ELSE UNCHANGED <<consumed, max_data_rx, md_pend>>
  BY DEF stream_abort
<1>5. \E T : maybe_free([st EXCEPT ![i] = t], T, rec, {})
  BY DEF stream_abort
<1>6. /\ RxSame(s, a) /\ SizesKept(s, a) /\ a.tx_hi = s.tx_hi /\ Remembered(i, a, rec)
      /\ Good(a) /\ SameSlot(s, a)
  <2>1. Good(a) /\ SameSlot(s, a)
    BY <1>2, AbortTxGood DEF SameSlot
  <2>2. a \in {s, Set(s, {"STOP", "RST_PEND"})}
    BY DEF AbortTx
  <2>3. RxSame(s, s) /\ SizesKept(s, s)
    BY DEF RxSame, Same, SizesKept
  <2> QED BY <1>2, <2>1, <2>2, <2>3, StopEffect
<1> HIDE DEF a
<1>7. /\ RxOK(a) /\ a.rx_read \in Nat /\ a.rx_hi \in Nat /\ a.rx_read <= a.rx_hi /\ Has(a, "USED")
      /\ Unread(a) = Unread(s) /\ Unread(s) = s.rx_hi - s.rx_read /\ a \in Stream
      /\ a.rx_read = s.rx_read /\ a.rx_hi = s.rx_hi /\ a.rx_final = s.rx_final
  BY <1>2, <1>6, RxKeeps DEF RxSame, Same, Good, Unread
<1>8. /\ Good(t) /\ SameSlot(s, t)
  BY <1>6, AbortRxGood DEF SameSlot
<1>9. /\ TxSame(a, t) /\ t.rx_final = a.rx_final /\ RxOK(t)
      /\ Unread(t) = Unread(s) - used /\ used \in Nat
  <2>1. CASE ~stops
    <3>1. t = a /\ used = 0
      BY <2>1
    <3> QED BY <1>7, <3>1 DEF TxSame, Same
  <2>2. CASE stops
    <3>1. /\ TxSame(a, t) /\ t.rx_hi = a.rx_hi /\ t.rx_final = a.rx_final /\ t.rx_read = a.rx_hi
          /\ \A f \in {"RX", "RX_RESET"} : Has(t, f) <=> Has(a, f)
          /\ Has(t, "RX_DONE") => Has(a, "RX_DONE") \/ a.rx_final = a.rx_hi
      BY <1>7, <2>2, AbortRxEffect DEF RxOK
    <3> HIDE DEF t
    <3>2. RxOK(t)
      BY <1>7, <2>2, <3>1 DEF RxOK
    <3>3. Unread(t) = 0
      BY <1>7, <3>1 DEF Unread
    <3>4. used = Unread(s) /\ used \in Nat
      <4>1. CASE Has(a, "RX_RESET")
        BY <1>7, <4>1 DEF RxOK
      <4>2. CASE ~Has(a, "RX_RESET")
        BY <1>7, <2>2, <4>2
      <4> QED BY <4>1, <4>2
    <3> HIDE DEF used
    <3> QED BY <3>1, <3>2, <3>3, <3>4
  <2> QED BY <2>1, <2>2
<1> HIDE DEF t, used
<1>10. Remembered(i, t, rec) /\ SizesKept(s, t) /\ Untouched(t, accepted)
  <2>1. Remembered(i, t, rec)
    BY <1>6, <1>9, TxKeeps
  <2>2. SizesKept(s, t)
    BY <1>6, <1>7, <1>9 DEF SizesKept, TxSame
  <2>3. Untouched(t, accepted)
    BY <1>2, <1>8, KnownTouched DEF SameSlot
  <2> QED BY <2>1, <2>2, <2>3
<1>11. /\ Kept(st', rec', accepted) /\ Served(st', next_peer, my_max_streams', accepted)
       /\ AllUnread(st') = AllUnread(st) - Unread(s) + Unread(t)
       /\ AllSent(st') <= AllSent(st) /\ SizesHeld(st, st')
  BY <1>1, <1>5, <1>8, <1>9, <1>10, SlotKept
<1>12. RxFlow'
  <2>1. Unread(t) = Unread(s) + 0 - used /\ sum_rx' = sum_rx + 0 /\ sum_rx + 0 <= max_data_rx
        /\ sum_rx - consumed = AllUnread(st) /\ max_data_rx <= consumed + my_tp.max_data
        /\ 0 \in Nat /\ sum_rx <= max_data_rx
    <3>1. Unread(s) \in Nat /\ sum_rx' = sum_rx
      BY <1>1, <1>3, SumTypes
    <3> QED BY <1>1, <1>9, <3>1 DEF RxFlow
  <2>2. \/ CreditConn(consumed + used)
        \/ used = 0 /\ UNCHANGED <<consumed, max_data_rx>>
    BY <1>4 DEF used
  <2> QED BY <1>1, <1>3, <1>8, <1>9, <1>11, <2>1, <2>2, BooksKept
<1> QED BY <1>1, <1>3, <1>11, <1>12, PartsFollow DEF counts, txflow
-----------------------------------------------------------------------------
(* One lemma per action: the peer's *)

\* The table a frame of the peer left before the frame itself is applied.
LookedOn(slots) ==
    /\ Kept(slots, rec, accepted) /\ Served(slots, next_peer', my_max_streams, accepted)
    /\ AllUnread(slots) = AllUnread(st) /\ AllSent(slots) <= AllSent(st)
    /\ \A i \in Used(st) : slots[i] = st[i] /\ i \in Used(slots)

\* What precedes the handler of every frame that names a stream.
LEMMA LookedKept ==
    ASSUME Legal, Parts, err = NoErr, NEW id \in StreamIds, NEW rx \in BOOLEAN
    PROVE  /\ LookupFails(id, rx) => Parts' /\ SizesHeld(st, st')
           /\ \A slots \in lookup(id, rx) : OpenedPeer(id) =>
                /\ LookedOn(slots) /\ Looked(slots)
                /\ rx => \A i \in find(slots, id) : Has(slots[i], "RX")
<1>1. /\ AllGood(st) /\ Backed(st, next_peer, my_max_streams)
      /\ next_peer \in [Dirs -> Nat] /\ my_max_streams \in [Dirs -> Nat]
      /\ accepted \in [Dirs -> Nat] /\ Kept(st, rec, accepted)
      /\ Served(st, next_peer, my_max_streams, accepted)
  BY DEF Legal, TableOK, BackedOK, CountsOK, CreditOK, Parts
<1>2. ASSUME LookupFails(id, rx)
      PROVE  Parts' /\ SizesHeld(st, st')
  BY <1>2, FailKept DEF LookupFails
<1>3. ASSUME NEW slots \in lookup(id, rx), OpenedPeer(id)
      PROVE  /\ LookedOn(slots) /\ Looked(slots)
             /\ rx => \A i \in find(slots, id) : Has(slots[i], "RX")
  <2>1. Looked(slots)
    BY <1>3, LookedGood
  <2>2. /\ Kept(slots, rec, accepted) /\ Served(slots, next_peer', my_max_streams, accepted)
        /\ AllUnread(slots) = AllUnread(st) /\ AllSent(slots) <= AllSent(st)
        /\ \A i \in Used(st) : slots[i] = st[i] /\ i \in Used(slots)
        /\ rx => \A i \in find(slots, id) : Has(slots[i], "RX")
    BY <1>1, <1>3, LookupKept
  <2> QED BY <2>1, <2>2 DEF LookedOn
<1> QED BY <1>2, <1>3

\* What a frame leaves of one slot of the looked-up table: the parts of the invariant follow.
LEMMA FrameSlotKept ==
    ASSUME Legal, Legal', Parts, err = NoErr, err' = NoErr, accepted' = accepted,
           UNCHANGED txflow,
           NEW slots, Looked(slots), LookedOn(slots), NEW i \in Slots, Has(slots[i], "USED"),
           NEW t, Good(t), SameSlot(slots[i], t), RxOK(t), Untouched(t, accepted),
           Remembered(i, t, rec), SizesKept(slots[i], t),
           NEW grown \in Nat, sum_rx' = sum_rx + grown, sum_rx + grown <= max_data_rx,
           NEW used \in Nat, Unread(t) = Unread(slots[i]) + grown - used,
           \/ CreditConn(consumed + used)
           \/ used = 0 /\ UNCHANGED <<consumed, max_data_rx>>,
           \/ st' = [slots EXCEPT ![i] = t] /\ UNCHANGED <<rec, my_max_streams>>
           \/ \E T : maybe_free([slots EXCEPT ![i] = t], T, rec, {})
    PROVE  Parts' /\ SizesHeld(st, st')
<1>1. /\ AllGood(slots) /\ RecsOK(rec, slots) /\ CreditOK /\ accepted \in [Dirs -> Nat]
      /\ next_peer' \in [Dirs -> Nat] /\ AllGood(st) /\ AllGood(st') /\ RxFlow
      /\ sent_tx \in Nat /\ AllSent(st) <= sent_tx /\ sent_tx' = sent_tx
  BY DEF Looked, Legal, CountsOK, TableOK, TxFlowOK, Parts, txflow
<1>2. /\ Kept(slots, rec, accepted) /\ Served(slots, next_peer', my_max_streams, accepted)
      /\ AllUnread(slots) = AllUnread(st) /\ AllSent(slots) <= AllSent(st)
  BY DEF LookedOn
<1>3. /\ Kept(st', rec', accepted) /\ Served(st', next_peer', my_max_streams', accepted)
      /\ AllUnread(st') = AllUnread(slots) - Unread(slots[i]) + Unread(t)
      /\ AllSent(st') <= AllSent(slots) /\ SizesHeld(slots, st')
  BY <1>1, <1>2, SlotKept
<1>4. RxFlow'
  <2>1. sum_rx - consumed = AllUnread(slots) /\ max_data_rx <= consumed + my_tp.max_data
        /\ sum_rx <= max_data_rx
    BY <1>1, <1>2 DEF RxFlow
  <2> QED BY <1>1, <1>3, <2>1, BooksKept
<1>5. AllSent(slots) <= sent_tx
  BY <1>1, <1>2, SumTypes
<1>6. SizesHeld(st, st')
  BY <1>3 DEF LookedOn, SizesHeld
<1> QED BY <1>1, <1>3, <1>4, <1>5, <1>6, PartsFollow

\* A frame on a stream that is closed leaves what lookup left.
LEMMA ClosedKept ==
    ASSUME Legal, Legal', Parts, err = NoErr, NEW slots, Looked(slots), LookedOn(slots), NEW id,
           ClosedStream(slots, id), accepted' = accepted
    PROVE  Parts' /\ SizesHeld(st, st')
<1>1. st' = slots /\ UNCHANGED <<credits, rxflow, txflow, rec, err>>
  BY DEF ClosedStream
<1>2. /\ AllGood(slots) /\ AllGood(st) /\ sent_tx \in Nat /\ AllSent(st) <= sent_tx
      /\ AllUnread(slots) = AllUnread(st) /\ AllSent(slots) <= AllSent(st) /\ RxFlow
  BY DEF Looked, LookedOn, Legal, TableOK, TxFlowOK, Parts
<1>3. RxFlow' /\ AllSent(st') <= sent_tx'
  <2>1. AllSent(slots) \in Nat /\ AllSent(st) \in Nat
    BY <1>2, SumTypes
  <2> QED BY <1>1, <1>2, <2>1 DEF RxFlow, rxflow, txflow
<1>4. Kept(st', rec', accepted') /\ Served(st', next_peer', my_max_streams', accepted')
  BY <1>1 DEF LookedOn, credits
<1>5. SizesHeld(st, st')
  BY <1>1 DEF LookedOn, SizesHeld, SizesKept
<1> QED BY <1>3, <1>4, <1>5 DEF Parts

\* STREAM: the window is charged for what is new, an aborted receiving part consumes it at once.
LEMMA RecvDataKept ==
    ASSUME Legal, Legal', Parts, err = NoErr, NEW slots, Looked(slots), LookedOn(slots),
           NEW i \in Slots, Has(slots[i], "USED"), Has(slots[i], "RX"),
           NEW off \in Nat, NEW end \in Nat, NEW fin \in BOOLEAN,
           RecvData(slots, i, off, end, fin)
    PROVE  Parts' /\ SizesHeld(st, st')
<1> DEFINE s == slots[i]
           h == Grow(s, end)
           g == [h EXCEPT !.rx_final = IF fin THEN end ELSE @]
           grown == MaxOf(s.rx_hi, end) - s.rx_hi
<1>1. /\ Good(s) /\ s \in Stream /\ RxOK(s) /\ Untouched(s, accepted) /\ Remembered(i, s, rec)
      /\ s.rx_hi \in Nat /\ s.rx_read \in Nat /\ s.rx_max \in Nat /\ s.rx_read <= s.rx_hi
      /\ s.rx_final \in NatOrNone
  BY DEF Looked, AllGood, Good, SlotOK, Stream, LookedOn, Kept, Used
<1>2. CASE FinalSizeErr(s, end, fin)
  <2>1. q_fail("FINAL_SIZE")
    BY <1>2 DEF RecvData
  <2> QED BY <2>1, FailKept DEF NoErr
<1>3. CASE ~FinalSizeErr(s, end, fin) /\ GrowErr(s, end)
  <2>1. q_fail("FLOW_CONTROL")
    BY <1>3 DEF RecvData
  <2> QED BY <2>1, FailKept DEF NoErr
<1>4. CASE ~FinalSizeErr(s, end, fin) /\ ~GrowErr(s, end)
  <2>1. /\ grown \in Nat /\ sum_rx' = sum_rx + grown /\ sum_rx + grown <= max_data_rx
    <3>1. sum_rx' = sum_rx + grown
      BY <1>4 DEF RecvData, GrowSum
    <3>2. sum_rx <= max_data_rx /\ sum_rx \in Nat /\ max_data_rx \in Nat
      BY DEF Parts, RxFlow, Legal, RxFlowOK
    <3>3. ~(end > s.rx_hi /\ sum_rx + (end - s.rx_hi) > max_data_rx)
      BY <1>4 DEF GrowErr
    <3> QED BY <1>1, <3>1, <3>2, <3>3 DEF MaxOf
  <2>2. /\ TxSame(s, g) /\ g.flags = s.flags /\ g.rx_read = s.rx_read
        /\ g.rx_hi = MaxOf(s.rx_hi, end) /\ g.rx_final = IF fin THEN end ELSE s.rx_final
        /\ g \in Stream
    BY <1>1, GrownEffect
  <2>3. /\ Final(s) => g.rx_final = s.rx_final
        /\ Final(s) => end <= s.rx_final
        /\ fin => s.rx_hi <= end
    BY <1>1, <1>4, <2>2 DEF FinalSizeErr, Final, NatOrNone, QS_NONE
  <2>4. Good(g) /\ SameSlot(s, g)
    <3>1. Good(h) /\ SameSlot(s, h)
      <4>1. end <= s.rx_max
        BY <1>1, <1>4 DEF GrowErr
      <4> QED BY <1>1, <2>3, <4>1, GrowGood
    <3>2. h.rx_hi = MaxOf(s.rx_hi, end)
      BY <1>1 DEF Grow, Stream
    <3> HIDE DEF h
    <3>3. CASE fin
      <4>1. g = [h EXCEPT !.rx_final = end]
        BY <3>1, <3>3 DEF Good, Stream
      <4>2. h.rx_hi <= end
        BY <1>1, <2>3, <3>2, <3>3 DEF MaxOf
      <4> QED BY <3>1, <4>1, <4>2, FinalGood DEF SameSlot
    <3>4. CASE ~fin
      <4>1. g = h
        BY <3>1, <3>4 DEF Good, Stream
      <4> QED BY <3>1, <4>1
    <3> QED BY <3>3, <3>4
  <2> HIDE DEF g, h
  <2>5. RxOK(g) /\ Untouched(g, accepted)
    <3>1. ASSUME Has(s, "RX_RESET") \/ Has(s, "RX_DONE")
          PROVE  g.rx_final = g.rx_hi /\ g.rx_read = g.rx_hi
      <4>1. s.rx_final = s.rx_hi /\ s.rx_read = s.rx_hi
        BY <1>1, <3>1 DEF RxOK
      <4>2. Final(s)
        BY <1>1, <4>1 DEF Final, QS_NONE
      <4> QED BY <1>1, <2>2, <2>3, <4>1, <4>2 DEF MaxOf
    <3>2. RxOK(g)
      BY <2>2, <3>1 DEF RxOK, Has
    <3>3. Untouched(g, accepted)
      BY <1>1, <2>2, <2>4 DEF Untouched, Has, SameSlot
    <3> QED BY <3>2, <3>3
  <2>6. /\ Unread(g) = Unread(s) + grown - 0
        /\ Unread(g) = g.rx_hi - g.rx_read /\ Unread(s) = s.rx_hi - s.rx_read
        /\ g.rx_hi - g.rx_read \in Nat /\ Has(g, "USED")
    BY <1>1, <2>2 DEF Unread, Has, MaxOf
  <2>7. accepted' = accepted /\ err' = NoErr /\ UNCHANGED txflow
    BY <1>4 DEF RecvData
  <2> HIDE DEF grown
  <2>8. CASE Has(s, "RX_ABORT") /\ ~Has(s, "RX_DONE")
    <3> DEFINE t == rx_drop(g)
               used == g.rx_hi - g.rx_read
    <3>1. PICK T : maybe_free([slots EXCEPT ![i] = t], T, rec, {})
      BY <1>4, <2>8 DEF RecvData, g, h
    <3>2. CreditConn(consumed + used)
      BY <1>4, <2>8 DEF RecvData, g, h
    <3>3. Good(t) /\ SameSlot(s, t)
      <4>1. g.rx_ring = Empty
        <5>1. Has(g, "RX_ABORT")
          BY <2>2, <2>8 DEF Has
        <5> QED BY <2>4, <5>1 DEF Good, RingsOK
      <4> QED BY <2>4, <4>1, DropGood DEF SameSlot
    <3>4. /\ TxSame(g, t)
          /\ t.rx_read = g.rx_hi /\ t.rx_hi = g.rx_hi /\ t.rx_final = g.rx_final
          /\ \A f \in {"RX", "RX_ABORT", "RX_RESET"} : Has(t, f) <=> Has(g, f)
          /\ Has(t, "RX_DONE") => Has(g, "RX_DONE") \/ g.rx_final = g.rx_hi
      BY <2>2, DropEffect
    <3> HIDE DEF t
    <3>5. RxOK(t)
      BY <2>5, <3>4, <3>3, <2>4 DEF RxOK, SameSlot
    <3>6. Untouched(t, accepted)
      BY <1>1, <2>8, <3>3 DEF Untouched, SameSlot
    <3>7. Unread(t) = Unread(s) + grown - used
      <4>1. Unread(t) = 0
        <5>1. t.rx_hi - t.rx_read = 0
          BY <2>2, <3>4 DEF Stream
        <5> QED BY <5>1 DEF Unread
      <4>2. Unread(s) \in Nat
        BY <1>1, <2>6
      <4> QED BY <2>1, <2>6, <4>1, <4>2
    <3>8. Remembered(i, t, rec) /\ SizesKept(s, t)
      <4>1. TxSame(s, t)
        BY <2>2, <3>4, TxSameTrans
      <4>2. Final(s) => t.rx_final = s.rx_final
        BY <2>3, <3>4
      <4> QED BY <1>1, <4>1, <4>2, TxKeeps
    <3>9. used \in Nat
      BY <2>6
    <3> HIDE DEF used
    <3> QED BY <1>1, <2>1, <2>7, <3>1, <3>2, <3>3, <3>5, <3>6, <3>7, <3>8, <3>9, FrameSlotKept
  <2>9. CASE ~(Has(s, "RX_ABORT") /\ ~Has(s, "RX_DONE"))
    <3>1. PICK t \in {g, Fill(g, off, end)} : /\ st' = [slots EXCEPT ![i] = t]
                                              /\ t # g => ~Has(s, "RX_ABORT")
      BY <1>4, <2>9 DEF RecvData, g, h
    <3>2. UNCHANGED <<consumed, max_data_rx, my_max_streams, rec>>
      BY <1>4, <2>9 DEF RecvData, credits
    <3>3. Good(t) /\ SameSlot(s, t)
      <4>1. CASE t = g
        BY <2>4, <4>1
      <4>2. CASE t # g
        <5>1. end <= g.rx_hi
          BY <1>1, <2>2 DEF MaxOf
        <5>2. ~Has(g, "RX_ABORT")
          BY <2>2, <3>1, <4>2 DEF Has
        <5>3. Good(Fill(g, off, end)) /\ SameSlot(g, Fill(g, off, end))
          BY <2>4, <5>1, <5>2, FillGood
        <5> QED BY <2>4, <3>1, <4>2, <5>3 DEF SameSlot
      <4> QED BY <4>1, <4>2
    <3>4. TxSame(g, t) /\ RxSame(g, t)
      <4>1. TxSame(g, g) /\ RxSame(g, g)
        BY DEF TxSame, RxSame, Same
      <4> QED BY <2>2, <3>1, <4>1, FillEffect
    <3>5. RxOK(t) /\ Untouched(t, accepted) /\ Unread(t) = Unread(s) + grown - 0
      BY <2>5, <2>6, <3>4, RxKeeps
    <3>6. Remembered(i, t, rec) /\ SizesKept(s, t)
      <4>1. TxSame(s, t)
        BY <2>2, <3>4, TxSameTrans
      <4>2. Final(s) => t.rx_final = s.rx_final
        BY <2>3, <3>4 DEF RxSame
      <4> QED BY <1>1, <4>1, <4>2, TxKeeps
    <3>7. 0 \in Nat /\ st' = [slots EXCEPT ![i] = t]
      BY <3>1
    <3> QED BY <1>1, <2>1, <2>7, <3>2, <3>3, <3>5, <3>6, <3>7, FrameSlotKept
  <2> QED BY <2>8, <2>9
<1> QED BY <1>2, <1>3, <1>4
\* RESET_STREAM: the window is charged up to the final size, and what was not read is consumed.
LEMMA RecvResetKept ==
    ASSUME Legal, Legal', Parts, err = NoErr, NEW slots, Looked(slots), LookedOn(slots),
           NEW i \in Slots, Has(slots[i], "USED"), Has(slots[i], "RX"), NEW b \in Nat,
           RecvReset(slots, i, b)
    PROVE  Parts' /\ SizesHeld(st, st')
<1> DEFINE s == slots[i]
           bad == (Final(s) /\ b # s.rx_final) \/ b < s.rx_hi
           g == [Grow(s, b) EXCEPT !.rx_final = b]
           r == Set([g EXCEPT !.rx_ring = Empty, !.rx_read = b], {"RX_RESET"})
           d == Clear(Set(r, {"RX_DONE"}), {"SS_PEND"})
           t == IF Has(s, "RX_ABORT") THEN d ELSE r
           grown == b - s.rx_hi
           used == b - s.rx_read
<1>1. /\ Good(s) /\ s \in Stream /\ RxOK(s) /\ Untouched(s, accepted) /\ Remembered(i, s, rec)
      /\ s.rx_hi \in Nat /\ s.rx_read \in Nat /\ s.rx_max \in Nat /\ s.rx_read <= s.rx_hi
      /\ s.rx_final \in NatOrNone
  BY DEF Looked, AllGood, Good, SlotOK, Stream, LookedOn, Kept, Used
<1>2. CASE bad
  <2>1. q_fail("FINAL_SIZE")
    BY <1>2 DEF RecvReset
  <2> QED BY <2>1, FailKept DEF NoErr
<1>3. CASE ~bad /\ GrowErr(s, b)
  <2>1. q_fail("FLOW_CONTROL")
    BY <1>3 DEF RecvReset
  <2> QED BY <2>1, FailKept DEF NoErr
<1>4. CASE ~bad /\ ~GrowErr(s, b)
  <2>1. s.rx_hi <= b /\ b <= s.rx_max /\ (Final(s) => s.rx_final = b)
    BY <1>1, <1>4 DEF GrowErr
  <2>2. grown \in Nat /\ used \in Nat /\ sum_rx' = sum_rx + grown /\ sum_rx + grown <= max_data_rx
    <3>1. MaxOf(s.rx_hi, b) = b
      BY <1>1, <2>1 DEF MaxOf
    <3>2. sum_rx' = sum_rx + grown
      BY <1>4, <3>1 DEF RecvReset, GrowSum
    <3>3. sum_rx <= max_data_rx /\ sum_rx \in Nat /\ max_data_rx \in Nat
      BY DEF Parts, RxFlow, Legal, RxFlowOK
    <3>4. ~(b > s.rx_hi /\ sum_rx + (b - s.rx_hi) > max_data_rx)
      BY <1>4 DEF GrowErr
    <3> QED BY <1>1, <2>1, <3>2, <3>3, <3>4
  <2>3. /\ TxSame(s, g) /\ g.flags = s.flags /\ g.rx_read = s.rx_read
        /\ g.rx_hi = b /\ g.rx_final = b
        /\ \A x \in {r, d} :
             /\ TxSame(s, x) /\ x.rx_read = b /\ x.rx_hi = b /\ x.rx_final = b
             /\ \A f \in {"RX", "RX_ABORT"} : Has(x, f) <=> Has(s, f)
        /\ Has(r, "RX_DONE") <=> Has(s, "RX_DONE")
    BY <1>1, <2>1, ResetEffect
  <2>4. Good(r) /\ SameSlot(s, r) /\ Good(d) /\ SameSlot(s, d)
    BY <1>1, <2>1, ResetGood
  <2>5. Good(g) /\ SameSlot(s, g)
    <3>1. Good(Grow(s, b)) /\ SameSlot(s, Grow(s, b))
      BY <1>1, <2>1, GrowGood
    <3>2. Grow(s, b).rx_hi <= b
      BY <1>1, <2>1 DEF Grow, MaxOf, Stream
    <3> QED BY <3>1, <3>2, FinalGood DEF SameSlot
  <2> HIDE DEF g, r, d
  <2>6. accepted' = accepted /\ err' = NoErr /\ UNCHANGED txflow
    BY <1>4 DEF RecvReset
  <2>7. CASE Has(s, "RX_RESET") \/ Has(s, "RX_DONE")
    <3>1. st' = [slots EXCEPT ![i] = g] /\ UNCHANGED <<consumed, max_data_rx, my_max_streams, rec>>
      BY <1>4, <2>7 DEF RecvReset, g, credits
    <3>2. s.rx_final = s.rx_hi /\ s.rx_read = s.rx_hi /\ Final(s)
      BY <1>1, <2>7 DEF RxOK, Final, QS_NONE
    <3>3. b = s.rx_hi /\ grown = 0
      BY <1>1, <2>1, <3>2
    <3>4. RxSame(s, g)
      BY <2>3, <3>2, <3>3, <2>5 DEF RxSame, Same, SameSlot, Has
    <3>5. RxOK(g) /\ Untouched(g, accepted) /\ Unread(g) = Unread(s)
      BY <1>1, <3>4, RxKeeps
    <3>6. Remembered(i, g, rec) /\ SizesKept(s, g)
      BY <1>1, <2>3, <3>2, <3>3, TxKeeps
    <3>7. 0 \in Nat /\ Unread(g) = Unread(s) + grown - 0
      BY <1>1, <3>3, <3>5 DEF Unread
    <3> HIDE DEF grown
    <3> QED BY <1>1, <2>2, <2>5, <2>6, <3>1, <3>5, <3>6, <3>7, FrameSlotKept
  <2>8. CASE ~(Has(s, "RX_RESET") \/ Has(s, "RX_DONE"))
    <3>1. PICK T : maybe_free([slots EXCEPT ![i] = t], T, rec, {})
      BY <1>4, <2>8 DEF RecvReset, g, r, d
    <3>2. CreditConn(consumed + used)
      BY <1>4, <2>8 DEF RecvReset
    <3>3. Good(t) /\ SameSlot(s, t)
      BY <2>4
    <3>4. /\ TxSame(s, t) /\ t.rx_read = b /\ t.rx_hi = b /\ t.rx_final = b
          /\ \A f \in {"RX", "RX_ABORT"} : Has(t, f) <=> Has(s, f)
          /\ Has(t, "RX_DONE") => Has(s, "RX_ABORT")
      BY <2>3, <2>8
    <3> HIDE DEF t
    <3>5. RxOK(t) /\ Untouched(t, accepted)
      <4>1. RxOK(t)
        BY <3>4 DEF RxOK
      <4>2. Untouched(t, accepted)
        BY <1>1, <3>3, <3>4 DEF Untouched, SameSlot
      <4> QED BY <4>1, <4>2
    <3>6. Unread(t) = Unread(s) + grown - used
      <4>1. Unread(t) = 0
        BY <3>4 DEF Unread
      <4>2. Unread(s) = s.rx_hi - s.rx_read
        BY DEF Unread
      <4> QED BY <1>1, <4>1, <4>2
    <3>7. Remembered(i, t, rec) /\ SizesKept(s, t)
      BY <1>1, <2>1, <3>4, TxKeeps
    <3> HIDE DEF grown, used
    <3> QED BY <1>1, <2>2, <2>6, <3>1, <3>2, <3>3, <3>5, <3>6, <3>7, FrameSlotKept
  <2> QED BY <2>7, <2>8
<1> QED BY <1>2, <1>3, <1>4

\* Frames about our sending half, or about nothing.
LEMMA OnlySlotKept ==
    ASSUME Legal, Legal', Parts, err = NoErr, NEW slots, Looked(slots), LookedOn(slots),
           NEW i \in Slots, Has(slots[i], "USED"), NEW a \in Nat,
           NEW t \in {StopStream(slots[i]), RaiseTxMax(slots[i], a), slots[i]},
           OnlySlot(slots, i, t)
    PROVE  Parts' /\ SizesHeld(st, st')
<1> DEFINE s == slots[i]
<1>1. /\ Good(s) /\ s \in Stream /\ RxOK(s) /\ Untouched(s, accepted) /\ Remembered(i, s, rec)
  BY DEF Looked, AllGood, Good, LookedOn, Kept, Used
<1>2. s \in Stream /\ Good(s)
  BY <1>1
<1>3. Good(t) /\ SameSlot(s, t)
  <2>1. Good(StopStream(s)) /\ SameSlot(s, StopStream(s))
    BY <1>1, FlagsGood DEF StopStream, Flags, SameSlot
  <2>2. Good(RaiseTxMax(s, a)) /\ SameSlot(s, RaiseTxMax(s, a))
    BY <1>1, RaiseTxMaxGood
  <2>3. SameSlot(s, s)
    BY DEF SameSlot
  <2> QED BY <1>1, <2>1, <2>2, <2>3
<1>4. RxSame(s, t) /\ SizesKept(s, t) /\ Remembered(i, t, rec)
  <2>1. RxSame(s, s) /\ SizesKept(s, s)
    BY DEF RxSame, Same, SizesKept
  <2>2. LET x == StopStream(s) IN RxSame(s, x) /\ SizesKept(s, x) /\ Remembered(i, x, rec)
    BY <1>1, <2>1, StopEffect DEF StopStream
  <2>3. LET x == RaiseTxMax(s, a) IN RxSame(s, x) /\ SizesKept(s, x) /\ Remembered(i, x, rec)
    <3>1. LET x == RaiseTxMax(s, a) IN RxSame(s, x) /\ TxSame(s, x)
      BY <1>1, RaiseEffect
    <3> QED BY <1>1, <3>1, TxKeeps DEF RxSame
  <2> QED BY <1>1, <2>1, <2>2, <2>3
<1>5. RxOK(t) /\ Untouched(t, accepted) /\ Unread(t) = Unread(s)
  BY <1>1, <1>4, RxKeeps
<1>6. /\ accepted' = accepted /\ err' = NoErr /\ UNCHANGED txflow
      /\ sum_rx' = sum_rx /\ UNCHANGED <<consumed, max_data_rx>>
      /\ st' = [slots EXCEPT ![i] = t] /\ UNCHANGED <<rec, my_max_streams>>
  BY DEF OnlySlot, rxflow, credits
<1>7. /\ 0 \in Nat /\ sum_rx' = sum_rx + 0 /\ sum_rx + 0 <= max_data_rx
      /\ Unread(t) = Unread(s) + 0 - 0
  <2>1. sum_rx <= max_data_rx /\ sum_rx \in Nat
    BY DEF Parts, RxFlow, Legal, RxFlowOK
  <2>2. Unread(s) \in Nat
    BY SumTypes DEF Looked
  <2> QED BY <1>5, <1>6, <2>1, <2>2
<1> QED BY <1>3, <1>4, <1>5, <1>6, <1>7, FrameSlotKept

\* STREAM frames.
LEMMA FrameKept ==
    ASSUME Legal, Parts, NEW id \in StreamIds, NEW off \in Nat, NEW n \in Nat, NEW fin \in BOOLEAN,
           stream_frame(id, off, n, fin)
    PROVE  Parts' /\ SizesHeld(st, st')
<1>1. err = NoErr /\ Legal'
  BY FrameLegal DEF stream_frame
<1>2. CASE LookupFails(id, TRUE)
  BY <1>1, <1>2, LookedKept
<1>3. CASE ~LookupFails(id, TRUE)
  <2>1. PICK slots \in lookup(id, TRUE) :
          /\ OpenedPeer(id)
          /\ \/ /\ ClosedStream(slots, id)
                /\ UNCHANGED <<next_local, accepted, peer_max_streams, pns>>
             \/ \E i \in find(slots, id) : RecvData(slots, i, off, off + n, fin)
    BY <1>3 DEF stream_frame
  <2>2. Looked(slots) /\ LookedOn(slots) /\ \A i \in find(slots, id) : Has(slots[i], "RX")
    BY <1>1, <2>1, LookedKept
  <2>3. \A i \in find(slots, id) : i \in Slots /\ Has(slots[i], "USED")
    BY DEF find, Used
  <2>4. off + n \in Nat
    OBVIOUS
  <2>5. CASE ClosedStream(slots, id) /\ accepted' = accepted
    BY <1>1, <2>2, <2>5, ClosedKept
  <2>6. ASSUME NEW i \in find(slots, id), RecvData(slots, i, off, off + n, fin)
        PROVE  Parts' /\ SizesHeld(st, st')
    BY <1>1, <2>2, <2>3, <2>4, <2>6, RecvDataKept
  <2> QED BY <2>1, <2>5, <2>6
<1> QED BY <1>2, <1>3

\* RESET_STREAM, STOP_SENDING, MAX_STREAM_DATA and STREAM_DATA_BLOCKED.
LEMMA CtlKept ==
    ASSUME Legal, Parts, NEW type \in CtlTypes, NEW id \in StreamIds, NEW a \in Nat,
           stream_ctl(type, id, a)
    PROVE  Parts' /\ SizesHeld(st, st')
<1> DEFINE rx == type \in {"RESET_STREAM", "STREAM_DATA_BLOCKED"}
<1>1. err = NoErr /\ rx \in BOOLEAN /\ Legal'
  BY CtlLegal DEF stream_ctl
<1>2. CASE LookupFails(id, rx)
  BY <1>1, <1>2, LookedKept
<1>3. CASE ~LookupFails(id, rx)
  <2>1. PICK slots \in lookup(id, rx) :
          /\ OpenedPeer(id)
          /\ \/ /\ ClosedStream(slots, id)
                /\ UNCHANGED <<next_local, accepted, peer_max_streams, pns>>
             \/ \E i \in find(slots, id) :
                  \/ type = "RESET_STREAM" /\ RecvReset(slots, i, a)
                  \/ \E t \in {StopStream(slots[i]), RaiseTxMax(slots[i], a), slots[i]} :
                        OnlySlot(slots, i, t)
    BY <1>3 DEF stream_ctl
  <2>2. Looked(slots) /\ LookedOn(slots) /\ (rx => \A i \in find(slots, id) : Has(slots[i], "RX"))
    BY <1>1, <2>1, LookedKept
  <2>3. \A i \in find(slots, id) : i \in Slots /\ Has(slots[i], "USED")
    BY DEF find, Used
  <2>4. CASE ClosedStream(slots, id) /\ accepted' = accepted
    BY <1>1, <2>2, <2>4, ClosedKept
  <2>5. ASSUME NEW i \in find(slots, id), type = "RESET_STREAM", RecvReset(slots, i, a)
        PROVE  Parts' /\ SizesHeld(st, st')
    <3>1. Has(slots[i], "RX")
      BY <2>2, <2>5
    <3> QED BY <1>1, <2>2, <2>3, <2>5, <3>1, RecvResetKept
  <2>6. ASSUME NEW i \in find(slots, id),
               NEW t \in {StopStream(slots[i]), RaiseTxMax(slots[i], a), slots[i]},
               OnlySlot(slots, i, t)
        PROVE  Parts' /\ SizesHeld(st, st')
    BY <1>1, <2>2, <2>3, <2>6, OnlySlotKept
  <2> QED BY <2>1, <2>4, <2>5, <2>6
<1> QED BY <1>2, <1>3

\* MAX_DATA and MAX_STREAMS.
LEMMA LimitsKept ==
    ASSUME Parts, NEW v \in Nat, NEW d \in Dirs, max_data_frame(v) \/ max_streams_frame(d, v)
    PROVE  Parts' /\ SizesHeld(st, st')
<1>1. UNCHANGED <<st, next_peer, accepted, credits, rxflow, sent_tx, rec, err>>
  BY DEF max_data_frame, max_streams_frame, counts, txflow
<1>2. RxFlow => RxFlow'
  BY <1>1 DEF RxFlow, rxflow
<1> QED BY <1>1, <1>2 DEF Parts, credits, SizesHeld, SizesKept
-----------------------------------------------------------------------------
(* One lemma per action: packets *)

\* What was in a packet that arrived or was lost is acknowledged or owed again.
LEMMA RecordKept ==
    ASSUME Legal, Parts, NEW r, NEW acked \in BOOLEAN, stream_record(r, acked)
    PROVE  Parts' /\ SizesHeld(st, st')
<1> DEFINE slots == [i \in Slots |-> AfterRecord(i, r, acked)]
           R == rec \ {r}
<1>1. /\ AllGood(st) /\ RecsOK(rec, st) /\ CreditOK /\ accepted \in [Dirs -> Nat]
      /\ next_peer \in [Dirs -> Nat] /\ my_max_streams \in [Dirs -> Nat] /\ err = NoErr
      /\ Kept(st, rec, accepted) /\ Served(st, next_peer, my_max_streams, accepted) /\ RxFlow
      /\ sent_tx \in Nat /\ AllSent(st) <= sent_tx /\ r \in rec /\ rec \subseteq Records
  BY DEF Legal, TableOK, CountsOK, CreditOK, TxFlowOK, RecsOK, Parts, stream_record
<1>2. r \in Records /\ RecordOK(r, st)
  BY <1>1 DEF RecsOK
<1>3. \A i \in Slots : /\ Good(slots[i]) /\ SameSlot(st[i], slots[i])
                       /\ r.slot = i => r.off + r.len <= st[i].tx_hi
  <2> TAKE i \in Slots
  <2>1. Good(st[i])
    BY <1>1 DEF AllGood
  <2>2. r.slot = i => r.off + r.len <= st[i].tx_hi
    BY <1>2, TpAssumption DEF RecordOK, NoSlot, Slots
  <2>3. LET t == AfterRecord(i, r, acked) IN Good(t) /\ SameSlot(st[i], t)
    BY <1>2, <2>1, <2>2, AfterRecordGood
  <2> QED BY <2>2, <2>3
<1>4. \A i \in Used(st) : /\ RxSame(st[i], slots[i]) /\ Remembered(i, slots[i], R)
                          /\ SizesKept(st[i], slots[i])
  <2> TAKE i \in Used(st)
  <2>1. i \in Slots /\ Has(st[i], "USED") /\ Good(st[i]) /\ Remembered(i, st[i], rec)
    BY <1>1 DEF Used, AllGood, Kept
  <2>2. LET t == AfterRecord(i, r, acked) IN
        RxSame(st[i], t) /\ Remembered(i, t, rec \ {r}) /\ SizesKept(st[i], t)
    BY <1>1, <1>3, <2>1, AfterRecordEffect
  <2> QED BY <2>1, <2>2
<1>5. slots \in [Slots -> Stream]
  BY <1>3 DEF Good
<1>6. PICK T, owed : maybe_free(slots, T, R, owed)
  BY DEF stream_record
<1>7. UNCHANGED <<counts, max_data_rx, sum_rx, consumed, txflow, pns, err>>
  BY DEF stream_record
<1> HIDE DEF slots
<1>8. AllGood(slots) /\ \A i \in Slots : Same(st[i], slots[i]) /\ slots[i].tx_hi = st[i].tx_hi
  BY <1>3, <1>5 DEF AllGood, SameSlot, Same
<1>9. RecsOK(R, slots)
  <2>1. SameTable(st, slots)
    BY <1>1, <1>3, SameMore DEF AllGood, SameTable
  <2>2. RecsOK(rec, slots)
    BY <1>1, <1>8, <2>1, SameRecords
  <2> QED BY <2>2 DEF RecsOK
<1>10. Kept(slots, R, accepted) /\ Served(slots, next_peer, my_max_streams, accepted)
  <2>1. Used(slots) = Used(st)
    BY <1>8 DEF Same, Used
  <2>2. Kept(slots, R, accepted)
    BY <1>1, <1>4, <2>1, RxKeeps DEF Kept
  <2> QED BY <1>1, <1>8, <2>2, SameServed
<1>11. AllUnread(slots) = AllUnread(st) /\ AllSent(slots) <= AllSent(st)
  <2>1. \A i \in Slots : Unread(slots[i]) = Unread(st[i])
    <3> TAKE i \in Slots
    <3>1. CASE i \in Used(st)
      BY <1>4, <3>1, RxKeeps
    <3>2. CASE i \notin Used(st)
      BY <1>8, <3>2 DEF Used, Same, Unread
    <3> QED BY <3>1, <3>2
  <2>2. \A i \in Slots : SentOn(slots[i]) <= SentOn(st[i])
    <3> TAKE i \in Slots
    <3>1. SentOn(slots[i]) = SentOn(st[i]) /\ SentOn(st[i]) \in Nat
      BY <1>1, <1>8, SumTypes DEF Same, SentOn
    <3> QED BY <3>1
  <2> QED BY <1>1, <1>8, <2>1, <2>2, SumsSame
<1>12. /\ Kept(st', rec', accepted) /\ Served(st', next_peer, my_max_streams', accepted)
       /\ AllUnread(st') = AllUnread(slots) /\ AllSent(st') <= AllSent(slots)
       /\ \A i \in Used(st') : i \in Used(slots) /\ st'[i] = slots[i]
  BY <1>1, <1>6, <1>8, <1>9, <1>10, FreeKept
<1>13. SizesHeld(st, st')
  BY <1>4, <1>12 DEF SizesHeld
<1>14. RxFlow'
  BY <1>1, <1>7, <1>11, <1>12 DEF RxFlow
<1>15. Legal' /\ AllSent(slots) <= sent_tx
  <2>1. AllSent(slots) \in Nat /\ AllSent(st) \in Nat
    BY <1>1, <1>8, SumTypes
  <2> QED BY <1>1, <1>11, <2>1, RecordLegal
<1> QED BY <1>1, <1>7, <1>8, <1>12, <1>13, <1>14, <1>15, PartsFollow DEF counts, txflow

\* A packet leaves: what it carries is in its record, and new bytes are charged once.
LEMMA OutKept ==
    ASSUME Legal, Parts, NEW room \in Nat, stream_out(room)
    PROVE  Parts' /\ SizesHeld(st, st')
<1> DEFINE u == Unit(room)
           Scanned(i) == \A j \in u.slot : i <= j
           ready(i) == LET s == AfterControl(i, u.ctl) IN
                       IF Scanned(i) /\ Sends(s) THEN SkipAcked(s) ELSE s
           kinds == {x[1] : x \in u.ctl}
           table == [i \in Slots |-> ready(i)]
           control == [pn |-> tx_pn, id |-> Id(FALSE, BIDI, 0), slot |-> NoSlot, off |-> 0,
                       len |-> 0, fin |-> FALSE, ctl |-> kinds]
<1>1. /\ AllGood(st) /\ RecsOK(rec, st) /\ CreditOK /\ accepted \in [Dirs -> Nat]
      /\ next_peer \in [Dirs -> Nat] /\ err = NoErr /\ tx_pn \in Nat /\ TxFlowOK
      /\ Kept(st, rec, accepted) /\ Served(st, next_peer, my_max_streams, accepted) /\ RxFlow
      /\ sent_tx \in Nat /\ AllSent(st) <= sent_tx
  BY DEF Legal, TableOK, CountsOK, TxFlowOK, PnsOK, Parts, stream_out
<1>2. u.left = room - Cardinality(Pending)
      /\ u.slot \subseteq {i \in Slots : CanSend(SkipAcked(AfterControl(i, u.ctl)), u.left)}
  BY DEF Unit
<1>3. Legal' /\ AllGood(st')
  <2>1. Legal'
    BY OutLegal
  <2> QED BY <2>1 DEF Legal, TableOK
<1>4. \A i \in Slots : Good(ready(i)) /\ SameSlot(st[i], ready(i))
  <2> TAKE i \in Slots
  <2> DEFINE s == AfterControl(i, u.ctl)
  <2>1. Good(s) /\ SameSlot(st[i], s)
    BY <1>1, AfterControlGood DEF AllGood
  <2> HIDE DEF s
  <2>2. Good(SkipAcked(s)) /\ SameSlot(s, SkipAcked(s))
    BY <2>1, SkipAckedGood
  <2>3. ready(i) \in {s, SkipAcked(s)}
    BY DEF s
  <2> HIDE DEF ready
  <2> QED BY <2>1, <2>2, <2>3 DEF SameSlot
<1>5. UNCHANGED <<counts, my_max_streams, max_data_rx, sum_rx, consumed, max_data_tx, err>>
  BY DEF stream_out
<1>6. ASSUME rec \subseteq rec',
             \A i \in Slots : <<"RESET", i>> \in u.ctl
                                => \E q \in rec' : "RESET" \in q.ctl /\ q.pn = tx_pn
      PROVE  \A i \in Slots : /\ RxSame(st[i], ready(i)) /\ SizesKept(st[i], ready(i))
                              /\ Sends(ready(i)) => Sends(st[i])
                              /\ Remembered(i, st[i], rec) => Remembered(i, ready(i), rec')
  <2> DEFINE c == u.ctl
  <2> TAKE i \in Slots
  <2>1. ready(i) \in {AfterControl(i, c), SkipAcked(AfterControl(i, c))}
    OBVIOUS
  <2>2. Good(st[i]) /\ tx_pn \in Nat /\ rec \subseteq rec'
    BY <1>1, <1>6 DEF AllGood
  <2>3. <<"RESET", i>> \in c => \E q \in rec' : "RESET" \in q.ctl /\ q.pn = tx_pn
    BY <1>6
  <2> HIDE DEF ready, u, c
  <2>4. ASSUME NEW t \in {AfterControl(i, c), SkipAcked(AfterControl(i, c))}
        PROVE  /\ RxSame(st[i], t) /\ SizesKept(st[i], t)
               /\ Sends(t) => Sends(st[i])
               /\ Remembered(i, st[i], rec) => Remembered(i, t, rec')
    BY <2>2, <2>3, ReadyEffect
  <2> QED BY <2>1, <2>4
<1>7. \A k, i : <<k, i>> \in u.ctl => k \in kinds
  <2> TAKE k, i
  <2> HAVE <<k, i>> \in u.ctl
  <2>1. <<k, i>>[1] = k
    OBVIOUS
  <2> QED BY <2>1
<1>8. AllGood(table) /\ AllUnread(table) \in Nat /\ AllSent(table) \in Nat
      /\ \A i \in Slots : table[i] = ready(i)
  <2> HIDE DEF ready
  <2>1. table \in [Slots -> Stream]
    BY <1>4 DEF Good
  <2>2. AllGood(table)
    BY <1>4, <2>1 DEF AllGood
  <2> QED BY <2>2, SumTypes
<1>9. ASSUME \A i \in Slots : RxSame(st[i], ready(i))
      PROVE  /\ AllUnread(table) = AllUnread(st) /\ AllSent(table) <= AllSent(st)
             /\ \A i \in Slots : Same(st[i], table[i])
  <2> HIDE DEF ready
  <2>1. \A i \in Slots : Unread(table[i]) = Unread(st[i])
    BY <1>8, <1>9, RxKeeps
  <2>2. \A i \in Slots : SentOn(table[i]) <= SentOn(st[i])
    <3> TAKE i \in Slots
    <3>1. SentOn(table[i]) = SentOn(st[i]) /\ SentOn(st[i]) \in Nat
      BY <1>1, <1>4, <1>8, SumTypes DEF SameSlot, SentOn
    <3> QED BY <3>1
  <2>3. \A i \in Slots : Same(st[i], table[i])
    BY <1>8, <1>9 DEF RxSame
  <2> HIDE DEF table
  <2> QED BY <1>1, <1>8, <2>1, <2>2, <2>3, SumsSame
<1>10. CASE /\ st' = table
            /\ rec' = rec \cup IF u.ctl = {} THEN {} ELSE {control}
            /\ UNCHANGED sent_tx
  <2>1. \A i \in Slots : <<"RESET", i>> \in u.ctl
                           => \E q \in rec' : "RESET" \in q.ctl /\ q.pn = tx_pn
    <3> TAKE i \in Slots
    <3> HAVE <<"RESET", i>> \in u.ctl
    <3>1. control \in rec' /\ "RESET" \in kinds
      BY <1>7, <1>10
    <3> HIDE DEF kinds
    <3> QED BY <3>1
  <2>2. rec \subseteq rec'
    BY <1>10
  <2>3. \A i \in Slots : /\ RxSame(st[i], ready(i)) /\ SizesKept(st[i], ready(i))
                         /\ Remembered(i, st[i], rec) => Remembered(i, ready(i), rec')
    BY <1>6, <2>1, <2>2
  <2> HIDE DEF ready, control
  <2>4. /\ AllUnread(table) = AllUnread(st) /\ AllSent(table) <= AllSent(st)
        /\ \A i \in Slots : Same(st[i], table[i])
    BY <1>9, <2>3
  <2>5. Used(st') = Used(st) /\ \A i \in Slots : st'[i] = ready(i)
    BY <1>8, <1>10, <2>4 DEF Same, Used
  <2>6. Kept(st', rec', accepted)
    <3> SUFFICES ASSUME NEW i \in Used(st)
                 PROVE  RxOK(st'[i]) /\ Untouched(st'[i], accepted) /\ Remembered(i, st'[i], rec')
      BY <2>5 DEF Kept
    <3>1. i \in Slots
      BY DEF Used
    <3> QED BY <1>1, <2>3, <2>5, <3>1, RxKeeps DEF Kept
  <2>7. Served(st', next_peer', my_max_streams', accepted')
    <3>1. UNCHANGED <<next_peer, my_max_streams, accepted>>
      BY <1>5 DEF counts
    <3>2. Served(table, next_peer, my_max_streams, accepted)
      <4> HIDE DEF table
      <4> QED BY <1>1, <2>4, SameServed
    <3> QED BY <1>10, <3>1, <3>2
  <2>8. RxFlow' /\ AllSent(st') <= AllSent(st) /\ sent_tx' = sent_tx
    BY <1>1, <1>5, <1>10, <2>4 DEF RxFlow
  <2>9. SizesHeld(st, st')
    BY <2>3, <2>5 DEF SizesHeld, Used
  <2>10. accepted' = accepted /\ err' = NoErr
    BY <1>1, <1>5 DEF counts
  <2> QED BY <1>1, <1>3, <2>6, <2>7, <2>8, <2>9, <2>10, PartsFollow
<1>11. ASSUME NEW i \in u.slot,
              LET s == ready(i)
                  n == DataLen(s, u.left)
                  fin == DataFin(s, u.left)
              IN  /\ st' = [j \in Slots |-> IF j = i THEN AfterData(s, n, fin) ELSE ready(j)]
                  /\ rec' = rec \cup {[pn |-> tx_pn, id |-> s.id, slot |-> i, off |-> s.tx_next,
                                      len |-> n, fin |-> fin, ctl |-> kinds]}
                  /\ sent_tx' = sent_tx + (MaxOf(s.tx_hi, s.tx_next + n) - s.tx_hi)
       PROVE  Parts' /\ SizesHeld(st, st')
  <2> DEFINE s == ready(i)
             n == DataLen(s, u.left)
             fin == DataFin(s, u.left)
             t == AfterData(s, n, fin)
             q == [pn |-> tx_pn, id |-> s.id, slot |-> i, off |-> s.tx_next,
                   len |-> n, fin |-> fin, ctl |-> kinds]
  <2>1. i \in Slots /\ CanSend(SkipAcked(AfterControl(i, u.ctl)), u.left) /\ u.left >= 1
    BY <1>2 DEF CanSend
  <2>2. Sends(s) /\ Has(s, "USED") /\ Good(s) /\ SameSlot(st[i], s)
    <3> DEFINE c == AfterControl(i, u.ctl)
    <3>1. Good(c)
      BY <1>1, <2>1, AfterControlGood DEF AllGood
    <3>2. SkipAcked(c).flags = c.flags
      <4> HIDE DEF c
      <4> QED BY <3>1 DEF SkipAcked, Good, Stream
    <3>3. Sends(SkipAcked(c)) /\ Sends(c)
      <4> HIDE DEF c
      <4>1. Sends(SkipAcked(c))
        BY <2>1 DEF CanSend, c
      <4> QED BY <3>2, <4>1 DEF Sends, Has
    <3>4. Sends(s)
      BY <3>3
    <3>5. Good(s) /\ SameSlot(st[i], s)
      BY <1>4, <2>1
    <3> HIDE DEF s, c
    <3> QED BY <3>4, <3>5 DEF Sends, Good, SlotOK
  <2>3. /\ st' = [table EXCEPT ![i] = t] /\ rec' = rec \cup {q}
        /\ sent_tx' = sent_tx + (MaxOf(s.tx_hi, s.tx_next + n) - s.tx_hi)
    BY <1>11
  <2>4. \A j \in Slots : <<"RESET", j>> \in u.ctl
                           => \E x \in rec' : "RESET" \in x.ctl /\ x.pn = tx_pn
    <3> TAKE j \in Slots
    <3> HAVE <<"RESET", j>> \in u.ctl
    <3>1. q \in rec' /\ "RESET" \in kinds
      BY <1>7, <2>3
    <3> HIDE DEF kinds, s, n, fin
    <3> QED BY <3>1
  <2>5. \A j \in Slots : /\ RxSame(st[j], ready(j)) /\ SizesKept(st[j], ready(j))
                         /\ Sends(ready(j)) => Sends(st[j])
                         /\ Remembered(j, st[j], rec) => Remembered(j, ready(j), rec')
    BY <1>6, <2>3, <2>4
  <2>6. n \in Nat /\ n <= Avail(s) /\ fin \in BOOLEAN
    <3> HIDE DEF s
    <3>1. Avail(s) \in Nat
      BY <1>1, <2>2, AvailBound DEF TxFlowOK
    <3>2. u.left \in Int
      BY <1>2, PendingFinite
    <3>3. fin \in BOOLEAN
      BY DEF DataFin, FinDue, Has
    <3> HIDE DEF u
    <3> QED BY <2>1, <3>1, <3>2, <3>3 DEF DataLen, MinOf
  <2>a. table[i] = s /\ s \in Stream
    BY <1>8, <2>1, <2>2 DEF Good
  <2>b. q \in rec' /\ q.slot = i /\ q.off = s.tx_next /\ q.len = n /\ q.fin = fin
    BY <2>3
  <2> HIDE DEF ready
  <2>7. /\ AllUnread(table) = AllUnread(st) /\ AllSent(table) <= AllSent(st)
        /\ \A j \in Slots : Same(st[j], table[j])
    BY <1>9, <2>5
  <2>c. RxSame(st[i], s) /\ SizesKept(st[i], s) /\ Sends(st[i])
        /\ (Remembered(i, st[i], rec) => Remembered(i, s, rec'))
    BY <2>1, <2>2, <2>5
  <2> HIDE DEF table, s, n, fin, q
  <2>8. Good(t) /\ SentMore(s, t) /\ t.tx_hi = MaxOf(s.tx_hi, s.tx_next + n)
    BY <1>1, <2>2, <2>6, AfterDataGood DEF TxFlowOK
  <2>9. RxSame(s, t) /\ SizesKept(s, t) /\ (Remembered(i, s, rec') => Remembered(i, t, rec'))
    BY <2>2, <2>6, <2>b, AfterDataEffect
  <2> HIDE DEF t
  <2>10. RxSame(st[i], t) /\ SizesKept(st[i], t)
    <3>1. RxSame(st[i], t)
      BY <2>9, <2>c, RxSameTrans
    <3>3. t.rx_final = s.rx_final /\ s.rx_final = st[i].rx_final
      BY <2>9, <2>c DEF RxSame
    <3>4. Has(st[i], "TX_FIN") => t.tx_len = st[i].tx_len
      <4>1. t.tx_len = s.tx_len
        BY <2>a DEF t, AfterData, Stream
      <4> QED BY <2>c, <4>1 DEF SizesKept
    <3>5. ~Has(st[i], "STOP")
      BY <2>c DEF Sends
    <3> QED BY <3>1, <3>3, <3>4, <3>5 DEF SizesKept
  <2>11. \A j \in Slots : st'[j] = IF j = i THEN t ELSE ready(j)
    BY <1>8, <2>1, <2>3 DEF AllGood
  <2>12. \A j \in Slots : /\ RxSame(st[j], st'[j]) /\ SizesKept(st[j], st'[j])
                          /\ Remembered(j, st[j], rec) => Remembered(j, st'[j], rec')
    BY <2>5, <2>9, <2>10, <2>11, <2>c
  <2>13. Used(st') = Used(st) /\ \A j \in Slots : Same(st[j], st'[j])
    BY <2>12 DEF RxSame, Same, Used
  <2>14. Kept(st', rec', accepted)
    <3> SUFFICES ASSUME NEW j \in Used(st)
                 PROVE  RxOK(st'[j]) /\ Untouched(st'[j], accepted) /\ Remembered(j, st'[j], rec')
      BY <2>13 DEF Kept
    <3>1. j \in Slots
      BY DEF Used
    <3> QED BY <1>1, <2>12, <3>1, RxKeeps DEF Kept
  <2>15. Served(st', next_peer', my_max_streams', accepted')
    <3>1. UNCHANGED <<next_peer, my_max_streams, accepted>>
      BY <1>5 DEF counts
    <3>2. Served(st', next_peer, my_max_streams, accepted)
      BY <1>1, <2>13, SameServed
    <3> QED BY <3>1, <3>2
  <2>16. AllUnread(st') = AllUnread(st) /\ RxFlow'
    <3>1. \A j \in Slots : Unread(st'[j]) = Unread(st[j])
      BY <2>12, RxKeeps
    <3>2. AllUnread(st') = AllUnread(st)
      BY <1>1, <1>3, <3>1, SumsSame
    <3> QED BY <1>1, <1>5, <3>2 DEF RxFlow
  <2>17. AllSent(st') <= sent_tx'
    <3>1. AllSent(st') = AllSent(table) - SentOn(table[i]) + SentOn(t)
      BY <1>8, <2>1, <2>3, <2>8, SumsPut
    <3>2. SentOn(table[i]) = s.tx_hi /\ SentOn(t) = MaxOf(s.tx_hi, s.tx_next + n)
      BY <2>2, <2>8, <2>a DEF SentMore, SentOn
    <3>3. s.tx_hi \in Nat /\ s.tx_next \in Nat /\ MaxOf(s.tx_hi, s.tx_next + n) \in Nat
      BY <2>6, <2>a DEF Stream, MaxOf
    <3>4. AllSent(table) \in Nat /\ AllSent(st) \in Nat
      BY <1>1, <1>8, SumTypes
    <3> QED BY <1>1, <2>3, <2>7, <3>1, <3>2, <3>3, <3>4
  <2>18. SizesHeld(st, st')
    BY <2>12 DEF SizesHeld, Used
  <2>19. accepted' = accepted /\ err' = NoErr
    BY <1>1, <1>5 DEF counts
  <2> QED BY <2>14, <2>15, <2>16, <2>17, <2>18, <2>19 DEF Parts
<1> QED BY <1>10, <1>11 DEF stream_out

-----------------------------------------------------------------------------
(* The invariant CInv *)

\* Every step keeps conservation and the final sizes.
LEMMA StepParts ==
    ASSUME Legal, Parts, Next
    PROVE  Parts' /\ SizesHeld(st, st')
<1>1. /\ Chunks \subseteq Nat /\ Rooms \subseteq Nat /\ Offsets \subseteq Nat
      /\ FrameIds \subseteq StreamIds
  BY BoundsAssumption DEF FrameIds, StreamIds
<1>2. CASE App
  BY <1>1, <1>2, OpenKept, AcceptKept, WriteKept, ReadKept, AbortKept DEF App
<1>3. CASE Peer
  <2>1. ASSUME NEW id \in FrameIds, NEW off \in Offsets, NEW n \in Chunks, NEW fin \in BOOLEAN,
               stream_frame(id, off, n, fin)
        PROVE  Parts' /\ SizesHeld(st, st')
    BY <1>1, <2>1, FrameKept
  <2>2. ASSUME NEW type \in CtlTypes, NEW id \in FrameIds, NEW a \in Offsets,
               stream_ctl(type, id, a)
        PROVE  Parts' /\ SizesHeld(st, st')
    BY <1>1, <2>2, CtlKept
  <2>3. ASSUME NEW v \in Offsets, NEW d \in Dirs, max_data_frame(v) \/ max_streams_frame(d, v)
        PROVE  Parts' /\ SizesHeld(st, st')
    BY <1>1, <2>3, LimitsKept
  <2>4. BIDI \in Dirs
    BY DEF Dirs
  <2> QED BY <1>3, <2>1, <2>2, <2>3, <2>4 DEF Peer
<1>4. CASE Packets
  BY <1>1, <1>4, OutKept, RecordKept DEF Packets
<1> QED BY <1>2, <1>3, <1>4 DEF Next

LEMMA StutterParts ==
    ASSUME Parts, UNCHANGED vars
    PROVE  Parts'
BY DEF Parts, RxFlow, vars, counts, credits, rxflow, txflow, pns

\* At the start no stream is open, and all credit is there.
LEMMA InitParts ==
    ASSUME Init
    PROVE  Parts
<1>1. /\ \A i \in Slots : st[i] = FreeSlot
      /\ sent_tx = 0 /\ sum_rx = 0 /\ consumed = 0 /\ max_data_rx = my_tp.max_data
      /\ \A d \in Dirs : next_peer[d] = 0 /\ accepted[d] = 0 /\ my_max_streams[d] = my_tp.streams[d]
  BY DEF Init, streams_init
<1>2. my_tp.max_data \in Nat /\ \A d \in Dirs : my_tp.streams[d] \in Nat
  BY TpAssumption DEF Limits
<1>3. Used(st) = {}
  BY <1>1, FreeSlotGood DEF Used
<1>4. AllUnread(st) = 0 /\ AllSent(st) = 0
  <2> DEFINE f == [i \in Slots |-> Unread(st[i])]
             g == [i \in Slots |-> SentOn(st[i])]
  <2>1. \A i \in Slots : f[i] = 0 /\ g[i] = 0
    BY <1>1, FreeSlotGood DEF Unread, SentOn
  <2>2. DOMAIN f = Slots /\ DOMAIN g = Slots
    OBVIOUS
  <2> HIDE DEF f, g
  <2>3. SumFunctionOnSet(f, Slots) = 0 /\ SumFunctionOnSet(g, Slots) = 0
    BY <2>1, SlotsFinite, SumZero
  <2> QED BY <2>2, <2>3 DEF AllUnread, AllSent, SumFunction, f, g
<1>5. RxFlow
  BY <1>1, <1>2, <1>4 DEF RxFlow
<1>6. Served(st, next_peer, my_max_streams, accepted)
  <2>1. \A d \in Dirs : LivePeer(st, d) = {}
    BY <1>3 DEF LivePeer
  <2>2. CreditKept(st, next_peer, my_max_streams)
    <3> SUFFICES ASSUME NEW d \in Dirs
                 PROVE  /\ next_peer[d] <= my_max_streams[d]
                        /\ Cardinality(LivePeer(st, d)) + (my_max_streams[d] - next_peer[d])
                              = my_tp.streams[d]
      BY DEF CreditKept
    <3>1. Cardinality(LivePeer(st, d)) = 0
      BY <2>1, FS_EmptySet
    <3> QED BY <1>1, <1>2, <3>1
  <2>3. Waiting(st, next_peer, accepted)
    <3>1. \A d \in Dirs : accepted[d]..(next_peer[d] - 1) = {}
      BY <1>1
    <3> QED BY <3>1 DEF Waiting
  <2> QED BY <2>2, <2>3 DEF Served
<1>7. Kept(st, rec, accepted)
  BY <1>3 DEF Kept
<1> QED BY <1>1, <1>4, <1>5, <1>6, <1>7 DEF Parts

\* The parts the proof works with are the invariant the runs check.
LEMMA PartsIsCInv == CInv <=> Legal /\ Parts
<1>1. Legal => \A i \in Used(st) :
               /\ st[i].tx_base <= st[i].tx_next /\ st[i].tx_next <= st[i].tx_hi
               /\ st[i].tx_hi <= st[i].tx_max /\ st[i].tx_hi <= st[i].tx_len
  BY DEF Legal, TableOK, AllGood, Good, SlotOK, Used
<1>2. Legal => sent_tx <= max_data_tx
  BY DEF Legal, TxFlowOK
<1> QED BY <1>1, <1>2, LegalIsIInv, Zenon
        DEF CInv, Parts, Kept, Served, RxFlow, FlowControlKept, ConnCreditConserved,
            SendWithinLimits, PeerStreamsKept, StreamCreditConserved, UnacceptedHaveSlots,
            NothingForgotten

LEMMA NextPartsIsCInv == CInv' <=> Legal' /\ Parts'
<1>1. Legal' => \A i \in Used(st') :
               /\ st'[i].tx_base <= st'[i].tx_next /\ st'[i].tx_next <= st'[i].tx_hi
               /\ st'[i].tx_hi <= st'[i].tx_max /\ st'[i].tx_hi <= st'[i].tx_len
  BY DEF Legal, TableOK, AllGood, Good, SlotOK, Used
<1>2. Legal' => sent_tx' <= max_data_tx'
  BY DEF Legal, TxFlowOK
<1> QED BY <1>1, <1>2, NextLegalIsIInv, Zenon
        DEF CInv, Parts, Kept, Served, RxFlow, FlowControlKept, ConnCreditConserved,
            SendWithinLimits, PeerStreamsKept, StreamCreditConserved, UnacceptedHaveSlots,
            NothingForgotten

-----------------------------------------------------------------------------
(* Theorems *)

\* Credit, streams waiting for the application, unacknowledged bytes and the state of the two
\* halves of every stream stay consistent with each other: the invariant behind what follows.
THEOREM Conserved == Spec => []CInv
<1>1. Init => CInv
  BY InitLegal, InitParts, PartsIsCInv
<1>2. CInv /\ [Next]_vars => CInv'
  <2> SUFFICES ASSUME CInv, [Next]_vars PROVE CInv'
    OBVIOUS
  <2>1. Legal /\ Parts
    BY PartsIsCInv
  <2>2. CASE Next
    BY <2>1, <2>2, StepLegal, StepParts, NextPartsIsCInv
  <2>3. CASE UNCHANGED vars
    BY <2>1, <2>3, StutterLegal, StutterParts, NextPartsIsCInv
  <2> QED BY <2>2, <2>3
<1> QED BY <1>1, <1>2, PTL DEF Spec

\* Connection flow control, both ways: what was received and not consumed is the unread data of
\* the live streams, the advertised window is never passed, and what is sent stays within the
\* peer's stream and connection limits with every byte charged once.
THEOREM FlowControl == Spec => []FlowControlKept
<1>1. CInv => FlowControlKept
  BY DEF CInv
<1> QED BY <1>1, Conserved, PTL

\* A peer stream gives back exactly one MAX_STREAMS credit, however its two halves end, and
\* holds its slot until the application has taken it.
THEOREM PeerStreams == Spec => []PeerStreamsKept
<1>1. CInv => PeerStreamsKept
  BY DEF CInv
<1> QED BY <1>1, Conserved, PTL

\* Whatever packets are lost or acknowledged in whatever order, every byte, FIN and RESET_STREAM
\* sent and not acknowledged is in flight or due to be sent again.
THEOREM NotForgotten == Spec => []NothingForgotten
<1>1. CInv => NothingForgotten
  BY DEF CInv
<1> QED BY <1>1, Conserved, PTL

\* What is in flight or due is remembered for the stream it was sent for.
THEOREM Remembers == Spec => []SentIsRemembered
BY RecordsName, NotForgotten, PTL DEF SentIsRemembered

\* No step changes a final size once it is chosen, ours or the peer's.
THEOREM FinalSizes == Spec => FinalSizesFixed
<1>1. CInv /\ [Next]_vars => [\A i \in Slots : SameStream(i) => SizesKept(st[i], st'[i])]_vars
  <2> SUFFICES ASSUME CInv, Next
               PROVE  \A i \in Slots : SameStream(i) => SizesKept(st[i], st'[i])
    OBVIOUS
  <2>1. SizesHeld(st, st')
    BY PartsIsCInv, StepParts
  <2>2. Used(st)' = Used(st')
    BY DEF Used
  <2> QED BY <2>1, <2>2 DEF SizesHeld, SameStream
<1> QED BY <1>1, Conserved, PTL DEF Spec, FinalSizesFixed
=============================================================================
