------------------------ MODULE QuicAckRangesProofs ------------------------
(***************************************************************************)
(* The receive side of a packet number space never processes a packet      *)
(* twice, acknowledges only what it processed and owes its ACK in time,    *)
(* for every table size, delay and sequence of packets.                    *)
(***************************************************************************)
EXTENDS QuicAckRanges, FiniteSetTheorems, WellFoundedInduction, TLAPS

\* A nonempty set of natural numbers has a least element.
LEMMA LeastExists ==
    ASSUME NEW S \in SUBSET Nat, S # {}
    PROVE  \E x \in S : \A y \in S : x <= y
<1> DEFINE R == {p \in Nat \X Nat : p[1] < p[2]}
<1>1. IsWellFoundedOn(R, Nat)
  <2>1. OpToRel(<, Nat) = R
    BY DEF OpToRel
  <2> QED  BY <2>1, NatLessThanWellFounded, Zenon
<1>2. PICK x \in S : \A y \in S : ~(<<y, x>> \in R)
  BY <1>1, WFMin
<1>3. \A y \in S : ~(y < x)
  BY <1>2
<1> QED  BY <1>3

(***************************************************************************)
(* The invariant                                                           *)
(***************************************************************************)

\* What rxack_add maintains of the table: ranges are not empty, lie above the floor and apart
\* from each other, and hold processed packets only; together with the floor they hold them all.
TableInv ==
    /\ \A x \in r : x.lo <= x.hi /\ floor <= x.lo
    /\ RangesApart
    /\ AcksAreTrue
    /\ keys => \A pn \in processed : pn < floor \/ \E x \in r : In(pn, x)

WaitingInv ==
    /\ AckInTime
    /\ waiting.first = INT64_MAX => waiting.second = INT64_MAX
    /\ waiting.second # INT64_MAX => pending >= 2
    /\ ack_due # INT64_MAX => pending # 0

IInv == TypeOK /\ TableInv /\ WaitingInv

\* The invariant is strong enough to refuse what was processed.
LEMMA InvRefuses == IInv => ProcessedOnce
BY DEF IInv, TableInv, ProcessedOnce, rxack_dup

\* It holds initially.
LEMMA InitIInv == Init => IInv
<1> SUFFICES ASSUME Init PROVE IInv
  OBVIOUS
<1>1. TypeOK
  <2>1. IsFiniteSet(r) /\ Cardinality(r) = 0
    BY FS_EmptySet DEF Init
  <2> QED  BY <2>1, RangesAssumption DEF Init, TypeOK, Waiting, Nobody, Times
<1>2. TableInv
  BY DEF Init, TableInv, RangesApart, AcksAreTrue
<1>3. WaitingInv
  BY DEF Init, WaitingInv, AckInTime, Nobody
<1> QED  BY <1>1, <1>2, <1>3 DEF IInv

(***************************************************************************)
(* One packet                                                              *)
(***************************************************************************)

\* At most one range is right above a packet number and at most one right below.
LEMMA Neighbours ==
    ASSUME TypeOK, TableInv, NEW pn \in Nat
    PROVE  /\ Up(pn) # {} => \E u \in r : u.lo = pn + 1 /\ Up(pn) = {u} /\ Joined(pn).hi = u.hi
           /\ Up(pn) = {} => Joined(pn).hi = pn
           /\ Down(pn) # {} => \E d \in r : d.hi + 1 = pn /\ Down(pn) = {d} /\ Joined(pn).lo = d.lo
           /\ Down(pn) = {} => Joined(pn).lo = pn
           /\ Joined(pn) \in PnRange
           /\ Joined(pn).lo <= pn /\ pn <= Joined(pn).hi
<1>1. \A x, y \in Up(pn) : x = y
  BY DEF TypeOK, TableInv, RangesApart, Up, PnRange
<1>2. \A x, y \in Down(pn) : x = y
  BY DEF TypeOK, TableInv, RangesApart, Down, PnRange
<1>3. CASE Up(pn) = {} /\ Down(pn) = {}
  BY <1>3 DEF Joined, PnRange
<1>4. CASE Up(pn) # {} /\ Down(pn) = {}
  <2>1. PICK u \in r : u.lo = pn + 1 /\ Up(pn) = {u}
    BY <1>1, <1>4 DEF Up
  <2>2. (CHOOSE x \in Up(pn) : TRUE) = u
    BY <2>1
  <2>3. Joined(pn) = [lo |-> pn, hi |-> u.hi]
    BY <2>2, <1>4 DEF Joined
  <2> QED  BY <2>1, <2>3, <1>4 DEF PnRange, TypeOK, TableInv
<1>5. CASE Up(pn) = {} /\ Down(pn) # {}
  <2>1. PICK d \in r : d.hi + 1 = pn /\ Down(pn) = {d}
    BY <1>2, <1>5 DEF Down
  <2>2. (CHOOSE x \in Down(pn) : TRUE) = d
    BY <2>1
  <2>3. Joined(pn) = [lo |-> d.lo, hi |-> pn]
    BY <2>2, <1>5 DEF Joined
  <2> QED  BY <2>1, <2>3, <1>5 DEF PnRange, TypeOK, TableInv
<1>6. CASE Up(pn) # {} /\ Down(pn) # {}
  <2>1. PICK u \in r : u.lo = pn + 1 /\ Up(pn) = {u}
    BY <1>1, <1>6 DEF Up
  <2>2. PICK d \in r : d.hi + 1 = pn /\ Down(pn) = {d}
    BY <1>2, <1>6 DEF Down
  <2>3. Joined(pn) = [lo |-> d.lo, hi |-> u.hi]
    BY <2>1, <2>2, <1>6 DEF Joined
  <2> QED  BY <2>1, <2>2, <2>3, <1>6 DEF PnRange, TypeOK, TableInv
<1> QED  BY <1>3, <1>4, <1>5, <1>6

\* Of ranges whose packet numbers were all received one lies highest.
LEMMA HighestExists ==
    ASSUME TypeOK, TableInv, r # {}
    PROVE  \E h \in r : \A y \in r : y.lo <= h.lo
<1> DEFINE L == {MaxPn - x.lo : x \in r}
<1>1. MaxPn \in Nat
  BY RangesAssumption
<1>2. \A x \in r : x.lo \in Nat /\ x.lo <= MaxPn
  <2> SUFFICES ASSUME NEW x \in r PROVE x.lo \in Nat /\ x.lo <= MaxPn
    OBVIOUS
  <2>1. x.lo \in Nat /\ x.hi \in Nat /\ x.lo <= x.hi
    BY DEF TypeOK, TableInv, PnRange
  <2>2. x.lo \in processed
    BY <2>1 DEF TableInv, AcksAreTrue
  <2> QED  BY <1>1, <2>1, <2>2 DEF TypeOK, Pns
<1>3. L \in SUBSET Nat /\ L # {}
  BY <1>1, <1>2
<1>4. PICK m \in L : \A l \in L : m <= l
  BY <1>3, LeastExists
<1>5. PICK h \in r : m = MaxPn - h.lo
  OBVIOUS
<1>6. ASSUME NEW y \in r PROVE y.lo <= h.lo
  <2>1. m <= MaxPn - y.lo
    BY <1>4
  <2> HIDE DEF L
  <2> QED  BY <2>1, <1>1, <1>2, <1>5
<1> QED  BY <1>6

\* The range a full table forgets is its lowest, and the new packet lies above it.
LEMMA OldestLowest ==
    ASSUME TypeOK, TableInv, NEW pn \in Nat, ~rxack_dup(pn), Evicts(pn)
    PROVE  Oldest \in r /\ (\A x \in r : Oldest.lo <= x.lo) /\ Oldest.hi + 1 < pn
<1>1. r # {}
  BY RangesAssumption, FS_EmptySet DEF Evicts, Full
<1>2. \E x \in r : \A y \in r : x.lo <= y.lo
  <2> DEFINE L == {x.lo : x \in r}
  <2>1. L \in SUBSET Nat /\ L # {}
    BY <1>1 DEF TypeOK, PnRange
  <2>2. PICK m \in L : \A l \in L : m <= l
    BY <2>1, LeastExists
  <2> QED  BY <2>2
<1>3. Oldest \in r /\ \A x \in r : Oldest.lo <= x.lo
  BY <1>2 DEF Oldest
<1>4. Oldest.lo \in Nat /\ Oldest.hi \in Nat
  BY <1>3 DEF TypeOK, PnRange
<1>5. PICK y \in r : y.lo <= pn + 1
  <2>1. \A x \in r : x.lo \in Nat
    BY DEF TypeOK, PnRange
  <2> QED  BY <2>1 DEF rxack_dup, Evicts
<1>6. Oldest.lo <= pn + 1
  BY <1>3, <1>4, <1>5 DEF TypeOK, PnRange
<1>7. Oldest.lo # pn + 1 /\ Oldest.hi + 1 # pn
  BY <1>3 DEF Evicts, Touching, Up, Down
<1>8. ~In(pn, Oldest)
  BY <1>3 DEF rxack_dup
<1> QED  BY <1>3, <1>4, <1>6, <1>7, <1>8 DEF In

\* What inserting a packet number does: the ranges kept stay apart from the joined one and
\* above the new floor, and whatever the old table knew the new one knows.
LEMMA InsertFacts ==
    ASSUME TypeOK, TableInv, NEW pn \in Nat, ~rxack_dup(pn)
    PROVE  /\ Insert(pn) \subseteq PnRange
           /\ NewFloor(pn) \in Nat
           /\ \A x \in Insert(pn) : x.lo <= x.hi /\ NewFloor(pn) <= x.lo
           /\ \A x, y \in Insert(pn) : x = y \/ x.hi + 2 <= y.lo \/ y.hi + 2 <= x.lo
           /\ \A x \in Insert(pn) : \A k \in Nat :
                In(k, x) => k = pn \/ \E y \in r : In(k, y)
           /\ \E x \in Insert(pn) : In(pn, x)
           /\ \A k \in Nat : (k < floor \/ \E x \in r : In(k, x)) =>
                k < NewFloor(pn) \/ \E x \in Insert(pn) : In(k, x)
<1> DEFINE J == Joined(pn)
           Kept == (r \ Touching(pn)) \ Forgotten(pn)
<1>1. /\ Up(pn) # {} => \E u \in r : u.lo = pn + 1 /\ Up(pn) = {u} /\ J.hi = u.hi
      /\ Up(pn) = {} => J.hi = pn
      /\ Down(pn) # {} => \E d \in r : d.hi + 1 = pn /\ Down(pn) = {d} /\ J.lo = d.lo
      /\ Down(pn) = {} => J.lo = pn
      /\ J \in PnRange
      /\ J.lo <= pn /\ pn <= J.hi
  BY Neighbours
<1>2. Insert(pn) = Kept \cup {J}
  BY DEF Insert
<1> HIDE DEF J
<1>3. \A x \in r : /\ x.lo \in Nat /\ x.hi \in Nat /\ x \in PnRange
                   /\ x.lo <= x.hi /\ floor <= x.lo
  BY DEF TypeOK, TableInv, PnRange
<1>4. J.lo \in Nat /\ J.hi \in Nat
  BY <1>1 DEF PnRange
<1>5. \A x \in r : ~In(pn, x)
  BY DEF rxack_dup
<1>6. floor \in Nat /\ floor <= pn
  BY DEF rxack_dup, TypeOK
<1>7. \A x, y \in r : x = y \/ x.hi + 2 <= y.lo \/ y.hi + 2 <= x.lo
  BY DEF TableInv, RangesApart
<1>8. ASSUME Evicts(pn)
      PROVE  /\ Oldest \in r /\ (\A x \in r : Oldest.lo <= x.lo) /\ Oldest.hi + 1 < pn
             /\ NewFloor(pn) = Oldest.hi + 1 /\ Forgotten(pn) = {Oldest}
             /\ Up(pn) = {} /\ Down(pn) = {}
  BY <1>8, OldestLowest DEF NewFloor, Forgotten, Evicts, Touching
<1>9. ASSUME ~Evicts(pn)
      PROVE  NewFloor(pn) = floor /\ Forgotten(pn) = {}
  BY <1>9 DEF NewFloor, Forgotten
<1>10. NewFloor(pn) \in Nat /\ floor <= NewFloor(pn)
  BY <1>3, <1>6, <1>8, <1>9
<1>11. NewFloor(pn) <= J.lo
  <2>1. CASE Evicts(pn)
    BY <2>1, <1>1, <1>3, <1>8
  <2>2. CASE ~Evicts(pn)
    BY <2>2, <1>1, <1>3, <1>6, <1>9
  <2> QED  BY <2>1, <2>2
<1>12. \A x \in Kept : NewFloor(pn) <= x.lo
  <2>1. CASE Evicts(pn)
    <3> SUFFICES ASSUME NEW x \in Kept PROVE NewFloor(pn) <= x.lo
      OBVIOUS
    <3>1. x \in r /\ x # Oldest
      BY <2>1, <1>8
    <3>2. Oldest.hi + 2 <= x.lo \/ x.hi + 2 <= Oldest.lo
      BY <2>1, <3>1, <1>7, <1>8
    <3> QED  BY <2>1, <3>1, <3>2, <1>3, <1>8
  <2>2. CASE ~Evicts(pn)
    BY <2>2, <1>3, <1>9
  <2> QED  BY <2>1, <2>2
<1>13. \A x \in Kept : x.hi + 2 <= J.lo \/ J.hi + 2 <= x.lo
  <2> SUFFICES ASSUME NEW x \in Kept PROVE x.hi + 2 <= J.lo \/ J.hi + 2 <= x.lo
    OBVIOUS
  <2>1. x \in r /\ x.lo # pn + 1 /\ x.hi + 1 # pn
    BY DEF Touching, Up, Down
  <2>2. x.hi + 1 < pn \/ pn + 1 < x.lo
    BY <2>1, <1>3, <1>5 DEF In
  <2>3. CASE x.hi + 1 < pn
    <3>1. CASE Down(pn) = {}
      BY <3>1, <2>1, <2>3, <1>1, <1>3
    <3>2. CASE Down(pn) # {}
      <4>1. PICK d \in r : d.hi + 1 = pn /\ J.lo = d.lo
        BY <3>2, <1>1
      <4> QED  BY <4>1, <2>1, <2>3, <1>3, <1>7
    <3> QED  BY <3>1, <3>2
  <2>4. CASE pn + 1 < x.lo
    <3>1. CASE Up(pn) = {}
      BY <3>1, <2>1, <2>4, <1>1, <1>3
    <3>2. CASE Up(pn) # {}
      <4>1. PICK u \in r : u.lo = pn + 1 /\ J.hi = u.hi
        BY <3>2, <1>1
      <4> QED  BY <4>1, <2>1, <2>4, <1>3, <1>7
    <3> QED  BY <3>1, <3>2
  <2> QED  BY <2>2, <2>3, <2>4
<1>14. \A k \in Nat : In(k, J) => k = pn \/ \E y \in r : In(k, y)
  <2> SUFFICES ASSUME NEW k \in Nat, In(k, J), k # pn PROVE \E y \in r : In(k, y)
    OBVIOUS
  <2>1. CASE k < pn
    <3>1. PICK d \in r : d.hi + 1 = pn /\ J.lo = d.lo
      BY <2>1, <1>1, <1>4 DEF In
    <3> QED  BY <3>1, <2>1, <1>3 DEF In
  <2>2. CASE k > pn
    <3>1. PICK u \in r : u.lo = pn + 1 /\ J.hi = u.hi
      BY <2>2, <1>1, <1>4 DEF In
    <3> QED  BY <3>1, <2>2, <1>3 DEF In
  <2> QED  BY <2>1, <2>2
<1>15. \A k \in Nat : (k < floor \/ \E x \in r : In(k, x)) =>
         k < NewFloor(pn) \/ \E x \in Insert(pn) : In(k, x)
  <2>1. ASSUME NEW k \in Nat, k < floor PROVE k < NewFloor(pn)
    BY <2>1, <1>6, <1>10
  <2>2. ASSUME NEW k \in Nat, NEW x \in r, In(k, x)
        PROVE  k < NewFloor(pn) \/ \E y \in Insert(pn) : In(k, y)
    <3>1. CASE x \in Kept
      BY <3>1, <2>2, <1>2
    <3>2. CASE x \in Forgotten(pn)
      <4>1. Evicts(pn) /\ x = Oldest
        BY <3>2, <1>8, <1>9
      <4> QED  BY <4>1, <2>2, <1>3, <1>8 DEF In
    <3>3. CASE x \in Up(pn)
      <4>1. x.lo = pn + 1 /\ J.hi = x.hi
        BY <3>3, <1>1
      <4>2. In(k, J)
        BY <4>1, <2>2, <1>1, <1>3, <1>4 DEF In
      <4> QED  BY <4>2, <1>2
    <3>4. CASE x \in Down(pn)
      <4>1. x.hi + 1 = pn /\ J.lo = x.lo
        BY <3>4, <1>1
      <4>2. In(k, J)
        BY <4>1, <2>2, <1>1, <1>3, <1>4 DEF In
      <4> QED  BY <4>2, <1>2
    <3> QED  BY <3>1, <3>2, <3>3, <3>4 DEF Touching
  <2> QED  BY <2>1, <2>2
<1>16. \A x \in Insert(pn) : x.lo <= x.hi /\ NewFloor(pn) <= x.lo
  BY <1>1, <1>2, <1>3, <1>4, <1>11, <1>12
<1>17. \A x, y \in Insert(pn) : x = y \/ x.hi + 2 <= y.lo \/ y.hi + 2 <= x.lo
  BY <1>2, <1>7, <1>13
<1>18. \A x \in Insert(pn) : \A k \in Nat : In(k, x) => k = pn \/ \E y \in r : In(k, y)
  BY <1>2, <1>14
<1>19. \E x \in Insert(pn) : In(pn, x)
  BY <1>1, <1>2 DEF In
<1>20. Insert(pn) \subseteq PnRange
  BY <1>1, <1>2, <1>3
<1> QED  BY <1>10, <1>15, <1>16, <1>17, <1>18, <1>19, <1>20

\* The table never outgrows its array.
LEMMA InsertFits ==
    ASSUME TypeOK, TableInv, NEW pn \in Nat, ~rxack_dup(pn)
    PROVE  IsFiniteSet(Insert(pn)) /\ Cardinality(Insert(pn)) <= RANGES
<1> DEFINE Kept == (r \ Touching(pn)) \ Forgotten(pn)
<1>1. IsFiniteSet(r) /\ Cardinality(r) <= RANGES /\ Cardinality(r) \in Nat
  BY FS_CardinalityType DEF TypeOK
<1>2. Kept \subseteq r /\ Insert(pn) = Kept \cup {Joined(pn)}
  BY DEF Insert
<1> HIDE DEF Kept
<1>3. IsFiniteSet(Kept) /\ Cardinality(Kept) \in Nat /\ Cardinality(Kept) <= Cardinality(r)
  BY <1>1, <1>2, FS_Subset, FS_CardinalityType
<1>4. IsFiniteSet(Insert(pn)) /\ Cardinality(Insert(pn)) <= Cardinality(Kept) + 1
  BY <1>2, <1>3, FS_AddElement
<1>5. Cardinality(Insert(pn)) \in Nat
  BY <1>4, FS_CardinalityType
<1>6. ASSUME NEW x \in r, x \notin Kept PROVE Cardinality(Kept) + 1 <= Cardinality(r)
  <2>1. Kept # r
    BY <1>6
  <2> QED  BY <2>1, <1>1, <1>2, <1>3, FS_Subset
<1>7. CASE Touching(pn) # {}
  <2>1. PICK x \in Touching(pn) : TRUE
    BY <1>7
  <2>2. x \in r /\ x \notin Kept
    BY <2>1 DEF Touching, Up, Down, Kept
  <2> QED  BY <2>2, <1>1, <1>3, <1>4, <1>5, <1>6, RangesAssumption
<1>8. CASE Touching(pn) = {} /\ Full
  <2>1. Oldest \in r /\ Oldest \notin Kept
    BY <1>8, OldestLowest DEF Evicts, Forgotten, Kept
  <2> QED  BY <2>1, <1>1, <1>3, <1>4, <1>5, <1>6, RangesAssumption
<1>9. CASE ~Full
  BY <1>9, <1>1, <1>3, <1>4, <1>5, RangesAssumption DEF Full
<1> QED  BY <1>7, <1>8, <1>9

\* The packet's effect on the table keeps the table's invariant.
LEMMA PacketTable ==
    ASSUME IInv, NEW pn \in Pns, NEW e \in BOOLEAN, packet(pn, e)
    PROVE  /\ TableInv'
           /\ (r \subseteq PnRange /\ IsFiniteSet(r) /\ Cardinality(r) <= RANGES)'
           /\ floor' \in Nat /\ processed' \subseteq Pns
<1>1. pn \in Nat /\ TypeOK /\ TableInv /\ ~rxack_dup(pn)
  BY RangesAssumption DEF Pns, IInv, packet
<1>2. /\ r' = Insert(pn) /\ floor' = NewFloor(pn) /\ keys' = keys
      /\ processed' = processed \cup {pn} /\ keys
  BY DEF packet
<1>3. /\ r' \subseteq PnRange
      /\ floor' \in Nat
      /\ \A x \in r' : x.lo <= x.hi /\ floor' <= x.lo
      /\ \A x, y \in r' : x = y \/ x.hi + 2 <= y.lo \/ y.hi + 2 <= x.lo
      /\ \A x \in r' : \A k \in Nat : In(k, x) => k = pn \/ \E y \in r : In(k, y)
      /\ \E x \in r' : In(pn, x)
      /\ \A k \in Nat : (k < floor \/ \E x \in r : In(k, x)) =>
           k < floor' \/ \E x \in r' : In(k, x)
  BY <1>1, <1>2, InsertFacts
<1>4. IsFiniteSet(r') /\ Cardinality(r') <= RANGES
  BY <1>1, <1>2, InsertFits
<1>5. processed' \subseteq Pns
  BY <1>1, <1>2 DEF TypeOK
<1>6. \A x \in r' : x.lo..x.hi \subseteq processed'
  <2> SUFFICES ASSUME NEW x \in r', NEW k \in x.lo..x.hi PROVE k \in processed'
    OBVIOUS
  <2>1. x.lo \in Nat /\ x.hi \in Nat
    BY <1>3 DEF PnRange
  <2>2. k \in Nat /\ In(k, x)
    BY <2>1 DEF In
  <2>3. CASE k = pn
    BY <2>3, <1>2
  <2>4. CASE \E y \in r : In(k, y)
    <3>1. PICK y \in r : In(k, y)
      BY <2>4
    <3>2. y.lo \in Nat /\ y.hi \in Nat
      BY <1>1 DEF TypeOK, PnRange
    <3>3. k \in y.lo..y.hi
      BY <3>1, <3>2, <2>2 DEF In
    <3> QED  BY <3>3, <1>1, <1>2 DEF TableInv, AcksAreTrue
  <2> QED  BY <2>2, <2>3, <2>4, <1>3
<1>7. \A k \in processed' : k < floor' \/ \E x \in r' : In(k, x)
  <2> SUFFICES ASSUME NEW k \in processed' PROVE k < floor' \/ \E x \in r' : In(k, x)
    OBVIOUS
  <2>1. CASE k = pn
    BY <2>1, <1>3
  <2>2. CASE k \in processed
    <3>1. k \in Nat /\ (k < floor \/ \E x \in r : In(k, x))
      BY <2>2, <1>1, <1>2 DEF TypeOK, TableInv, Pns
    <3> QED  BY <3>1, <1>3
  <2> QED  BY <2>1, <2>2, <1>2
<1>8. TableInv'
  BY <1>3, <1>6, <1>7 DEF TableInv, RangesApart, AcksAreTrue, In
<1> QED  BY <1>3, <1>4, <1>5, <1>8

\* The packet's effect on what is owed: the deadline only moves forward in time, to the first
\* waiting packet's, and to now once a second one waits.
LEMMA PacketWaiting ==
    ASSUME IInv, NEW pn \in Pns, NEW e \in BOOLEAN, packet(pn, e)
    PROVE  /\ WaitingInv'
           /\ pending' \in 0..PENDING_MAX /\ ack_due' \in Times /\ waiting' \in Waiting
<1>1. /\ pending \in 0..PENDING_MAX /\ ack_due \in Times /\ waiting \in Waiting
      /\ now \in 0..MaxTime /\ WaitingInv
  BY DEF IInv, TypeOK
<1>2. /\ PENDING_MAX \in Nat /\ PENDING_MAX >= 2 /\ MAX_DELAY \in Nat /\ INT64_MAX \in Nat
      /\ MaxTime \in Nat /\ MaxTime < INT64_MAX /\ MAX_DELAY < INT64_MAX
  BY RangesAssumption
<1>3. waiting.first \in Times /\ waiting.second \in Times
  BY <1>1 DEF Waiting
<1>4. now \in Times /\ now # INT64_MAX
  BY <1>1, <1>2 DEF Times
<1>5. \A t \in Times : tadd(t, MAX_DELAY) \in Times
  BY <1>2 DEF Times, tadd
<1>6. tadd(now, MAX_DELAY) # INT64_MAX /\ now <= tadd(now, MAX_DELAY)
  BY <1>1, <1>2 DEF tadd
<1>7. CASE ~e
  <2>1. UNCHANGED <<pending, ack_due, waiting>>
    BY <1>7 DEF packet
  <2> QED  BY <2>1, <1>1 DEF WaitingInv, AckInTime, tadd
<1>8. CASE e
  <2>1. pending' = Counted /\ ack_due' = Due(pn) /\ waiting' = Arrived
    BY <1>8 DEF packet
  <2>2. Counted \in 1..PENDING_MAX /\ (pending # 0 => Counted >= 2)
    BY <1>1, <1>2 DEF Counted
  <2>3. /\ ack_due' \in Times /\ ack_due' <= ack_due /\ ack_due' <= tadd(now, MAX_DELAY)
        /\ Counted >= 2 => ack_due' <= now
    BY <2>1, <2>2, <1>1, <1>4, <1>5, <1>6 DEF Due, Times
  <2>4. /\ waiting' \in Waiting /\ waiting'.first # INT64_MAX
        /\ waiting.first = INT64_MAX => waiting'.first = now /\ waiting'.second = waiting.second
        /\ waiting.first # INT64_MAX => waiting'.first = waiting.first
        /\ waiting.first # INT64_MAX /\ waiting.second = INT64_MAX => waiting'.second = now
        /\ waiting.second # INT64_MAX => waiting'.second = waiting.second
    BY <2>1, <1>1, <1>3, <1>4 DEF Arrived, Waiting, WaitingInv
  <2>5. /\ waiting.first # INT64_MAX => pending # 0 /\ ack_due <= tadd(waiting.first, MAX_DELAY)
        /\ waiting.second # INT64_MAX => ack_due <= waiting.second
        /\ waiting.first = INT64_MAX => waiting.second = INT64_MAX
        /\ waiting.second # INT64_MAX => pending >= 2
    BY <1>1 DEF WaitingInv, AckInTime
  <2>6. ack_due' <= tadd(waiting'.first, MAX_DELAY)
    <3>1. CASE waiting.first = INT64_MAX
      BY <3>1, <2>3, <2>4
    <3>2. CASE waiting.first # INT64_MAX
      <4>1. tadd(waiting.first, MAX_DELAY) \in Times
        BY <1>3, <1>5
      <4> QED  BY <3>2, <4>1, <2>3, <2>4, <2>5, <1>1 DEF Times
    <3> QED  BY <3>1, <3>2
  <2>7. waiting'.second # INT64_MAX => ack_due' <= waiting'.second /\ Counted >= 2
    <3>1. CASE waiting.first = INT64_MAX
      BY <3>1, <2>4, <2>5
    <3>2. CASE waiting.first # INT64_MAX /\ waiting.second = INT64_MAX
      BY <3>2, <2>2, <2>3, <2>4, <2>5
    <3>3. CASE waiting.second # INT64_MAX
      BY <3>3, <2>2, <2>3, <2>4, <2>5, <1>1, <1>3, <1>2 DEF Times
    <3> QED  BY <3>1, <3>2, <3>3
  <2> QED  BY <2>1, <2>2, <2>3, <2>4, <2>6, <2>7 DEF WaitingInv, AckInTime, tadd
<1> QED  BY <1>7, <1>8

\* An ACK frame names processed packets, and the highest of all: no processed packet lies above
\* the highest range, which every frame has.
LEMMA AckNames ==
    ASSUME IInv, NEW o \in BOOLEAN, send_ack(o)
    PROVE  /\ named' \subseteq processed /\ named' \subseteq Pns
           /\ \E top \in named' : \A pn \in processed : pn <= top
<1>1. /\ TypeOK /\ TableInv /\ keys /\ r # {} /\ processed \subseteq Pns
      /\ \A x \in r : x.lo \in Nat /\ x.hi \in Nat /\ x.lo <= x.hi /\ floor <= x.lo
  BY DEF IInv, TypeOK, TableInv, PnRange, send_ack
<1>2. PICK S \in Highest : named' = UNION {x.lo..x.hi : x \in S}
  BY DEF send_ack, ack_write
<1>3. S \subseteq r /\ S # {} /\ \A x \in S, y \in r : y.lo > x.lo => y \in S
  BY DEF Highest
<1>4. named' \subseteq processed
  BY <1>1, <1>2, <1>3 DEF TableInv, AcksAreTrue
<1>5. PICK h \in r : \A y \in r : y.lo <= h.lo
  BY <1>1, HighestExists
<1>6. h \in S
  <2>1. PICK x \in S : TRUE
    BY <1>3
  <2>2. x \in r /\ x.lo <= h.lo
    BY <1>3, <1>5
  <2>3. x = h \/ x.hi + 2 <= h.lo \/ h.hi + 2 <= x.lo
    BY <1>1, <2>2 DEF TableInv, RangesApart
  <2>4. x = h \/ h.lo > x.lo
    BY <1>1, <2>2, <2>3
  <2> QED  BY <1>3, <2>1, <2>4
<1>7. h.hi \in named'
  BY <1>1, <1>2, <1>6
<1>8. ASSUME NEW pn \in processed PROVE pn <= h.hi
  <2>1. pn \in Nat /\ floor \in Nat
    BY <1>1 DEF TypeOK, Pns
  <2>2. CASE pn < floor
    BY <2>1, <2>2, <1>1, <1>5
  <2>3. ASSUME NEW x \in r, In(pn, x) PROVE pn <= h.hi
    <3>1. x = h \/ x.hi + 2 <= h.lo \/ h.hi + 2 <= x.lo
      BY <1>1, <1>5, <2>3 DEF TableInv, RangesApart
    <3> QED  BY <3>1, <2>1, <2>3, <1>1, <1>5 DEF In
  <2> QED  BY <2>2, <2>3, <1>1 DEF TableInv
<1> QED  BY <1>1, <1>4, <1>7, <1>8

\* Every step keeps the invariant.
LEMMA NextIInv == IInv /\ [Next]_vars => IInv'
<1> SUFFICES ASSUME IInv, [Next]_vars PROVE IInv'
  OBVIOUS
<1>1. TypeOK /\ TableInv /\ WaitingInv
  BY DEF IInv
<1>2. ASSUME NEW pn \in Pns, NEW e \in BOOLEAN, packet(pn, e) PROVE IInv'
  <2>1. keys' = keys /\ now' = now /\ named' = named
    BY <1>2 DEF packet
  <2>2. TypeOK'
    BY <2>1, <1>1, <1>2, PacketTable, PacketWaiting DEF TypeOK
  <2> QED  BY <2>2, <1>2, PacketTable, PacketWaiting DEF IInv
<1>3. ASSUME NEW o \in BOOLEAN, send_ack(o) PROVE IInv'
  <2>1. /\ pending' = 0 /\ ack_due' = INT64_MAX /\ waiting' = Nobody
        /\ UNCHANGED <<r, floor, keys, now, processed>>
    BY <1>3 DEF send_ack
  <2>2. TypeOK'
    <3>1. named' \subseteq Pns
      BY <1>3, AckNames
    <3> QED  BY <2>1, <3>1, <1>1, RangesAssumption DEF TypeOK, Waiting, Nobody, Times
  <2>3. TableInv'
    BY <2>1, <1>1 DEF TableInv, RangesApart, AcksAreTrue, In
  <2>4. WaitingInv'
    BY <2>1 DEF WaitingInv, AckInTime, Nobody
  <2> QED  BY <2>2, <2>3, <2>4 DEF IInv
<1>4. CASE discard
  <2>1. /\ keys' = FALSE /\ r' = {} /\ floor' = 0 /\ pending' = 0 /\ ack_due' = INT64_MAX
        /\ waiting' = Nobody /\ UNCHANGED <<now, named, processed>>
    BY <1>4 DEF discard, rxack_init
  <2>2. IsFiniteSet(r') /\ Cardinality(r') = 0
    BY <2>1, FS_EmptySet
  <2>3. TypeOK'
    <3>1. (r \subseteq PnRange /\ IsFiniteSet(r) /\ Cardinality(r) <= RANGES)'
      BY <2>1, <2>2, RangesAssumption
    <3>2. (floor \in Nat /\ pending \in 0..PENDING_MAX /\ ack_due \in Times)'
      BY <2>1, RangesAssumption DEF Times
    <3>3. /\ keys' \in BOOLEAN /\ (now \in 0..MaxTime)'
          /\ named' \subseteq Pns /\ processed' \subseteq Pns
      BY <2>1, <1>1 DEF TypeOK
    <3>4. waiting' \in Waiting
      BY <2>1, RangesAssumption DEF Waiting, Nobody, Times
    <3> QED  BY <3>1, <3>2, <3>3, <3>4 DEF TypeOK
  <2>4. TableInv'
    BY <2>1 DEF TableInv, RangesApart, AcksAreTrue
  <2>5. WaitingInv'
    BY <2>1 DEF WaitingInv, AckInTime, Nobody
  <2> QED  BY <2>3, <2>4, <2>5 DEF IInv
<1>5. ASSUME NEW t \in 0..MaxTime, set_now(t) PROVE IInv'
  <2>1. now' = t /\ UNCHANGED <<r, floor, pending, ack_due, keys, named, processed, waiting>>
    BY <1>5 DEF set_now
  <2>2. TypeOK'
    BY <2>1, <1>1 DEF TypeOK
  <2>3. TableInv' /\ WaitingInv'
    BY <2>1, <1>1 DEF TableInv, RangesApart, AcksAreTrue, In, WaitingInv, AckInTime, tadd
  <2> QED  BY <2>2, <2>3 DEF IInv
<1>6. CASE UNCHANGED vars
  BY <1>6, <1>1 DEF vars, IInv, TypeOK, TableInv, RangesApart, AcksAreTrue, In,
                    WaitingInv, AckInTime, tadd
<1> QED  BY <1>2, <1>3, <1>4, <1>5, <1>6 DEF Next

\* The invariant holds throughout.
LEMMA SpecIInv == Spec => []IInv
BY InitIInv, NextIInv, PTL DEF Spec

(***************************************************************************)
(* The code is an AckReceiver                                              *)
(***************************************************************************)

\* A packet that rxack_dup lets through was never processed, and the ACK it asks for is owed
\* no later than the receiver's promise: the clock's saturation only brings it forward.
LEMMA PacketRefines ==
    ASSUME IInv, NEW pn \in Pns, NEW e \in BOOLEAN, packet(pn, e)
    PROVE  Receiver!Receive(pn, e)
<1>1. /\ keys /\ pn \notin processed /\ processed' = processed \cup {pn}
      /\ UNCHANGED <<keys, now, named>>
  BY InvRefuses DEF packet, ProcessedOnce
<1>2. /\ ack_due \in Times /\ now \in 0..MaxTime /\ waiting \in Waiting /\ WaitingInv
      /\ ack_due' \in Times /\ waiting' \in Waiting /\ WaitingInv'
  BY PacketWaiting DEF IInv, TypeOK
<1>3. CASE ~e
  BY <1>1, <1>3 DEF packet, Receiver!Receive
<1>4. CASE e
  <2>1. ack_due' = Due(pn) /\ waiting' = Arrived
    BY <1>4 DEF packet
  <2>2. waiting' = Receiver!Joins(waiting)
    BY <2>1 DEF Arrived, Receiver!Joins
  <2>3. ack_due' <= ack_due
    <3>1. now \in Int /\ tadd(now, MAX_DELAY) \in Int /\ ack_due \in Int
      BY <1>2, RangesAssumption DEF tadd, Times
    <3> QED  BY <2>1, <3>1 DEF Due
  <2>4. waiting'.first # INT64_MAX /\ waiting'.first \in Times
    BY <2>1, <1>2, RangesAssumption DEF Arrived, Waiting, Times
  <2>5. ack_due' <= tadd(waiting'.first, MAX_DELAY)
    BY <1>2, <2>4 DEF WaitingInv, AckInTime, tadd
  <2>6. tadd(waiting'.first, MAX_DELAY) <= waiting'.first + MAX_DELAY
        /\ tadd(waiting'.first, MAX_DELAY) \in Int
    BY <2>4, RangesAssumption DEF tadd, Times
  <2>7. ack_due' \in Int /\ ack_due' <= waiting'.first + MAX_DELAY
    BY <2>4, <2>5, <2>6, <1>2, RangesAssumption DEF Times
  <2>8. waiting'.second # INT64_MAX => ack_due' <= waiting'.second
    BY <1>2 DEF WaitingInv, AckInTime
  <2> QED  BY <1>1, <1>4, <2>2, <2>3, <2>7, <2>8 DEF Receiver!Receive, Receiver!OnTime
<1> QED  BY <1>3, <1>4

\* An ACK frame that brisk__quic_send writes is one the receiver may send: some packet waits,
\* and the highest range is always among those that fit.
LEMMA AckRefines ==
    ASSUME IInv, NEW o \in BOOLEAN, send_ack(o)
    PROVE  Receiver!Acknowledge
<1>1. /\ keys /\ pending # 0 /\ ack_due' = INT64_MAX /\ waiting' = Nobody
      /\ UNCHANGED <<keys, now, processed>>
  BY DEF send_ack
<1>2. waiting.first # INT64_MAX
  BY <1>1 DEF IInv, WaitingInv, AckInTime
<1>3. named' \subseteq processed /\ \E top \in named' : \A pn \in processed : pn <= top
  BY AckNames
<1> QED  BY <1>1, <1>2, <1>3 DEF Receiver!Acknowledge, Receiver!Nobody, Nobody

\* Every step of the table is a step of the receiver, or one it does not see.
LEMMA StepRefines == IInv /\ [Next]_vars => [Receiver!Next]_(Receiver!vars)
<1> SUFFICES ASSUME IInv, [Next]_vars PROVE [Receiver!Next]_(Receiver!vars)
  OBVIOUS
<1>1. ASSUME NEW pn \in Pns, NEW e \in BOOLEAN, packet(pn, e) PROVE Receiver!Next
  BY <1>1, PacketRefines DEF Receiver!Next
<1>2. ASSUME NEW o \in BOOLEAN, send_ack(o) PROVE Receiver!Next
  BY <1>2, AckRefines DEF Receiver!Next
<1>3. CASE discard
  <2>1. Receiver!Close
    BY <1>3 DEF discard, rxack_init, Receiver!Close, Receiver!Nobody, Nobody
  <2> QED  BY <2>1 DEF Receiver!Next
<1>4. ASSUME NEW t \in 0..MaxTime, set_now(t) PROVE Receiver!Next
  <2>1. Receiver!Tick
    BY <1>4 DEF set_now, Receiver!Tick
  <2> QED  BY <2>1 DEF Receiver!Next
<1>5. CASE UNCHANGED vars
  BY <1>5 DEF vars, Receiver!vars
<1> QED  BY <1>1, <1>2, <1>3, <1>4, <1>5 DEF Next

-----------------------------------------------------------------------------
(* Theorems *)

\* The table fits its RANGES entries and every counter and deadline stays in its type.
THEOREM AckTypeOK == Spec => []TypeOK
<1>1. IInv => TypeOK
  BY DEF IInv
<1> QED  BY <1>1, SpecIInv, PTL

\* No packet is processed twice, however the network repeats and reorders packets and however
\* many ranges were forgotten: rxack_dup refuses every packet rxack_add recorded.
THEOREM NoPacketTwice == Spec => []ProcessedOnce
BY InvRefuses, SpecIInv, PTL

\* The peer never reads that a packet arrived whose frames this client did not process.
THEOREM AcksTrue == Spec => []AcksAreTrue
<1>1. IInv => AcksAreTrue
  BY DEF IInv, TableInv
<1> QED  BY <1>1, SpecIInv, PTL

\* Joining and forgetting ranges never leaves two that touch: no gap that ack_write computes
\* borrows.
THEOREM RangesStayApart == Spec => []RangesApart
<1>1. IInv => RangesApart
  BY DEF IInv, TableInv
<1> QED  BY <1>1, SpecIInv, PTL

\* The ACK of an ack-eliciting packet is owed within max_ack_delay, and at once when a second
\* one arrives, up to the saturation of the clock.
THEOREM AcksInTime == Spec => []AckInTime
<1>1. IInv => AckInTime
  BY DEF IInv, WaitingInv
<1> QED  BY <1>1, SpecIInv, PTL

\* A full table never refuses a packet above everything received: the connection goes on.
THEOREM LargestIsAlwaysNew == Spec => []LargestIsNew
<1>1. ASSUME IInv, NEW pn \in Pns, r # {}, \A x \in r : x.hi < pn PROVE ~rxack_dup(pn)
  <2>1. pn \in Nat
    BY RangesAssumption DEF Pns
  <2>2. PICK x \in r : TRUE
    BY <1>1
  <2>3. /\ x.lo \in Nat /\ x.hi \in Nat /\ floor \in Nat
        /\ x.lo <= x.hi /\ floor <= x.lo /\ x.hi < pn
    BY <1>1, <2>2 DEF IInv, TypeOK, TableInv, PnRange
  <2>4. \A y \in r : ~In(pn, y)
    BY <1>1, <2>1 DEF In, IInv, TypeOK, PnRange
  <2> QED  BY <2>1, <2>2, <2>3, <2>4 DEF rxack_dup
<1>2. IInv => LargestIsNew
  BY <1>1 DEF LargestIsNew
<1> QED  BY <1>2, SpecIInv, PTL

\* RANGES ranges and a floor lose nothing that the peer or the caller can notice: the code
\* implements the receiver that remembers every packet number for ever.
THEOREM ReceiverImplemented == Spec => ImplementsReceiver
<1>1. Init => Receiver!Init
  BY DEF Init, Receiver!Init, Receiver!Nobody, Nobody
<1> QED  BY <1>1, StepRefines, SpecIInv, PTL DEF Spec, ImplementsReceiver, Receiver!Spec
=============================================================================
