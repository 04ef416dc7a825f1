------------------------ MODULE QuicRecoveryProofs ------------------------
(***************************************************************************)
(* Proofs about QuicRecovery, for every number of records, sizes, windows, *)
(* clocks and CRYPTO streams.  The inductive invariant is IInv.  A call    *)
(* changes a value of States step by step, so the lemmas are about such    *)
(* values: what each function of recovery.c changes and keeps.             *)
(***************************************************************************)
EXTENDS QuicRecovery, SetSums

LEMMA ConstantTypes ==
    /\ SENT \in Nat /\ SENT > 2 /\ MDS \in Nat /\ MDS > 0 /\ CWND0 \in Nat /\ CWND0 >= MINWIN
    /\ MINWIN \in Nat /\ MINWIN >= MDS + MDS
    /\ RTT0 \in Nat /\ RTTVAR0 \in Nat /\ PTO_CAP \in Nat /\ MAD \in Nat
    /\ INT64_MAX \in Nat /\ INT64_MAX > 0 /\ MaxTime \in Nat /\ MaxTime < INT64_MAX
    /\ Sizes \subseteq 1..MDS /\ Delays \subseteq Nat
    /\ Crypto[0] \in Nat /\ Crypto[0] > 0 /\ Crypto[1] \in Nat /\ Crypto[1] > 0
<1>1. 0 \in {0, 1} /\ 1 \in {0, 1} /\ Crypto \in [{0, 1} -> Nat \ {0}]
  BY RecoveryAssumption
<1>2. Crypto[0] \in Nat \ {0} /\ Crypto[1] \in Nat \ {0}
  BY <1>1
<1>3. MDS \in Nat /\ MDS # 0 /\ MaxTime \in Nat /\ INT64_MAX \in Nat /\ MaxTime < INT64_MAX
  BY RecoveryAssumption
<1>4. MDS > 0 /\ INT64_MAX > 0 /\ MINWIN \in Nat /\ MINWIN >= MDS + MDS
  BY <1>3 DEF MINWIN
<1>5. /\ SENT \in Nat /\ SENT > 2 /\ CWND0 \in Nat /\ CWND0 >= MINWIN
      /\ RTT0 \in Nat /\ RTTVAR0 \in Nat /\ PTO_CAP \in Nat /\ MAD \in Nat
  BY RecoveryAssumption
<1>6. Sizes \subseteq 1..MDS /\ Delays \subseteq Nat
  BY RecoveryAssumption
<1>7. Crypto[0] \in Nat /\ Crypto[0] > 0 /\ Crypto[1] \in Nat /\ Crypto[1] > 0
  BY <1>2
<1> QED BY <1>3, <1>4, <1>5, <1>6, <1>7

LEMMA SlotsFinite == IsFiniteSet(Slots) /\ Cardinality(Slots) = SENT
<1>1. SENT \in Int /\ 1 \in Int /\ SENT > 0
  BY ConstantTypes
<1>2. IsFiniteSet(1..SENT) /\ Cardinality(1..SENT) = SENT - 1 + 1
  BY <1>1, FS_Interval
<1> QED BY <1>1, <1>2 DEF Slots

-----------------------------------------------------------------------------
(* The window while an ACK frame is read *)

Windows == [cwnd : Nat, ca_acc : Nat]

\* The records of an ACK frame are met in some order: every set of them has a last one.
LEMMA LastMarkedIn ==
    ASSUME NEW r \in Recovery, NEW S, NEW T, T \subseteq Outstanding(r), T # {},
           \A i \in T : r.s[i].pn \in S
    PROVE  LastMarked(r, S, T) \in T
<1> DEFINE p(j) == r.s[j].pn
           P == {p(j) : j \in T}
<1>1. T \subseteq Slots /\ \A j \in T : j \in Nat /\ j <= SENT /\ p(j) \in Nat
  <2>1. \A j \in T : j \in Slots /\ r.s[j] \in Sent
    BY DEF Outstanding, Recovery
  <2> QED BY <2>1, ConstantTypes DEF Slots, Sent
<1>2. PICK n \in P : \A m \in P : n <= m
  <2>1. P \in SUBSET Nat /\ P # {}
    BY <1>1
  <2> QED BY <2>1, LeastNatural
<1> DEFINE C == {j \in T : n..p(j) \subseteq S}
           I == {SENT - j : j \in C}
<1>3. C # {}
  <2>1. PICK j \in T : p(j) = n
    OBVIOUS
  <2>2. n..p(j) = {n} /\ n \in S
    BY <2>1, <1>1
  <2> QED BY <2>1, <2>2
<1>4. PICK k \in I : \A m \in I : k <= m
  <2>1. I \in SUBSET Nat /\ I # {}
    BY <1>1, <1>3, ConstantTypes
  <2> QED BY <2>1, LeastNatural
<1>5. PICK i \in C : \A j \in C : j <= i
  <2>1. PICK i \in C : k = SENT - i
    BY <1>4
  <2>2. \A j \in C : SENT - i <= SENT - j
    BY <1>4, <2>1
  <2>3. \A j \in C : j <= i
    BY <1>1, <2>2, ConstantTypes
  <2> QED BY <2>3
<1>6. ASSUME NEW j \in T \ {i}
      PROVE  MarkedBefore(r, S, j, i)
  <2>1. p(i) \in Nat /\ p(j) \in Nat /\ n \in Nat /\ n <= p(i) /\ n <= p(j) /\ i \in Nat /\ j \in Nat
    BY <1>1, <1>2
  <2>2. CASE j \in C
    <3>1. j <= i /\ j # i
      BY <1>5, <2>2
    <3>2. \A x \in MinOf(p(j), p(i))..MaxOf(p(j), p(i)) : x \in n..p(j) \/ x \in n..p(i)
      BY <2>1 DEF MinOf, MaxOf
    <3>3. MinOf(p(j), p(i))..MaxOf(p(j), p(i)) \subseteq S
      BY <2>2, <3>2
    <3> QED BY <2>1, <3>1, <3>3 DEF MarkedBefore
  <2>3. CASE j \notin C
    <3>1. PICK x \in n..p(j) : x \notin S
      BY <2>3
    <3>2. x \notin n..p(i)
      BY <3>1
    <3>3. x > p(i) /\ p(j) > p(i) /\ x \in MinOf(p(j), p(i))..MaxOf(p(j), p(i))
      BY <2>1, <3>1, <3>2 DEF MinOf, MaxOf
    <3> QED BY <3>1, <3>3 DEF MarkedBefore
  <2> QED BY <2>2, <2>3
<1>7. \E x \in T : \A j \in T \ {x} : MarkedBefore(r, S, j, x)
  BY <1>6
<1> QED BY <1>7 DEF LastMarked

\* One acknowledged packet never shrinks the window.
LEMMA OpenedTyped ==
    ASSUME NEW w \in Windows, NEW r \in Recovery, NEW x \in Sent, NEW limited \in BOOLEAN
    PROVE  Opened(w, r, x, limited) \in Windows /\ w.cwnd <= Opened(w, r, x, limited).cwnd
<1>1. w.cwnd \in Nat /\ w.ca_acc \in Nat /\ x.size \in Nat /\ MDS \in Nat
  BY ConstantTypes DEF Windows, Sent
<1> QED BY <1>1 DEF Windows, Opened

\* g is the table of windows after each subset of A in D, in the order of an ACK frame.
WindowTable(g, r, S, limited, D) ==
    g = [s \in D |-> IF s = {} THEN [cwnd |-> r.cwnd, ca_acc |-> r.ca_acc]
                     ELSE LET x == LastMarked(r, S, s) IN
                          Opened(g[s \ {x}], r, r.s[x], limited)]

LEMMA WindowIsTable ==
    ASSUME NEW r, NEW S, NEW A, NEW limited
    PROVE  Window(r, S, A, limited)
             = (CHOOSE g : WindowTable(g, r, S, limited, SUBSET A))[A]
BY DEF Window, MapThenFoldSet, WindowTable

LEMMA WindowTableExists ==
    ASSUME NEW r \in Recovery, NEW S, NEW A, A \subseteq Outstanding(r), IsFiniteSet(A),
           \A i \in A : r.s[i].pn \in S, NEW limited
    PROVE  \E g : WindowTable(g, r, S, limited, SUBSET A)
<1> DEFINE D(n) == {s \in SUBSET A : Cardinality(s) <= n}
           Last(s) == LastMarked(r, S, s)
           Bad == {n \in Nat : ~\E g : WindowTable(g, r, S, limited, D(n))}
           Val(g, s) == IF s = {} THEN [cwnd |-> r.cwnd, ca_acc |-> r.ca_acc]
                        ELSE Opened(g[s \ {Last(s)}], r, r.s[Last(s)], limited)
<1>1. \A s \in SUBSET A : IsFiniteSet(s) /\ Cardinality(s) \in Nat
  BY FS_Subset, FS_CardinalityType
<1>2. \A s \in SUBSET A : s # {} => Last(s) \in s
  BY LastMarkedIn
<1>3. Bad = {}
  <2> SUFFICES ASSUME Bad # {} PROVE FALSE
    OBVIOUS
  <2>1. PICK n \in Bad : \A m \in Bad : n <= m
    BY LeastNatural
  <2>2. n # 0
    <3>1. \A s \in D(0) : s = {}
      BY <1>1, FS_EmptySet
    <3>2. WindowTable([s \in D(0) |-> [cwnd |-> r.cwnd, ca_acc |-> r.ca_acc]], r, S, limited, D(0))
      BY <3>1 DEF WindowTable
    <3> QED BY <3>2, <2>1
  <2>3. n - 1 \in Nat /\ n - 1 \notin Bad
    <3>1. n \in Nat
      OBVIOUS
    <3> HIDE DEF Bad
    <3> QED BY <2>1, <2>2, <3>1
  <2>4. PICK g : WindowTable(g, r, S, limited, D(n - 1))
    BY <2>3
  <2> DEFINE h == [s \in D(n) |-> Val(g, s)]
  <2>5. \A s \in D(n) : s # {} => s \ {Last(s)} \in D(n - 1)
    <3> HIDE DEF Last
    <3> QED BY <1>1, <1>2, <2>1, RemoveOne
  <2>6. \A s \in D(n - 1) : s \in D(n) /\ g[s] = h[s]
    <3>1. \A s \in D(n - 1) : s \in D(n)
      BY <1>1, <2>1
    <3>2. \A s \in D(n - 1) : g[s] = Val(g, s)
      BY <2>4 DEF WindowTable
    <3> QED BY <3>1, <3>2
  <2>7. h = [s \in D(n) |-> Val(h, s)]
    <3> HIDE DEF D, Last
    <3>1. \A s \in D(n) : Val(g, s) = Val(h, s)
      BY <2>5, <2>6
    <3> QED BY <3>1
  <2>8. WindowTable(h, r, S, limited, D(n))
    BY <2>7 DEF WindowTable
  <2> QED BY <2>1, <2>8
<1>4. Cardinality(A) \in Nat
  BY FS_CardinalityType
<1>5. \E g : WindowTable(g, r, S, limited, D(Cardinality(A)))
  BY <1>3, <1>4
<1>6. D(Cardinality(A)) = SUBSET A
  BY FS_Subset
<1> QED BY <1>5, <1>6

\* An ACK frame never shrinks the window, whatever it acknowledges and in whatever order.
LEMMA WindowTyped ==
    ASSUME NEW r \in Recovery, NEW S, NEW A, A \subseteq Outstanding(r), IsFiniteSet(A),
           \A i \in A : r.s[i].pn \in S, NEW limited \in BOOLEAN
    PROVE  /\ Window(r, S, A, limited) \in Windows
           /\ r.cwnd <= Window(r, S, A, limited).cwnd
<1> DEFINE g == CHOOSE x : WindowTable(x, r, S, limited, SUBSET A)
           OK(s) == g[s] \in Windows /\ r.cwnd <= g[s].cwnd
           Bad == {n \in Nat : \E s \in SUBSET A : Cardinality(s) = n /\ ~OK(s)}
           Last(s) == LastMarked(r, S, s)
<1>1. WindowTable(g, r, S, limited, SUBSET A)
  BY WindowTableExists
<1> HIDE DEF g
<1>2. \A s \in SUBSET A : IsFiniteSet(s) /\ Cardinality(s) \in Nat
  BY FS_Subset, FS_CardinalityType
<1>3. Bad = {}
  <2> SUFFICES ASSUME Bad # {} PROVE FALSE
    OBVIOUS
  <2>1. PICK n \in Bad : \A m \in Bad : n <= m
    BY LeastNatural
  <2>2. PICK s \in SUBSET A : Cardinality(s) = n /\ ~OK(s)
    OBVIOUS
  <2>3. s # {}
    <3>1. g[{}] = [cwnd |-> r.cwnd, ca_acc |-> r.ca_acc]
      BY <1>1 DEF WindowTable
    <3>2. r.cwnd \in Nat /\ r.ca_acc \in Nat
      BY DEF Recovery
    <3>3. OK({})
      BY <3>1, <3>2 DEF Windows
    <3> QED BY <2>2, <3>3
  <2>4. Last(s) \in s
    BY <2>3, LastMarkedIn
  <2> DEFINE x == Last(s)
             t == s \ {x}
  <2> HIDE DEF Last
  <2>5. t \in SUBSET A /\ Cardinality(t) \in Nat /\ Cardinality(t) = n - 1 /\ n \in Nat
    BY <1>2, <2>2, <2>4, RemoveOne
  <2>6. OK(t)
    <3>1. Cardinality(t) \notin Bad
      BY <2>1, <2>5
    <3> QED BY <2>5, <3>1
  <2>7. g[s] = Opened(g[t], r, r.s[x], limited)
    BY <1>1, <2>3 DEF WindowTable, Last
  <2>8. r.s[x] \in Sent
    BY <2>4 DEF Outstanding, Recovery
  <2>9. r.cwnd \in Nat /\ g[t].cwnd \in Nat /\ Opened(g[t], r, r.s[x], limited).cwnd \in Nat
    BY <2>6, <2>8, OpenedTyped DEF Recovery, Windows
  <2>10. OK(s)
    BY <2>6, <2>7, <2>8, <2>9, OpenedTyped
  <2> QED BY <2>2, <2>10
<1>4. Cardinality(A) \in Nat /\ A \in SUBSET A
  BY FS_CardinalityType
<1>5. OK(A)
  BY <1>3, <1>4
<1> QED BY <1>5, WindowIsTable DEF g

-----------------------------------------------------------------------------
(* Records and their sizes *)

\* A record in flight is one of a sent packet.
LEMMA RecordTypes ==
    ASSUME NEW r \in Recovery, NEW i \in Slots
    PROVE  /\ i \in Outstanding(r) => r.s[i] \in Sent /\ r.s[i].lvl \in Lvls /\ r.s[i].pn \in Nat
                                      /\ r.s[i].t \in Nat /\ r.s[i].size \in Nat
                                      /\ r.s[i].off \in Nat /\ r.s[i].len \in Nat
           /\ r.s[i] # Free <=> i \in Outstanding(r)
           /\ r.s[i].size \in Nat
<1>1. r.s[i] \in Sent \cup {Free}
  BY DEF Recovery
<1>2. r.s[i] # Free <=> i \in Outstanding(r)
  BY DEF Outstanding
<1>3. ASSUME r.s[i] \in Sent
      PROVE  /\ r.s[i].lvl \in Lvls /\ r.s[i].pn \in Nat
             /\ r.s[i].t \in Nat /\ r.s[i].size \in Nat
             /\ r.s[i].off \in Nat /\ r.s[i].len \in Nat
  BY <1>3, ConstantTypes DEF Sent
<1>4. Free.size \in Nat
  BY DEF Free
<1> QED BY <1>1, <1>2, <1>3, <1>4

\* No sent packet looks like a free entry.
LEMMA FreeIsNotSent == Free \notin Sent
BY DEF Free, Sent, NONE

\* Records at a level are records; sets of them are finite.
LEMMA RecordSets ==
    ASSUME NEW r \in Recovery, NEW l
    PROVE  /\ Outstanding(r) \subseteq Slots
           /\ OutstandingAt(r, l) \subseteq Outstanding(r)
           /\ Eliciting(r, l) \subseteq OutstandingAt(r, l)
           /\ \A S \in SUBSET Slots : IsFiniteSet(S)
BY SlotsFinite, FS_Subset DEF Outstanding, OutstandingAt, Eliciting

\* Sizes of records are natural numbers, and so are their sums.
LEMMA SizeNat ==
    ASSUME NEW r \in Recovery, NEW S, S \subseteq Slots
    PROVE  SizeOf(r, S) \in Nat
<1> DEFINE f == [i \in Slots |-> r.s[i].size]
<1>1. IsFiniteSet(S) /\ \A i \in S : f[i] \in Nat
  BY RecordSets, RecordTypes
<1> HIDE DEF f
<1>2. SumFunctionOnSet(f, S) \in Nat
  BY <1>1, SumNat
<1> QED BY <1>2 DEF SizeOf, f

\* What some of the records take, and what the others take.
LEMMA SizePart ==
    ASSUME NEW r \in Recovery, NEW S, S \subseteq Slots, NEW A, A \subseteq S
    PROVE  /\ SizeOf(r, S) = SizeOf(r, A) + SizeOf(r, S \ A)
           /\ SizeOf(r, S) \in Nat /\ SizeOf(r, A) \in Nat /\ SizeOf(r, S \ A) \in Nat
           /\ SizeOf(r, A) <= SizeOf(r, S)
<1> DEFINE f == [i \in Slots |-> r.s[i].size]
<1>1. IsFiniteSet(S) /\ \A i \in S : f[i] \in Int
  BY RecordSets, RecordTypes
<1>2. SizeOf(r, S) \in Nat /\ SizeOf(r, A) \in Nat /\ SizeOf(r, S \ A) \in Nat
  BY SizeNat
<1>3. SizeOf(r, S) = SizeOf(r, A) + SizeOf(r, S \ A)
  <2> HIDE DEF f
  <2>1. SumFunctionOnSet(f, S) = SumFunctionOnSet(f, A) + SumFunctionOnSet(f, S \ A)
    BY <1>1, SumPart
  <2> QED BY <2>1 DEF SizeOf, f
<1> QED BY <1>2, <1>3

\* Only the sizes matter.
LEMMA SizeSame ==
    ASSUME NEW r, NEW x, NEW S, S \subseteq Slots, \A i \in S : x.s[i].size = r.s[i].size
    PROVE  SizeOf(x, S) = SizeOf(r, S)
<1> DEFINE f == [i \in Slots |-> r.s[i].size]
           g == [i \in Slots |-> x.s[i].size]
<1>1. IsFiniteSet(S) /\ \A i \in S : g[i] = f[i]
  BY SlotsFinite, FS_Subset
<1> HIDE DEF f, g
<1>2. SumFunctionOnSet(g, S) = SumFunctionOnSet(f, S)
  BY <1>1, SumSame
<1> QED BY <1>2 DEF SizeOf, f, g

\* A record more, in an entry that was free.
LEMMA SizePut ==
    ASSUME NEW r \in Recovery, NEW x \in Recovery, NEW i \in Slots,
           \A j \in Outstanding(r) : j # i /\ x.s[j] = r.s[j],
           Outstanding(x) = Outstanding(r) \cup {i}
    PROVE  SizeOf(x, Outstanding(x)) = SizeOf(r, Outstanding(r)) + x.s[i].size
<1> DEFINE S == Outstanding(x)
           f == [j \in Slots |-> x.s[j].size]
<1>1. S \subseteq Slots /\ IsFiniteSet(S) /\ i \in S /\ S \ {i} = Outstanding(r)
  BY RecordSets
<1>2. \A j \in S : f[j] \in Int
  BY <1>1, RecordTypes
<1>3. f[i] = x.s[i].size
  OBVIOUS
<1>4. SizeOf(x, S) = x.s[i].size + SizeOf(x, S \ {i})
  <2> HIDE DEF f, S
  <2>1. SumFunctionOnSet(f, S) = f[i] + SumFunctionOnSet(f, S \ {i})
    BY <1>1, <1>2, SumSplit
  <2> QED BY <1>3, <2>1 DEF SizeOf, f
<1>5. SizeOf(x, Outstanding(r)) = SizeOf(r, Outstanding(r))
  BY <1>1, SizeSame
<1>6. SizeOf(r, Outstanding(r)) \in Nat /\ x.s[i].size \in Nat
  BY SizeNat, RecordSets, RecordTypes
<1> HIDE DEF f, S
<1>7. SizeOf(x, S) = x.s[i].size + SizeOf(r, Outstanding(r))
  BY <1>1, <1>4, <1>5
<1> QED BY <1>6, <1>7 DEF S

\* Entries are freed, the others stay.
LEMMA FreedRecords ==
    ASSUME NEW r \in Recovery, NEW S
    PROVE  /\ Freed(r, S) \in Recovery
           /\ \A i \in Slots : Freed(r, S).s[i] = IF i \in S THEN Free ELSE r.s[i]
           /\ Outstanding(Freed(r, S)) = Outstanding(r) \ S
           /\ \A l : OutstandingAt(Freed(r, S), l) = OutstandingAt(r, l) \ S
           /\ \A l : Eliciting(Freed(r, S), l) = Eliciting(r, l) \ S
<1> DEFINE x == Freed(r, S)
<1>1. x.s = [i \in Slots |-> IF i \in S THEN Free ELSE r.s[i]]
  BY DEF Freed, Recovery
<1>2. \A i \in Slots : x.s[i] = IF i \in S THEN Free ELSE r.s[i]
  BY <1>1
<1>3. x \in Recovery
  BY DEF Freed, Recovery
<1> HIDE DEF x
<1>4. Outstanding(x) = Outstanding(r) \ S
  BY <1>2 DEF Outstanding
<1>5. \A l : OutstandingAt(x, l) = OutstandingAt(r, l) \ S
  BY <1>2, <1>4 DEF OutstandingAt, Outstanding
<1>6. \A l : Eliciting(x, l) = Eliciting(r, l) \ S
  BY <1>2, <1>5 DEF Eliciting, OutstandingAt, Outstanding
<1> QED BY <1>2, <1>3, <1>4, <1>5, <1>6 DEF x

-----------------------------------------------------------------------------
(* Congestion and round trip times *)

Steady(r) == r.recovery_start <= now /\ r.cwnd >= MINWIN

\* The same records, marks and timers.
SameBooks(r, x) ==
    /\ x.s = r.s /\ x.in_flight = r.in_flight /\ x.largest_acked = r.largest_acked
    /\ x.last_elicit = r.last_elicit /\ x.loss_time = r.loss_time /\ x.hs_acked = r.hs_acked

\* What is read from the same records is the same.
LEMMA SameRecords ==
    ASSUME NEW r, NEW x, x.s = r.s
    PROVE  /\ Outstanding(x) = Outstanding(r) /\ rec_free(x) = rec_free(r)
           /\ \A l : OutstandingAt(x, l) = OutstandingAt(r, l) /\ Eliciting(x, l) = Eliciting(r, l)
           /\ \A S : SizeOf(x, S) = SizeOf(r, S)
BY DEF Outstanding, OutstandingAt, Eliciting, SizeOf, rec_free

\* A reduction leaves at least the least window.
LEMMA CongestionKeeps ==
    ASSUME NEW r \in Recovery, NEW t, Steady(r), now \in Nat
    PROVE  /\ congestion(r, t) \in Recovery /\ SameBooks(r, congestion(r, t))
           /\ Steady(congestion(r, t))
<1>1. CASE t <= r.recovery_start
  BY <1>1 DEF congestion, SameBooks
<1>2. CASE ~(t <= r.recovery_start)
  <2> DEFINE h == r.cwnd \div 2
             x == [r EXCEPT !.recovery_start = now, !.ssthresh = h,
                            !.cwnd = MaxOf(h, MINWIN), !.ca_acc = 0]
  <2>1. x = congestion(r, t)
    BY <1>2 DEF congestion
  <2>2. h \in Nat /\ MaxOf(h, MINWIN) \in Nat /\ MaxOf(h, MINWIN) >= MINWIN
    <3>1. r.cwnd \in Nat /\ MINWIN \in Nat
      BY ConstantTypes DEF Recovery
    <3>2. h \in Nat
      BY <3>1
    <3> HIDE DEF h
    <3> QED BY <3>1, <3>2 DEF MaxOf
  <2> HIDE DEF h
  <2>3. x \in Recovery
    BY <2>2 DEF Recovery
  <2>4. SameBooks(r, x)
    BY DEF SameBooks, Recovery
  <2>5. x.recovery_start = now /\ x.cwnd = MaxOf(h, MINWIN)
    BY DEF Recovery
  <2> HIDE DEF x
  <2>6. Steady(x)
    BY <2>2, <2>5 DEF Steady
  <2> QED BY <2>1, <2>3, <2>4, <2>6
<1> QED BY <1>1, <1>2

\* Persistent congestion falls back to it.
LEMMA CollapsedKeeps ==
    ASSUME NEW r \in Recovery, now \in Nat
    PROVE  Collapsed(r) \in Recovery /\ SameBooks(r, Collapsed(r)) /\ Steady(Collapsed(r))
<1>1. MINWIN \in Nat /\ r.latest_rtt \in Nat
  BY ConstantTypes DEF Recovery
<1>2. Collapsed(r) \in Recovery
  BY <1>1 DEF Collapsed, Recovery
<1>3. SameBooks(r, Collapsed(r))
  BY DEF Collapsed, SameBooks, Recovery
<1>4. Collapsed(r).recovery_start = NONE /\ Collapsed(r).cwnd = MINWIN
  BY DEF Collapsed, Recovery
<1>5. Steady(Collapsed(r))
  BY <1>1, <1>4 DEF Steady, NONE
<1> QED BY <1>2, <1>3, <1>5

\* The estimates stay natural numbers: the delay the peer claims is never subtracted from a
\* sample it exceeds.
LEMMA RttKeeps ==
    ASSUME NEW r \in Recovery, NEW lat \in Nat, NEW ad \in Nat, Steady(r),
           now \in 0..INT64_MAX
    PROVE  /\ update_rtt(r, lat, ad) \in Recovery /\ SameBooks(r, update_rtt(r, lat, ad))
           /\ Steady(update_rtt(r, lat, ad))
<1> DEFINE min == MinOf(lat, r.min_rtt)
           del == IF confirmed THEN MinOf(ad, MAD) ELSE ad
           adj == IF lat >= min + del THEN lat - del ELSE lat
           diff == MaxOf(r.srtt, adj) - MinOf(r.srtt, adj)
           x == [r EXCEPT !.latest_rtt = lat, !.min_rtt = min,
                          !.rttvar = (3 * @ + diff) \div 4, !.srtt = (7 * @ + adj) \div 8]
           y == [r EXCEPT !.latest_rtt = lat, !.min_rtt = lat, !.srtt = lat, !.rttvar = lat \div 2,
                          !.has_sample = TRUE, !.first_sample_t = now]
<1>1. r.min_rtt \in Nat /\ r.srtt \in Nat /\ r.rttvar \in Nat /\ MAD \in Nat
  BY ConstantTypes DEF Recovery
<1>2. min \in Nat /\ del \in Nat
  BY <1>1 DEF MinOf
<1>3. adj \in Nat
  <2> HIDE DEF min, del
  <2> QED BY <1>2
<1>4. diff \in Nat
  <2> HIDE DEF adj
  <2> QED BY <1>1, <1>3 DEF MaxOf, MinOf
<1>5. (3 * r.rttvar + diff) \div 4 \in Nat /\ (7 * r.srtt + adj) \div 8 \in Nat /\ lat \div 2 \in Nat
  <2> HIDE DEF adj, diff
  <2> QED BY <1>1, <1>3, <1>4
<1>6. update_rtt(r, lat, ad) = IF r.has_sample THEN x ELSE y
  BY DEF update_rtt
<1> HIDE DEF min, adj, diff
<1>7. x \in Recovery /\ SameBooks(r, x)
  BY <1>2, <1>5 DEF SameBooks, Recovery
<1>8. y \in Recovery /\ SameBooks(r, y)
  BY <1>5 DEF SameBooks, Recovery
<1>9. /\ x.recovery_start = r.recovery_start /\ x.cwnd = r.cwnd
      /\ y.recovery_start = r.recovery_start /\ y.cwnd = r.cwnd
  BY DEF Recovery
<1>10. Steady(x) /\ Steady(y)
  <2> HIDE DEF x, y
  <2> QED BY <1>9 DEF Steady
<1> QED BY <1>6, <1>7, <1>8, <1>10

-----------------------------------------------------------------------------
(* What is sent again *)

\* The first of some times, or of some offsets.
LEMMA LeastTimeIn ==
    ASSUME NEW T \in SUBSET Nat, T # {}
    PROVE  LeastTime(T) \in T /\ \A u \in T : LeastTime(T) <= u
BY LeastNatural DEF LeastTime

\* The last of them.
LEMMA LastTimeIn ==
    ASSUME NEW n \in Nat, NEW T, T \subseteq -1..n, T # {}
    PROVE  LastTime(T) \in T /\ \A u \in T : LastTime(T) >= u
<1> DEFINE I == {n - t : t \in T}
<1>1. \A t \in T : t \in Int /\ t <= n
  OBVIOUS
<1>2. \A t \in T : n - t \in Nat
  BY <1>1
<1>3. PICK k \in I : \A m \in I : k <= m
  <2>1. I \in SUBSET Nat /\ I # {}
    BY <1>2
  <2> QED BY <2>1, LeastNatural
<1>4. PICK t \in T : k = n - t
  BY <1>3
<1>5. \A u \in T : n - t <= n - u
  BY <1>3, <1>4
<1>6. \A u \in T : t >= u
  BY <1>1, <1>5
<1> QED BY <1>6 DEF LastTime

\* Sending goes back to the first of the records' offsets, and never forward.
LEMMA ResumeKeeps ==
    ASSUME NEW q \in States, NEW r \in Recovery, NEW l \in Lvls, NEW S, S \subseteq Outstanding(r)
    PROVE  /\ Resume(q, r, l, S) \in States
           /\ Resume(q, r, l, S).rec = q.rec /\ Resume(q, r, l, S).probe = q.probe
           /\ Resume(q, r, l, S).crypto_acked = q.crypto_acked
           /\ \A k \in {0, 1} : /\ Resume(q, r, l, S).ret_sent[k] <= q.ret_sent[k]
                                /\ k # l => Resume(q, r, l, S).ret_sent[k] = q.ret_sent[k]
           /\ l \in {0, 1} /\ l \in tx =>
                \A i \in S : r.s[i].len > 0 => Resume(q, r, l, S).ret_sent[l] <= r.s[i].off
<1> DEFINE offs == {r.s[i].off : i \in {j \in S : r.s[j].len > 0}} \cup {q.ret_sent[l]}
           m == LeastTime(offs)
           x == Resume(q, r, l, S)
<1>1. q.ret_sent \in [{0, 1} -> Nat] /\ \A k \in {0, 1} : q.ret_sent[k] \in Nat
  BY DEF States
<1>2. CASE l = 2 \/ l \notin tx
  <2>1. x = q
    BY <1>2 DEF Resume
  <2>2. \A k \in {0, 1} : q.ret_sent[k] <= q.ret_sent[k]
    BY <1>1
  <2> QED BY <1>2, <2>1, <2>2
<1>3. CASE l # 2 /\ l \in tx
  <2>1. l \in {0, 1}
    BY <1>3 DEF Lvls
  <2>2. \A i \in S : r.s[i].off \in Nat
    BY RecordTypes, RecordSets
  <2>3. offs \in SUBSET Nat /\ offs # {}
    BY <1>1, <2>1, <2>2
  <2>4. m \in offs /\ \A u \in offs : m <= u
    BY <2>3, LeastTimeIn
  <2>5. m \in Nat /\ m <= q.ret_sent[l] /\ \A i \in S : r.s[i].len > 0 => m <= r.s[i].off
    BY <2>3, <2>4
  <2>6. x = [q EXCEPT !.ret_sent[l] = m]
    BY <1>3 DEF Resume
  <2> HIDE DEF m
  <2>7. x \in States /\ x.rec = q.rec /\ x.probe = q.probe /\ x.crypto_acked = q.crypto_acked
    BY <2>1, <2>5, <2>6 DEF States
  <2>8. x.ret_sent = [q.ret_sent EXCEPT ![l] = m]
    BY <2>6 DEF States
  <2> HIDE DEF x
  <2>9. \A k \in {0, 1} : x.ret_sent[k] = IF k = l THEN m ELSE q.ret_sent[k]
    BY <1>1, <2>8
  <2>10. \A k \in {0, 1} : x.ret_sent[k] <= q.ret_sent[k]
    BY <1>1, <2>5, <2>9
  <2> QED BY <2>1, <2>5, <2>7, <2>9, <2>10 DEF x
<1> QED BY <1>2, <1>3

-----------------------------------------------------------------------------
(* Records that are lost or acknowledged *)

\* The variables a call reads besides those it changes.
Context ==
    /\ ret_len \in [{0, 1} -> Nat] /\ tx \subseteq Lvls
    /\ established \in BOOLEAN /\ confirmed \in BOOLEAN
    /\ tx_pn \in [Lvls -> Nat] /\ now \in 0..MaxTime

\* The invariant of a value during a call, but for the loss timers.
Kept(q) ==
    /\ q \in States /\ Booked(q, tx, tx_pn) /\ Accounted(q.rec) /\ Resent(q, ret_len)
    /\ Unvalidated(q) /\ Anchored(q, tx, tx_pn)

\* The loss timer of one level waits for a packet.
OvertakenAt(r, l) ==
    r.loss_time[l] # INT64_MAX => \E i \in OutstandingAt(r, l) : r.s[i].pn <= r.largest_acked[l]

\* Level by level.
LEMMA OvertakenSplit == \A r : Overtaken(r) <=> \A l \in Lvls : OvertakenAt(r, l)
BY DEF Overtaken, OvertakenAt, loss_armed

\* From q to y, the records A of level l go, for an acknowledgement or a loss.
Loses(q, y, l, A) ==
    /\ A \subseteq OutstandingAt(q.rec, l)
    /\ \A i \in Slots : y.rec.s[i] = IF i \in A THEN Free ELSE q.rec.s[i]
    /\ y.rec.in_flight = q.rec.in_flight - SizeOf(q.rec, A)
    /\ y.rec.last_elicit = q.rec.last_elicit
    /\ q.rec.hs_acked => y.rec.hs_acked
    /\ Steady(y.rec)

\* What else becomes of the state then: what was acknowledged counts, what was lost is sent again.
Follows(q, y, l, A) ==
    /\ \A k \in Lvls : /\ y.probe[k] # 0 => k \in tx
                       /\ y.rec.largest_acked[k] < tx_pn[k]
                       /\ q.crypto_acked[k] \subseteq y.crypto_acked[k]
                       /\ tx_pn[k] = 0 => y.crypto_acked[k] = {}
    /\ \A k \in {0, 1} : y.ret_sent[k] <= q.ret_sent[k]
    /\ l \in {0, 1} =>
         \A i \in A : \A b \in q.rec.s[i].off..(q.rec.s[i].off + q.rec.s[i].len - 1) :
            b < y.ret_sent[l] => b \in y.crypto_acked[l]
    /\ y.rec.hs_acked \/ confirmed \/
         /\ l = 1 => A = {}
         /\ y.rec.largest_acked[1] = q.rec.largest_acked[1]
         /\ y.crypto_acked[1] = q.crypto_acked[1] /\ y.probe[2] = 0

\* The bytes in some records.
LEMMA CryptoBytesIn ==
    \A r, A, l, b : b \in CryptoBytes(r, A, l) <=>
        \E i \in A : b \in r.s[i].off..(r.s[i].off + r.s[i].len - 1)
BY DEF CryptoBytes

\* The records that stay are as they were.
LEMMA LosesRecords ==
    ASSUME NEW q \in States, NEW y \in States, NEW l \in Lvls, NEW A, Loses(q, y, l, A)
    PROVE  /\ Outstanding(y.rec) = Outstanding(q.rec) \ A
           /\ \A k : OutstandingAt(y.rec, k) = OutstandingAt(q.rec, k) \ A
           /\ \A k : k # l => /\ OutstandingAt(y.rec, k) = OutstandingAt(q.rec, k)
                              /\ Eliciting(y.rec, k) = Eliciting(q.rec, k)
           /\ \A k : Eliciting(y.rec, k) \subseteq Eliciting(q.rec, k)
           /\ \A i \in Outstanding(y.rec) : y.rec.s[i] = q.rec.s[i]
           /\ A \subseteq Outstanding(q.rec)
<1>1. A \subseteq OutstandingAt(q.rec, l) /\ A \subseteq Outstanding(q.rec)
  BY DEF Loses, OutstandingAt
<1>2. \A i \in Slots : y.rec.s[i] = IF i \in A THEN Free ELSE q.rec.s[i]
  BY DEF Loses
<1>3. Outstanding(y.rec) = Outstanding(q.rec) \ A
  BY <1>2 DEF Outstanding
<1>4. \A i \in Outstanding(y.rec) : y.rec.s[i] = q.rec.s[i]
  BY <1>2, <1>3 DEF Outstanding
<1>5. \A k : OutstandingAt(y.rec, k) = OutstandingAt(q.rec, k) \ A
  BY <1>3, <1>4 DEF OutstandingAt
<1>6. \A k : k # l => OutstandingAt(y.rec, k) = OutstandingAt(q.rec, k)
  BY <1>1, <1>5 DEF OutstandingAt
<1>7. \A k : \A i \in OutstandingAt(y.rec, k) : y.rec.s[i] = q.rec.s[i]
  BY <1>4 DEF OutstandingAt
<1>8. \A k : Eliciting(y.rec, k) \subseteq Eliciting(q.rec, k)
  BY <1>5, <1>7 DEF Eliciting
<1>9. \A k : k # l => Eliciting(y.rec, k) = Eliciting(q.rec, k)
  BY <1>6, <1>7 DEF Eliciting
<1> QED BY <1>1, <1>3, <1>4, <1>5, <1>6, <1>8, <1>9

\* Losing records, or having them acknowledged, keeps the invariant.
LEMMA LosesKeeps ==
    ASSUME NEW q, Kept(q), Context, NEW y \in States, NEW l \in Lvls, NEW A,
           Loses(q, y, l, A), Follows(q, y, l, A)
    PROVE  Kept(y)
<1>1. q \in States /\ q.rec \in Recovery /\ y.rec \in Recovery
  BY DEF Kept, States
<1> DEFINE r == q.rec
           x == y.rec
<1>2. /\ Outstanding(x) = Outstanding(r) \ A
      /\ \A k : OutstandingAt(x, k) = OutstandingAt(r, k) \ A
      /\ \A k : k # l => /\ OutstandingAt(x, k) = OutstandingAt(r, k)
                         /\ Eliciting(x, k) = Eliciting(r, k)
      /\ \A k : Eliciting(x, k) \subseteq Eliciting(r, k)
      /\ \A i \in Outstanding(x) : x.s[i] = r.s[i]
      /\ A \subseteq Outstanding(r)
  BY <1>1, LosesRecords
<1>3. Booked(y, tx, tx_pn)
  <2>1. \A i \in Outstanding(x) : LET z == x.s[i] IN
          z.lvl \in tx /\ z.pn < tx_pn[z.lvl] /\ z.t <= now /\ (z.len > 0 => z.elicit)
    BY <1>2 DEF Kept, Booked
  <2>2. \A k \in Lvls : x.last_elicit[k] <= now
    BY DEF Kept, Booked, Loses
  <2> HIDE DEF x
  <2>3. Steady(x)
    BY DEF Loses, x
  <2> QED BY <2>1, <2>2, <2>3 DEF Booked, Follows, Steady, x
<1>4. Accounted(x)
  <2>1. Outstanding(r) \subseteq Slots
    BY <1>1, RecordSets
  <2>2. /\ SizeOf(r, Outstanding(r)) = SizeOf(r, A) + SizeOf(r, Outstanding(r) \ A)
        /\ SizeOf(r, A) \in Nat /\ SizeOf(r, Outstanding(r) \ A) \in Nat
    <3>1. r \in Recovery /\ Outstanding(r) \subseteq Slots /\ A \subseteq Outstanding(r)
      BY <1>1, <1>2, <2>1
    <3> HIDE DEF r
    <3> QED BY <3>1, SizePart, ZenonT(40)
  <2>3. SizeOf(x, Outstanding(x)) = SizeOf(r, Outstanding(r) \ A)
    <3>1. Outstanding(x) \subseteq Slots /\ \A i \in Outstanding(x) : x.s[i].size = r.s[i].size
      BY <1>2, <2>1
    <3>2. SizeOf(x, Outstanding(x)) = SizeOf(r, Outstanding(x))
      BY <3>1, SizeSame
    <3> QED BY <1>2, <3>2
  <2>4. r.in_flight = SizeOf(r, Outstanding(r))
    BY DEF Kept, Accounted
  <2>5. x.in_flight = r.in_flight - SizeOf(r, A)
    BY DEF Loses
  <2> HIDE DEF r, x
  <2>6. x.in_flight = SizeOf(x, Outstanding(x))
    BY <2>2, <2>3, <2>4, <2>5
  <2> QED BY <2>6 DEF Accounted
<1>5. Resent(y, ret_len)
  <2> SUFFICES ASSUME NEW k \in {0, 1}
               PROVE  y.ret_sent[k] <= ret_len[k] /\ Unforgotten(y, k)
    BY DEF Resent
  <2>1. y.ret_sent[k] <= q.ret_sent[k] /\ q.ret_sent[k] <= ret_len[k] /\ Unforgotten(q, k)
    BY DEF Follows, Kept, Resent
  <2>2. y.ret_sent[k] \in Nat /\ q.ret_sent[k] \in Nat /\ ret_len[k] \in Nat /\ k \in Lvls
    BY <1>1 DEF States, Context, Lvls
  <2>3. y.ret_sent[k] <= ret_len[k]
    BY <2>1, <2>2
  <2>4. ASSUME NEW b \in 0..(y.ret_sent[k] - 1)
        PROVE  b \in y.crypto_acked[k] \cup CryptoBytes(x, OutstandingAt(x, k), k)
    <3>1. b \in 0..(q.ret_sent[k] - 1) /\ b < y.ret_sent[k]
      BY <2>1, <2>2
    <3>2. CASE b \in q.crypto_acked[k]
      BY <2>2, <3>2 DEF Follows
    <3>3. CASE b \in CryptoBytes(r, OutstandingAt(r, k), k)
      <4>1. PICK i \in OutstandingAt(r, k) : b \in r.s[i].off..(r.s[i].off + r.s[i].len - 1)
        BY <3>3, CryptoBytesIn
      <4>2. CASE i \in A
        <5>1. k = l
          BY <4>1, <4>2 DEF Loses, OutstandingAt
        <5> QED BY <3>1, <4>1, <4>2, <5>1 DEF Follows
      <4>3. CASE i \notin A
        <5>1. i \in OutstandingAt(x, k) /\ i \in Outstanding(x)
          BY <1>2, <4>1, <4>3 DEF OutstandingAt
        <5>2. x.s[i] = r.s[i]
          BY <1>2, <5>1
        <5>3. b \in CryptoBytes(x, OutstandingAt(x, k), k)
          BY <4>1, <5>1, <5>2, CryptoBytesIn
        <5> QED BY <5>3
      <4> QED BY <4>2, <4>3
    <3> QED BY <2>1, <3>1, <3>2, <3>3 DEF Unforgotten
  <2> QED BY <2>3, <2>4 DEF Unforgotten
<1>6. Unvalidated(y)
  <2> SUFFICES ASSUME ~x.hs_acked, ~confirmed
               PROVE  /\ x.largest_acked[1] = NONE /\ y.crypto_acked[1] = {} /\ y.probe[2] = 0
                      /\ Eliciting(x, 2) # {} => Eliciting(x, 1) # {}
    BY DEF Unvalidated
  <2>1. /\ l = 1 => A = {}
        /\ x.largest_acked[1] = r.largest_acked[1]
        /\ y.crypto_acked[1] = q.crypto_acked[1] /\ y.probe[2] = 0
    BY DEF Follows
  <2>2. ~r.hs_acked
    BY DEF Loses
  <2>3. /\ r.largest_acked[1] = NONE /\ q.crypto_acked[1] = {}
        /\ Eliciting(r, 2) # {} => Eliciting(r, 1) # {}
    BY <2>2 DEF Kept, Unvalidated
  <2>4. Eliciting(x, 1) = Eliciting(r, 1)
    <3>1. CASE l # 1
      BY <1>2, <3>1
    <3>2. CASE A = {}
      <4>1. OutstandingAt(x, 1) = OutstandingAt(r, 1)
        BY <1>2, <3>2
      <4>2. \A i \in OutstandingAt(x, 1) : x.s[i] = r.s[i]
        BY <1>2 DEF OutstandingAt
      <4> QED BY <4>1, <4>2 DEF Eliciting
    <3> QED BY <2>1, <3>1, <3>2
  <2>5. Eliciting(x, 2) # {} => Eliciting(r, 2) # {}
    BY <1>2
  <2> QED BY <2>1, <2>3, <2>4, <2>5
<1>7. Anchored(y, tx, tx_pn)
  <2>1. x.last_elicit = r.last_elicit /\ (r.hs_acked => x.hs_acked)
    BY DEF Loses
  <2>2. Restarted(q, tx) => Restarted(y, tx)
    <3>1. y.ret_sent[0] <= q.ret_sent[0] /\ y.ret_sent[0] \in Nat
      BY DEF Follows, States
    <3>2. Outstanding(r) = {} => Outstanding(x) = {}
      BY <1>2
    <3> QED BY <3>1, <3>2 DEF Restarted
  <2> QED BY <2>1, <2>2 DEF Kept, Anchored
<1> QED BY <1>3, <1>4, <1>5, <1>6, <1>7 DEF Kept

-----------------------------------------------------------------------------
(* Loss detection *)

\* A time plus a delay stays below the time that means never.
LEMMA Tadd ==
    ASSUME NEW t \in Int, NEW d \in Nat, t < INT64_MAX, -1 <= t
    PROVE  /\ tadd(t, d) \in Int /\ -1 <= tadd(t, d) /\ tadd(t, d) < INT64_MAX
           /\ t \in Nat => tadd(t, d) \in Nat
BY ConstantTypes DEF tadd

\* Freeing entries touches nothing else.
LEMMA FreedFields ==
    ASSUME NEW r \in Recovery, NEW S
    PROVE  LET x == Freed(r, S) IN
           /\ x.in_flight = r.in_flight /\ x.largest_acked = r.largest_acked
           /\ x.last_elicit = r.last_elicit /\ x.loss_time = r.loss_time /\ x.hs_acked = r.hs_acked
           /\ x.recovery_start = r.recovery_start /\ x.cwnd = r.cwnd
BY DEF Freed, Recovery

\* The values detect_lost computes.
DelayOf(r) == LET x == MaxOf(r.latest_rtt, r.srtt) IN MaxOf(x + x \div 8, 1)
BelowOf(r, l) == {i \in OutstandingAt(r, l) : r.s[i].pn <= r.largest_acked[l]}
LostOf(r, l) ==
    {i \in BelowOf(r, l) : r.s[i].t <= now - DelayOf(r) \/ r.largest_acked[l] >= r.s[i].pn + 3}
DueOf(r, l) == {tadd(r.s[i].t, DelayOf(r)) : i \in BelowOf(r, l) \ LostOf(r, l)}
Found(r, l) ==
    [r EXCEPT !.loss_time[l] = IF DueOf(r, l) = {} THEN INT64_MAX ELSE LeastTime(DueOf(r, l)),
              !.in_flight = @ - SizeOf(r, LostOf(r, l))]
Punished(r, l, acks) ==
    LET r2 == congestion(Found(r, l), LastTime({r.s[i].t : i \in LostOf(r, l)}))
    IN  IF acks # {} /\ persistent(r2, LostOf(r, l), acks) THEN Collapsed(r2) ELSE r2

\* detect_lost is made of them.
LEMMA DetectSteps ==
    ASSUME NEW q, NEW l, NEW acks
    PROVE  detect_lost(q, l, acks) =
             IF LostOf(q.rec, l) = {} THEN [q EXCEPT !.rec = Found(q.rec, l)]
             ELSE Resume([q EXCEPT !.rec = Freed(Punished(q.rec, l, acks), LostOf(q.rec, l))],
                         q.rec, l, LostOf(q.rec, l))
BY DEF detect_lost, LostOf, BelowOf, DelayOf, DueOf, Found, Punished

\* The loss timer is set exactly while a packet that is not lost was overtaken.
LEMMA FoundKeeps ==
    ASSUME NEW r \in Recovery, Context, Accounted(r), NEW l \in Lvls,
           \A i \in Outstanding(r) : r.s[i].t <= now
    PROVE  /\ Found(r, l) \in Recovery
           /\ Found(r, l).in_flight = r.in_flight - SizeOf(r, LostOf(r, l))
           /\ \A k \in Lvls \ {l} : Found(r, l).loss_time[k] = r.loss_time[k]
           /\ Found(r, l).loss_time[l] # INT64_MAX => BelowOf(r, l) \ LostOf(r, l) # {}
           /\ Found(r, l).s = r.s /\ Found(r, l).largest_acked = r.largest_acked
           /\ Found(r, l).last_elicit = r.last_elicit /\ Found(r, l).hs_acked = r.hs_acked
           /\ Found(r, l).recovery_start = r.recovery_start /\ Found(r, l).cwnd = r.cwnd
<1> DEFINE due == DueOf(r, l)
           lost == LostOf(r, l)
           t == IF due = {} THEN INT64_MAX ELSE LeastTime(due)
           n == r.in_flight - SizeOf(r, lost)
           x == Found(r, l)
<1>1. DelayOf(r) \in Nat
  <2>1. r.latest_rtt \in Nat /\ r.srtt \in Nat
    BY DEF Recovery
  <2> DEFINE m == MaxOf(r.latest_rtt, r.srtt)
             e == m + m \div 8
  <2>2. m \in Nat
    BY <2>1 DEF MaxOf
  <2>3. e \in Nat
    <3> HIDE DEF m
    <3> QED BY <2>2
  <2> HIDE DEF e
  <2>4. MaxOf(e, 1) \in Nat
    BY <2>3 DEF MaxOf
  <2> QED BY <2>4 DEF DelayOf, e
<1>2. BelowOf(r, l) \subseteq Outstanding(r) /\ lost \subseteq Outstanding(r)
  BY DEF BelowOf, LostOf, OutstandingAt
<1>3. \A i \in BelowOf(r, l) : tadd(r.s[i].t, DelayOf(r)) \in Nat
                               /\ tadd(r.s[i].t, DelayOf(r)) < INT64_MAX
  <2> SUFFICES ASSUME NEW i \in BelowOf(r, l)
               PROVE  tadd(r.s[i].t, DelayOf(r)) \in Nat /\ tadd(r.s[i].t, DelayOf(r)) < INT64_MAX
    OBVIOUS
  <2>1. r.s[i].t \in Nat /\ r.s[i].t <= now
    BY <1>2, RecordSets, RecordTypes
  <2>2. now \in Nat /\ now < INT64_MAX
    BY ConstantTypes DEF Context
  <2>3. r.s[i].t < INT64_MAX /\ r.s[i].t \in Int /\ -1 <= r.s[i].t /\ INT64_MAX \in Nat
    BY <2>1, <2>2, ConstantTypes
  <2> QED BY <1>1, <2>1, <2>3, Tadd
<1>4. \A d \in due : d \in Nat /\ d < INT64_MAX
  BY <1>3 DEF DueOf
<1>5. t \in 0..INT64_MAX /\ (t # INT64_MAX => due # {})
  <2>1. CASE due = {}
    BY <2>1, ConstantTypes
  <2>2. CASE due # {}
    <3> HIDE DEF due
    <3>1. LeastTime(due) \in due
      BY <1>4, <2>2, LeastTimeIn
    <3> QED BY <1>4, <2>2, <3>1, ConstantTypes
  <2> QED BY <2>1, <2>2
<1>6. n \in Nat
  <2>1. /\ SizeOf(r, Outstanding(r)) \in Nat /\ SizeOf(r, lost) \in Nat
        /\ SizeOf(r, lost) <= SizeOf(r, Outstanding(r))
    <3> HIDE DEF lost
    <3> QED BY <1>2, SizePart, RecordSets
  <2>2. r.in_flight = SizeOf(r, Outstanding(r))
    BY DEF Accounted
  <2> HIDE DEF lost
  <2> QED BY <2>1, <2>2
<1>7. x = [r EXCEPT !.loss_time[l] = t, !.in_flight = n]
  BY DEF Found
<1> HIDE DEF x, t, n
<1>8. x \in Recovery
  BY <1>5, <1>6, <1>7 DEF Recovery
<1>9. /\ x.in_flight = n /\ x.loss_time = [r.loss_time EXCEPT ![l] = t]
      /\ x.s = r.s /\ x.largest_acked = r.largest_acked
      /\ x.last_elicit = r.last_elicit /\ x.hs_acked = r.hs_acked
      /\ x.recovery_start = r.recovery_start /\ x.cwnd = r.cwnd
  BY <1>7 DEF Recovery
<1>10. x.loss_time[l] = t /\ \A k \in Lvls \ {l} : x.loss_time[k] = r.loss_time[k]
  BY <1>9 DEF Recovery
<1>11. due # {} => BelowOf(r, l) \ LostOf(r, l) # {}
  BY DEF DueOf
<1> QED BY <1>5, <1>8, <1>9, <1>10, <1>11 DEF x, n

\* A loss reduces the window and changes nothing else.
LEMMA PunishedKeeps ==
    ASSUME NEW r \in Recovery, Context, Accounted(r), Steady(r), NEW l \in Lvls, NEW acks,
           \A i \in Outstanding(r) : r.s[i].t <= now
    PROVE  /\ Punished(r, l, acks) \in Recovery /\ SameBooks(Found(r, l), Punished(r, l, acks))
           /\ Steady(Punished(r, l, acks))
<1> DEFINE x == Found(r, l)
           y == congestion(x, LastTime({r.s[i].t : i \in LostOf(r, l)}))
<1>1. x \in Recovery /\ Steady(x) /\ now \in Nat
  BY FoundKeeps DEF Steady, Context
<1>2. y \in Recovery /\ SameBooks(x, y) /\ Steady(y)
  <2> HIDE DEF x
  <2> QED BY <1>1, CongestionKeeps
<1>3. Collapsed(y) \in Recovery /\ SameBooks(y, Collapsed(y)) /\ Steady(Collapsed(y))
  BY <1>1, <1>2, CollapsedKeeps
<1>4. SameBooks(x, Collapsed(y))
  BY <1>2, <1>3 DEF SameBooks
<1>5. Punished(r, l, acks) = y \/ Punished(r, l, acks) = Collapsed(y)
  BY DEF Punished
<1> QED BY <1>2, <1>3, <1>4, <1>5

\* Loss detection, with what reap does for the lost packets, keeps the invariant and sets the
\* loss timer of its level right.
LEMMA DetectKeeps ==
    ASSUME NEW q, Kept(q), Context, NEW l \in Lvls, NEW acks,
           \A k \in Lvls \ {l} : OvertakenAt(q.rec, k)
    PROVE  Kept(detect_lost(q, l, acks)) /\ Overtaken(detect_lost(q, l, acks).rec)
<1> DEFINE r == q.rec
           lost == LostOf(r, l)
           p == Punished(r, l, acks)
           y == detect_lost(q, l, acks)
<1>1. q \in States /\ r \in Recovery /\ Accounted(r) /\ Steady(r)
  BY DEF Kept, States, Booked, Steady
<1>2. \A i \in Outstanding(r) : r.s[i].t <= now /\ r.s[i].lvl \in tx
  BY DEF Kept, Booked
<1>3. lost \subseteq BelowOf(r, l) /\ BelowOf(r, l) \subseteq OutstandingAt(r, l)
      /\ OutstandingAt(r, l) \subseteq Outstanding(r) /\ Outstanding(r) \subseteq Slots
  BY DEF LostOf, BelowOf, OutstandingAt, Outstanding
<1>4. /\ Found(r, l) \in Recovery
      /\ Found(r, l).in_flight = r.in_flight - SizeOf(r, LostOf(r, l))
      /\ \A k \in Lvls \ {l} : Found(r, l).loss_time[k] = r.loss_time[k]
      /\ Found(r, l).loss_time[l] # INT64_MAX => BelowOf(r, l) \ LostOf(r, l) # {}
      /\ Found(r, l).s = r.s /\ Found(r, l).largest_acked = r.largest_acked
      /\ Found(r, l).last_elicit = r.last_elicit /\ Found(r, l).hs_acked = r.hs_acked
      /\ Found(r, l).recovery_start = r.recovery_start /\ Found(r, l).cwnd = r.cwnd
  <2> HIDE DEF r
  <2> QED BY <1>1, <1>2, FoundKeeps
<1> DEFINE f == Found(r, l)
           Fields(x) == /\ x.in_flight = f.in_flight /\ x.largest_acked = r.largest_acked
                        /\ x.last_elicit = r.last_elicit /\ x.hs_acked = r.hs_acked
                        /\ x.loss_time = f.loss_time
<1>5. /\ y \in States
      /\ \A i \in Slots : y.rec.s[i] = IF i \in lost THEN Free ELSE r.s[i]
      /\ Fields(y.rec) /\ Steady(y.rec)
      /\ y.probe = q.probe /\ y.crypto_acked = q.crypto_acked
      /\ \A k \in {0, 1} : y.ret_sent[k] <= q.ret_sent[k]
      /\ l \in {0, 1} => \A i \in lost : r.s[i].len > 0 => y.ret_sent[l] <= r.s[i].off
  <2>1. CASE lost = {}
    <3>1. y = [q EXCEPT !.rec = f]
      BY <2>1, DetectSteps
    <3>2. y \in States /\ y.rec = f
      BY <1>1, <1>4, <3>1 DEF States
    <3>3. y.probe = q.probe /\ y.crypto_acked = q.crypto_acked /\ y.ret_sent = q.ret_sent
      BY <1>1, <3>1 DEF States
    <3>4. \A k \in {0, 1} : q.ret_sent[k] \in Nat
      BY <1>1 DEF States
    <3>5. \A k \in {0, 1} : y.ret_sent[k] <= q.ret_sent[k]
      BY <3>3, <3>4
    <3>6. Fields(f) /\ Steady(f)
      BY <1>1, <1>4 DEF Steady
    <3>7. \A i \in Slots : f.s[i] = IF i \in lost THEN Free ELSE r.s[i]
      BY <1>4, <2>1
    <3> HIDE DEF y, f
    <3> QED BY <2>1, <3>2, <3>3, <3>5, <3>6, <3>7
  <2>2. CASE lost # {}
    <3> DEFINE x == Freed(p, lost)
               z == [q EXCEPT !.rec = x]
    <3>1. y = Resume(z, r, l, lost)
      BY <2>2, DetectSteps
    <3>2. p \in Recovery /\ SameBooks(f, p) /\ Steady(p)
      <4> HIDE DEF r
      <4> QED BY <1>1, <1>2, PunishedKeeps
    <3>3. x \in Recovery /\ \A i \in Slots : x.s[i] = IF i \in lost THEN Free ELSE p.s[i]
      <4> HIDE DEF p, lost
      <4> QED BY <3>2, FreedRecords
    <3>4. /\ x.in_flight = p.in_flight /\ x.largest_acked = p.largest_acked
          /\ x.last_elicit = p.last_elicit /\ x.loss_time = p.loss_time
          /\ x.hs_acked = p.hs_acked /\ x.recovery_start = p.recovery_start /\ x.cwnd = p.cwnd
      <4> HIDE DEF p, lost
      <4> QED BY <3>2, FreedFields
    <3>5. p.s = r.s /\ Fields(p)
      BY <1>4, <3>2 DEF SameBooks
    <3>6. Fields(x) /\ Steady(x) /\ \A i \in Slots : x.s[i] = IF i \in lost THEN Free ELSE r.s[i]
      <4> HIDE DEF x, p, lost, f
      <4> QED BY <3>2, <3>3, <3>4, <3>5 DEF Steady
    <3>7. z \in States /\ z.rec = x /\ z.probe = q.probe /\ z.crypto_acked = q.crypto_acked
          /\ z.ret_sent = q.ret_sent
      <4> HIDE DEF x
      <4> QED BY <1>1, <3>3 DEF States
    <3>8. lost \subseteq Outstanding(r) /\ (l \in {0, 1} => l \in tx)
      <4>1. \A i \in lost : i \in Outstanding(r) /\ r.s[i].lvl = l
        BY <1>3 DEF OutstandingAt
      <4> QED BY <1>2, <2>2, <4>1
    <3> HIDE DEF z, y, x, r, lost
    <3>9. /\ y \in States /\ y.rec = z.rec /\ y.probe = z.probe
          /\ y.crypto_acked = z.crypto_acked
          /\ \A k \in {0, 1} : y.ret_sent[k] <= z.ret_sent[k]
          /\ l \in {0, 1} /\ l \in tx =>
               \A i \in lost : r.s[i].len > 0 => y.ret_sent[l] <= r.s[i].off
      BY <1>1, <3>1, <3>7, <3>8, ResumeKeeps
    <3> QED BY <3>6, <3>7, <3>8, <3>9
  <2> QED BY <2>1, <2>2
<1> HIDE DEF y
<1>6. Loses(q, y, l, lost)
  BY <1>3, <1>4, <1>5 DEF Loses
<1>7. Follows(q, y, l, lost)
  <2>1. \A k \in Lvls : /\ y.probe[k] # 0 => k \in tx
                        /\ y.rec.largest_acked[k] < tx_pn[k]
                        /\ q.crypto_acked[k] \subseteq y.crypto_acked[k]
                        /\ tx_pn[k] = 0 => y.crypto_acked[k] = {}
    BY <1>5 DEF Kept, Booked
  <2>2. ASSUME l \in {0, 1}, NEW i \in lost,
               NEW b \in r.s[i].off..(r.s[i].off + r.s[i].len - 1), b < y.ret_sent[l]
        PROVE  b \in y.crypto_acked[l]
    <3>1. r.s[i].off \in Nat /\ r.s[i].len \in Nat
      BY <1>1, <1>3, RecordTypes
    <3>2. r.s[i].len > 0 /\ r.s[i].off <= b
      BY <3>1
    <3>3. y.ret_sent[l] <= r.s[i].off /\ y.ret_sent[l] \in Nat
      BY <1>5, <2>2, <3>2 DEF States
    <3> HIDE DEF r
    <3> QED BY <2>2, <3>1, <3>2, <3>3
  <2>3. ASSUME ~y.rec.hs_acked, ~confirmed
        PROVE  /\ l = 1 => lost = {}
               /\ y.rec.largest_acked[1] = r.largest_acked[1]
               /\ y.crypto_acked[1] = q.crypto_acked[1] /\ y.probe[2] = 0
    <3>1. r.largest_acked[1] = NONE /\ q.probe[2] = 0
      BY <1>5, <2>3 DEF Kept, Unvalidated
    <3>2. ASSUME l = 1, NEW i \in lost PROVE FALSE
      <4>1. r.s[i].pn <= NONE
        BY <1>3, <3>1, <3>2 DEF BelowOf
      <4>2. r.s[i].pn \in Nat
        BY <1>1, <1>3, RecordTypes
      <4> QED BY <4>1, <4>2 DEF NONE
    <3> QED BY <1>5, <3>1, <3>2
  <2> QED BY <1>5, <2>1, <2>2, <2>3 DEF Follows
<1>8. Kept(y)
  <2> HIDE DEF lost
  <2> QED BY <1>5, <1>6, <1>7, LosesKeeps
<1>9. /\ \A k : OutstandingAt(y.rec, k) = OutstandingAt(r, k) \ lost
      /\ \A k : k # l => OutstandingAt(y.rec, k) = OutstandingAt(r, k)
      /\ \A i \in Outstanding(y.rec) : y.rec.s[i] = r.s[i]
  <2> HIDE DEF lost
  <2> QED BY <1>1, <1>5, <1>6, LosesRecords
<1>10. \A k \in Lvls \ {l} : OvertakenAt(y.rec, k)
  <2> SUFFICES ASSUME NEW k \in Lvls \ {l}, y.rec.loss_time[k] # INT64_MAX
               PROVE  \E i \in OutstandingAt(y.rec, k) : y.rec.s[i].pn <= y.rec.largest_acked[k]
    BY DEF OvertakenAt
  <2>1. r.loss_time[k] # INT64_MAX
    BY <1>4, <1>5
  <2>2. PICK i \in OutstandingAt(r, k) : r.s[i].pn <= r.largest_acked[k]
    BY <2>1 DEF OvertakenAt
  <2>3. i \in OutstandingAt(y.rec, k) /\ y.rec.s[i] = r.s[i]
    BY <1>9, <2>2 DEF OutstandingAt
  <2> QED BY <1>5, <2>2, <2>3
<1>11. OvertakenAt(y.rec, l)
  <2> SUFFICES ASSUME y.rec.loss_time[l] # INT64_MAX
               PROVE  \E i \in OutstandingAt(y.rec, l) : y.rec.s[i].pn <= y.rec.largest_acked[l]
    BY DEF OvertakenAt
  <2>1. PICK i \in BelowOf(r, l) \ lost : TRUE
    BY <1>4, <1>5
  <2>2. i \in OutstandingAt(y.rec, l) /\ r.s[i].pn <= r.largest_acked[l]
    BY <1>9, <2>1 DEF BelowOf
  <2>3. y.rec.s[i] = r.s[i]
    BY <1>9, <2>2 DEF OutstandingAt
  <2> QED BY <1>5, <2>2, <2>3
<1> QED BY <1>8, <1>10, <1>11, OvertakenSplit DEF y

-----------------------------------------------------------------------------
(* Acknowledgements *)

\* When the records stay, nothing is lost.
LEMMA LosesNothing ==
    ASSUME NEW q \in States, NEW y \in States, NEW l, y.rec.s = q.rec.s,
           y.rec.in_flight = q.rec.in_flight, y.rec.last_elicit = q.rec.last_elicit,
           q.rec.hs_acked => y.rec.hs_acked, Steady(y.rec)
    PROVE  Loses(q, y, l, {})
<1>1. SizeOf(q.rec, {}) = 0
  BY SumEmpty DEF SizeOf
<1>2. q.rec.in_flight \in Nat
  BY DEF States, Recovery
<1>3. q.rec.in_flight = q.rec.in_flight - SizeOf(q.rec, {})
  BY <1>1, <1>2
<1> QED BY <1>3 DEF Loses

\* The backoff may start again at any time.
LEMMA BackoffKeeps ==
    ASSUME NEW q, Kept(q), Overtaken(q.rec), Context, NEW n \in 0..PTO_CAP
    PROVE  /\ Kept([q EXCEPT !.rec.pto_count = n])
           /\ Overtaken([q EXCEPT !.rec.pto_count = n].rec)
<1> DEFINE y == [q EXCEPT !.rec.pto_count = n]
<1>1. q \in States /\ q.rec \in Recovery /\ Steady(q.rec)
  BY DEF Kept, States, Booked, Steady
<1>2. y \in States /\ y.probe = q.probe /\ y.ret_sent = q.ret_sent
      /\ y.crypto_acked = q.crypto_acked /\ y.rec = [q.rec EXCEPT !.pto_count = n]
  BY <1>1 DEF States, Recovery
<1> HIDE DEF y
<1>3. /\ y.rec.s = q.rec.s /\ y.rec.in_flight = q.rec.in_flight
      /\ y.rec.last_elicit = q.rec.last_elicit /\ y.rec.hs_acked = q.rec.hs_acked
      /\ y.rec.largest_acked = q.rec.largest_acked /\ y.rec.loss_time = q.rec.loss_time
      /\ y.rec.recovery_start = q.rec.recovery_start /\ y.rec.cwnd = q.rec.cwnd
  BY <1>1, <1>2 DEF Recovery
<1>4. Steady(y.rec)
  BY <1>1, <1>3 DEF Steady
<1>5. Loses(q, y, 0, {})
  BY <1>1, <1>2, <1>3, <1>4, LosesNothing
<1>6. Follows(q, y, 0, {})
  <2>1. \A k \in {0, 1} : q.ret_sent[k] \in Nat
    BY <1>1 DEF States
  <2>2. \A k \in {0, 1} : y.ret_sent[k] <= q.ret_sent[k]
    BY <1>2, <2>1
  <2> QED BY <1>2, <1>3, <2>2 DEF Follows, Kept, Booked, Unvalidated
<1>7. Kept(y)
  <2>1. 0 \in Lvls
    BY DEF Lvls
  <2> QED BY <1>2, <1>5, <1>6, <2>1, LosesKeeps
<1>8. Overtaken(y.rec)
  <2>1. \A l \in Lvls : OutstandingAt(y.rec, l) = OutstandingAt(q.rec, l)
    BY <1>3, SameRecords
  <2> QED BY <1>3, <2>1 DEF Overtaken, loss_armed
<1> QED BY <1>7, <1>8 DEF y

\* The values rec_on_ack computes.
Marked(r, l, S) ==
    [r EXCEPT !.hs_acked = @ \/ l = 1, !.largest_acked[l] = MaxOf(@, LastTime(S))]
AckedOf(r, l, S) == {i \in OutstandingAt(r, l) : r.s[i].pn \in S}
NewestOf(r, l, S) == {i \in AckedOf(r, l, S) : r.s[i].pn = LastTime(S)}
WindowOf(r, l, S) == Window(r, S, AckedOf(r, l, S), r.in_flight + MDS > r.cwnd)
Removed(r, l, S) ==
    [Freed(Marked(r, l, S), AckedOf(r, l, S)) EXCEPT
        !.in_flight = @ - SizeOf(r, AckedOf(r, l, S)),
        !.cwnd = WindowOf(r, l, S).cwnd, !.ca_acc = WindowOf(r, l, S).ca_acc]
Sampled(r, l, S, ad) ==
    IF NewestOf(r, l, S) # {} /\ \E i \in AckedOf(r, l, S) : r.s[i].elicit
    THEN update_rtt(Removed(r, l, S), now - r.s[CHOOSE i \in NewestOf(r, l, S) : TRUE].t,
                    IF l = 0 THEN 0 ELSE ad)
    ELSE Removed(r, l, S)
Told(q, l, S, ad) ==
    [q EXCEPT !.rec = Sampled(q.rec, l, S, ad),
              !.crypto_acked[l] = @ \cup CryptoBytes(q.rec, AckedOf(q.rec, l, S), l)]

\* rec_on_ack is made of them.
LEMMA AckSteps ==
    ASSUME NEW q, NEW l, NEW S, NEW ad
    PROVE  rec_on_ack(q, l, S, ad) =
             IF AckedOf(q.rec, l, S) = {} THEN [q EXCEPT !.rec = Marked(q.rec, l, S)]
             ELSE IF Marked(q.rec, l, S).hs_acked \/ confirmed
             THEN [detect_lost(Told(q, l, S, ad), l, S) EXCEPT !.rec.pto_count = 0]
             ELSE detect_lost(Told(q, l, S, ad), l, S)
BY DEF rec_on_ack, Marked, AckedOf, NewestOf, WindowOf, Removed, Sampled, Told

\* The mark of the largest acknowledged packet only rises, to a packet that was sent.
LEMMA MarkedKeeps ==
    ASSUME NEW r \in Recovery, NEW l \in Lvls, NEW n \in Nat, NEW S \in SUBSET (0..(n - 1)), S # {},
           r.largest_acked[l] < n
    PROVE  LET x == Marked(r, l, S) IN
           /\ x \in Recovery
           /\ x.hs_acked = (r.hs_acked \/ l = 1)
           /\ \A k \in Lvls \ {l} : x.largest_acked[k] = r.largest_acked[k]
           /\ r.largest_acked[l] <= x.largest_acked[l] /\ x.largest_acked[l] < n
           /\ x.s = r.s /\ x.in_flight = r.in_flight /\ x.loss_time = r.loss_time
           /\ x.last_elicit = r.last_elicit /\ x.recovery_start = r.recovery_start
           /\ x.cwnd = r.cwnd
<1> DEFINE m == MaxOf(r.largest_acked[l], LastTime(S))
           x == Marked(r, l, S)
<1>1. LastTime(S) \in S
  <2>1. n \in Nat /\ S \subseteq -1..n
    OBVIOUS
  <2> QED BY <2>1, LastTimeIn
<1>2. r.largest_acked[l] \in Nat \cup {NONE} /\ LastTime(S) \in Nat /\ LastTime(S) < n
  <2>1. LastTime(S) \in 0..(n - 1)
    BY <1>1
  <2>2. LastTime(S) \in Nat /\ LastTime(S) < n
    BY <2>1
  <2>3. r.largest_acked[l] \in Nat \cup {NONE}
    BY DEF Recovery
  <2> QED BY <2>2, <2>3
<1>3. m \in Nat /\ m < n /\ r.largest_acked[l] <= m
  <2> HIDE DEF m
  <2>1. m = MaxOf(r.largest_acked[l], LastTime(S))
    BY DEF m
  <2> QED BY <1>2, <2>1 DEF MaxOf, NONE
<1>4. x = [r EXCEPT !.hs_acked = r.hs_acked \/ l = 1, !.largest_acked[l] = m]
  BY DEF Marked
<1> HIDE DEF m, x
<1>5. x \in Recovery
  <2>1. r.hs_acked \in BOOLEAN /\ (r.hs_acked \/ l = 1) \in BOOLEAN
    BY DEF Recovery
  <2> QED BY <1>3, <1>4, <2>1 DEF Recovery
<1>6. /\ x.hs_acked = (r.hs_acked \/ l = 1) /\ x.largest_acked = [r.largest_acked EXCEPT ![l] = m]
      /\ x.s = r.s /\ x.in_flight = r.in_flight /\ x.loss_time = r.loss_time
      /\ x.last_elicit = r.last_elicit /\ x.recovery_start = r.recovery_start
      /\ x.cwnd = r.cwnd
  BY <1>4 DEF Recovery
<1>7. x.largest_acked[l] = m /\ \A k \in Lvls \ {l} : x.largest_acked[k] = r.largest_acked[k]
  BY <1>6 DEF Recovery
<1> QED BY <1>3, <1>5, <1>6, <1>7 DEF x

\* Acknowledged records go, the window and the estimates follow.
LEMMA ToldKeeps ==
    ASSUME NEW q, Kept(q), Context, NEW l \in tx, NEW S \in SUBSET (0..(tx_pn[l] - 1)), S # {},
           NEW ad \in Nat
    PROVE  LET x == Sampled(q.rec, l, S, ad)
               m == Marked(q.rec, l, S)
               A == AckedOf(q.rec, l, S)
           IN
           /\ x \in Recovery /\ Steady(x)
           /\ \A i \in Slots : x.s[i] = IF i \in A THEN Free ELSE q.rec.s[i]
           /\ x.in_flight = q.rec.in_flight - SizeOf(q.rec, A)
           /\ x.largest_acked = m.largest_acked /\ x.hs_acked = m.hs_acked
           /\ x.loss_time = q.rec.loss_time /\ x.last_elicit = q.rec.last_elicit
<1> DEFINE r == q.rec
           m == Marked(r, l, S)
           A == AckedOf(r, l, S)
           w == WindowOf(r, l, S)
           z == Freed(m, A)
           y == Removed(r, l, S)
           lat == now - r.s[CHOOSE i \in NewestOf(r, l, S) : TRUE].t
           Fields(x) ==
               /\ x.s = z.s /\ x.in_flight = r.in_flight - SizeOf(r, A)
               /\ x.largest_acked = m.largest_acked /\ x.hs_acked = m.hs_acked
               /\ x.loss_time = r.loss_time /\ x.last_elicit = r.last_elicit
<1>1. q \in States /\ r \in Recovery /\ Accounted(r) /\ Steady(r) /\ l \in Lvls
  BY DEF Kept, States, Booked, Steady, Context
<1>2. /\ A \subseteq OutstandingAt(r, l) /\ OutstandingAt(r, l) \subseteq Outstanding(r)
      /\ Outstanding(r) \subseteq Slots /\ A \subseteq Outstanding(r) /\ IsFiniteSet(A)
      /\ \A i \in A : r.s[i].pn \in S
  BY <1>1, RecordSets DEF AckedOf
<1>3. /\ m \in Recovery /\ m.s = r.s /\ m.in_flight = r.in_flight /\ m.loss_time = r.loss_time
      /\ m.last_elicit = r.last_elicit /\ m.recovery_start = r.recovery_start /\ m.cwnd = r.cwnd
  <2>1. r.largest_acked[l] < tx_pn[l] /\ tx_pn[l] \in Nat
    BY <1>1 DEF Kept, Booked, Context
  <2> HIDE DEF r
  <2> QED BY <1>1, <2>1, MarkedKeeps
<1>4. w \in Windows /\ r.cwnd <= w.cwnd
  <2>1. (r.in_flight + MDS > r.cwnd) \in BOOLEAN
    OBVIOUS
  <2> HIDE DEF r
  <2> QED BY <1>1, <1>2, <2>1, WindowTyped DEF WindowOf
<1>5. r.in_flight - SizeOf(r, A) \in Nat
  <2>1. SizeOf(r, A) \in Nat /\ SizeOf(r, Outstanding(r)) \in Nat
        /\ SizeOf(r, A) <= SizeOf(r, Outstanding(r))
    <3> HIDE DEF r, A
    <3> QED BY <1>1, <1>2, SizePart
  <2>2. r.in_flight = SizeOf(r, Outstanding(r))
    BY <1>1 DEF Accounted
  <2> HIDE DEF r, A
  <2> QED BY <2>1, <2>2
<1>6. z \in Recovery /\ (\A i \in Slots : z.s[i] = IF i \in A THEN Free ELSE r.s[i])
      /\ z.in_flight = r.in_flight /\ z.largest_acked = m.largest_acked
      /\ z.last_elicit = r.last_elicit /\ z.loss_time = r.loss_time /\ z.hs_acked = m.hs_acked
      /\ z.recovery_start = r.recovery_start /\ z.cwnd = r.cwnd
  <2> HIDE DEF r, m, A
  <2> QED BY <1>3, FreedRecords, FreedFields
<1>7. y = [z EXCEPT !.in_flight = r.in_flight - SizeOf(r, A), !.cwnd = w.cwnd, !.ca_acc = w.ca_acc]
  <2>1. y = [z EXCEPT !.in_flight = z.in_flight - SizeOf(r, A), !.cwnd = w.cwnd,
                      !.ca_acc = w.ca_acc]
    BY DEF Removed
  <2> HIDE DEF y, z, r, A, w
  <2> QED BY <1>6, <2>1
<1> HIDE DEF z, w, y
<1>8. y \in Recovery /\ Fields(y) /\ Steady(y)
  <2> DEFINE n == r.in_flight - SizeOf(r, A)
  <2>1. n \in Nat /\ w.cwnd \in Nat /\ w.ca_acc \in Nat
    BY <1>4, <1>5 DEF Windows
  <2>2. y = [z EXCEPT !.in_flight = n, !.cwnd = w.cwnd, !.ca_acc = w.ca_acc]
    BY <1>7
  <2> HIDE DEF n, r, m, A
  <2>3. y \in Recovery
    BY <1>6, <2>1, <2>2 DEF Recovery
  <2>4. /\ y.s = z.s /\ y.in_flight = n /\ y.largest_acked = z.largest_acked
        /\ y.hs_acked = z.hs_acked /\ y.loss_time = z.loss_time /\ y.last_elicit = z.last_elicit
        /\ y.recovery_start = z.recovery_start /\ y.cwnd = w.cwnd
    BY <1>6, <2>2 DEF Recovery
  <2>5. y.cwnd >= MINWIN
    <3>1. r.cwnd \in Nat /\ MINWIN \in Nat /\ r.cwnd >= MINWIN
      BY <1>1, ConstantTypes DEF Recovery, Steady
    <3> QED BY <1>4, <2>1, <2>4, <3>1
  <2>6. Steady(y)
    BY <1>1, <1>6, <2>4, <2>5 DEF Steady
  <2> QED BY <1>6, <2>3, <2>4, <2>6 DEF n
<1>9. ASSUME NewestOf(r, l, S) # {}
      PROVE  lat \in Nat
  <2>1. (CHOOSE i \in NewestOf(r, l, S) : TRUE) \in NewestOf(r, l, S)
    BY <1>9
  <2>2. PICK i \in NewestOf(r, l, S) : lat = now - r.s[i].t
    BY <2>1
  <2>3. i \in Outstanding(r) /\ i \in Slots
    BY <1>2 DEF NewestOf
  <2>4. r.s[i].t \in Nat /\ r.s[i].t <= now /\ now \in Nat
    BY <1>1, <2>3, RecordTypes DEF Kept, Booked, Context
  <2> HIDE DEF r, lat
  <2> QED BY <2>2, <2>4
<1>10. /\ Sampled(r, l, S, ad) \in Recovery /\ Fields(Sampled(r, l, S, ad))
       /\ Steady(Sampled(r, l, S, ad))
  <2>1. CASE NewestOf(r, l, S) # {} /\ \E i \in A : r.s[i].elicit
    <3> DEFINE d == IF l = 0 THEN 0 ELSE ad
               u == update_rtt(y, lat, d)
    <3>1. Sampled(r, l, S, ad) = u
      BY <2>1 DEF Sampled, y
    <3>2. lat \in Nat /\ d \in Nat /\ now \in 0..INT64_MAX
      BY <1>9, <2>1, ConstantTypes DEF Context
    <3>3. u \in Recovery /\ SameBooks(y, u) /\ Steady(u)
      <4> HIDE DEF lat, d
      <4> QED BY <1>8, <3>2, RttKeeps
    <3>4. Fields(u)
      <4> HIDE DEF u, r, m, A
      <4> QED BY <1>8, <3>3 DEF SameBooks
    <3> QED BY <3>1, <3>3, <3>4
  <2>2. CASE ~(NewestOf(r, l, S) # {} /\ \E i \in A : r.s[i].elicit)
    <3>1. Sampled(r, l, S, ad) = y
      BY <2>2 DEF Sampled, y
    <3> QED BY <1>8, <3>1
  <2> QED BY <2>1, <2>2
<1> QED BY <1>6, <1>10

\* What reap does with an acknowledgement keeps the invariant, before losses are looked for.
LEMMA ReapKeeps ==
    ASSUME NEW q, Kept(q), Overtaken(q.rec), Context,
           NEW l \in tx, NEW S \in SUBSET (0..(tx_pn[l] - 1)), S # {}, NEW ad \in Nat
    PROVE  LET z == Told(q, l, S, ad) IN Kept(z) /\ \A k \in Lvls \ {l} : OvertakenAt(z.rec, k)
<1> DEFINE r == q.rec
           m == Marked(r, l, S)
           A == AckedOf(r, l, S)
           x == Sampled(r, l, S, ad)
           bytes == CryptoBytes(r, A, l)
           z == Told(q, l, S, ad)
<1>1. q \in States /\ r \in Recovery /\ l \in Lvls /\ r.largest_acked[l] < tx_pn[l]
      /\ tx_pn[l] \in Nat
  BY DEF Kept, States, Booked, Context
<1>2. /\ x \in Recovery /\ Steady(x)
      /\ \A i \in Slots : x.s[i] = IF i \in A THEN Free ELSE r.s[i]
      /\ x.in_flight = r.in_flight - SizeOf(r, A)
      /\ x.largest_acked = m.largest_acked /\ x.hs_acked = m.hs_acked
      /\ x.loss_time = r.loss_time /\ x.last_elicit = r.last_elicit
  BY ToldKeeps
<1>3. /\ m.hs_acked = (r.hs_acked \/ l = 1)
      /\ \A k \in Lvls \ {l} : m.largest_acked[k] = r.largest_acked[k]
      /\ m.largest_acked[l] < tx_pn[l]
  <2> HIDE DEF r
  <2> QED BY <1>1, MarkedKeeps
<1>4. A \subseteq OutstandingAt(r, l) /\ A \subseteq Slots /\ A \subseteq Outstanding(r)
  BY <1>1, RecordSets DEF AckedOf
<1>5. bytes \subseteq Nat
  <2>1. \A i \in A : r.s[i].off \in Nat /\ r.s[i].len \in Nat
    BY <1>1, <1>4, RecordTypes
  <2>2. \A i \in A : r.s[i].off..(r.s[i].off + r.s[i].len - 1) \subseteq Nat
    BY <2>1
  <2> QED BY <2>2 DEF CryptoBytes
<1> HIDE DEF x, bytes
<1>6. /\ z \in States /\ z.rec = x /\ z.probe = q.probe /\ z.ret_sent = q.ret_sent
      /\ z.crypto_acked = [q.crypto_acked EXCEPT ![l] = q.crypto_acked[l] \cup bytes]
  <2>1. z = [q EXCEPT !.rec = x, !.crypto_acked[l] = q.crypto_acked[l] \cup bytes]
    BY DEF Told, x, bytes
  <2>2. q.crypto_acked \in [Lvls -> SUBSET Nat]
    BY <1>1 DEF States
  <2>3. q.crypto_acked[l] \cup bytes \in SUBSET Nat
    BY <1>1, <1>5, <2>2
  <2> HIDE DEF z
  <2> QED BY <1>1, <1>2, <2>1, <2>3 DEF States
<1>7. /\ z.crypto_acked[l] = q.crypto_acked[l] \cup bytes
      /\ \A k \in Lvls \ {l} : z.crypto_acked[k] = q.crypto_acked[k]
  BY <1>1, <1>6 DEF States
<1> HIDE DEF z
<1>8. Loses(q, z, l, A)
  BY <1>2, <1>3, <1>4, <1>6 DEF Loses
<1>9. Follows(q, z, l, A)
  <2>1. ASSUME NEW k \in Lvls
        PROVE  /\ z.probe[k] # 0 => k \in tx
               /\ z.rec.largest_acked[k] < tx_pn[k]
               /\ q.crypto_acked[k] \subseteq z.crypto_acked[k]
               /\ tx_pn[k] = 0 => z.crypto_acked[k] = {}
    <3>1. /\ q.probe[k] # 0 => k \in tx
          /\ r.largest_acked[k] < tx_pn[k]
          /\ tx_pn[k] = 0 => q.crypto_acked[k] = {}
      BY DEF Kept, Booked
    <3>2. tx_pn[l] # 0
      <4>1. PICK n \in 0..(tx_pn[l] - 1) : n \in S
        OBVIOUS
      <4> QED BY <1>1, <4>1
    <3>3. CASE k = l
      BY <1>2, <1>3, <1>6, <1>7, <3>1, <3>2, <3>3
    <3>4. CASE k # l
      BY <1>2, <1>3, <1>6, <1>7, <3>1, <3>4
    <3> QED BY <3>3, <3>4
  <2>2. \A k \in {0, 1} : q.ret_sent[k] \in Nat
    BY <1>1 DEF States
  <2>3. \A k \in {0, 1} : z.ret_sent[k] <= q.ret_sent[k]
    BY <1>6, <2>2
  <2>4. \A i \in A : \A b \in r.s[i].off..(r.s[i].off + r.s[i].len - 1) : b \in z.crypto_acked[l]
    BY <1>7, CryptoBytesIn DEF bytes
  <2>5. ASSUME ~z.rec.hs_acked, ~confirmed
        PROVE  /\ l = 1 => A = {}
               /\ z.rec.largest_acked[1] = r.largest_acked[1]
               /\ z.crypto_acked[1] = q.crypto_acked[1] /\ z.probe[2] = 0
    <3>1. l # 1 /\ ~r.hs_acked /\ 1 \in Lvls \ {l}
      <4>1. ~(r.hs_acked \/ l = 1)
        BY <1>2, <1>3, <1>6, <2>5
      <4>2. 1 \in Lvls
        BY DEF Lvls
      <4> QED BY <4>1, <4>2
    <3>2. q.probe[2] = 0
      BY <2>5, <3>1 DEF Kept, Unvalidated
    <3> QED BY <1>2, <1>3, <1>6, <1>7, <3>1, <3>2
  <2> QED BY <2>1, <2>3, <2>4, <2>5 DEF Follows
<1>10. Kept(z)
  <2> HIDE DEF A
  <2> QED BY <1>1, <1>6, <1>8, <1>9, LosesKeeps
<1>11. /\ \A k : k # l => OutstandingAt(z.rec, k) = OutstandingAt(r, k)
       /\ \A i \in Outstanding(z.rec) : z.rec.s[i] = r.s[i]
  <2> HIDE DEF A
  <2> QED BY <1>1, <1>6, <1>8, LosesRecords
<1>12. ASSUME NEW k \in Lvls \ {l}
       PROVE  OvertakenAt(z.rec, k)
  <2>1. OvertakenAt(r, k)
    BY OvertakenSplit
  <2>2. \A i \in OutstandingAt(z.rec, k) : z.rec.s[i] = r.s[i]
    BY <1>11 DEF OutstandingAt
  <2>3. OutstandingAt(z.rec, k) = OutstandingAt(r, k)
    BY <1>11
  <2>4. z.rec.loss_time[k] = r.loss_time[k] /\ z.rec.largest_acked[k] = r.largest_acked[k]
    BY <1>2, <1>3, <1>6
  <2> QED BY <2>1, <2>2, <2>3, <2>4 DEF OvertakenAt
<1> QED BY <1>10, <1>12 DEF z

\* A frame that acknowledges nothing in flight still raises the mark.
LEMMA MarkOnlyKeeps ==
    ASSUME NEW q, Kept(q), Overtaken(q.rec), Context,
           NEW l \in tx, NEW S \in SUBSET (0..(tx_pn[l] - 1)), S # {}
    PROVE  LET y == [q EXCEPT !.rec = Marked(q.rec, l, S)] IN Kept(y) /\ Overtaken(y.rec)
<1> DEFINE r == q.rec
           m == Marked(r, l, S)
           y == [q EXCEPT !.rec = m]
<1>1. q \in States /\ r \in Recovery /\ Steady(r) /\ l \in Lvls /\ r.largest_acked[l] < tx_pn[l]
      /\ tx_pn[l] \in Nat
  BY DEF Kept, States, Booked, Steady, Context
<1>2. /\ m \in Recovery
      /\ m.hs_acked = (r.hs_acked \/ l = 1)
      /\ \A k \in Lvls \ {l} : m.largest_acked[k] = r.largest_acked[k]
      /\ r.largest_acked[l] <= m.largest_acked[l] /\ m.largest_acked[l] < tx_pn[l]
      /\ m.s = r.s /\ m.in_flight = r.in_flight /\ m.loss_time = r.loss_time
      /\ m.last_elicit = r.last_elicit /\ m.recovery_start = r.recovery_start
      /\ m.cwnd = r.cwnd
  <2> HIDE DEF r
  <2> QED BY <1>1, MarkedKeeps
<1> HIDE DEF m
<1>3. y \in States /\ y.rec = m /\ y.probe = q.probe /\ y.ret_sent = q.ret_sent
      /\ y.crypto_acked = q.crypto_acked
  BY <1>1, <1>2 DEF States
<1> HIDE DEF y
<1>4. Loses(q, y, l, {})
  <2>1. Steady(m)
    BY <1>1, <1>2 DEF Steady
  <2> QED BY <1>1, <1>2, <1>3, <2>1, LosesNothing
<1>5. Follows(q, y, l, {})
  <2>1. ASSUME NEW k \in Lvls
        PROVE  /\ y.probe[k] # 0 => k \in tx
               /\ y.rec.largest_acked[k] < tx_pn[k]
               /\ q.crypto_acked[k] \subseteq y.crypto_acked[k]
               /\ tx_pn[k] = 0 => y.crypto_acked[k] = {}
    <3>1. /\ q.probe[k] # 0 => k \in tx
          /\ r.largest_acked[k] < tx_pn[k]
          /\ tx_pn[k] = 0 => q.crypto_acked[k] = {}
      BY DEF Kept, Booked
    <3>2. y.rec.largest_acked[k] < tx_pn[k]
      BY <1>2, <1>3, <3>1
    <3> QED BY <1>3, <3>1, <3>2
  <2>2. \A k \in {0, 1} : q.ret_sent[k] \in Nat
    BY <1>1 DEF States
  <2>3. \A k \in {0, 1} : y.ret_sent[k] <= q.ret_sent[k]
    BY <1>3, <2>2
  <2>4. ASSUME ~y.rec.hs_acked, ~confirmed
        PROVE  y.rec.largest_acked[1] = r.largest_acked[1] /\ y.probe[2] = 0
    <3>1. l # 1 /\ ~r.hs_acked /\ 1 \in Lvls \ {l}
      <4>1. ~(r.hs_acked \/ l = 1)
        BY <1>2, <1>3, <2>4
      <4>2. 1 \in Lvls
        BY DEF Lvls
      <4> QED BY <4>1, <4>2
    <3>2. q.probe[2] = 0
      BY <2>4, <3>1 DEF Kept, Unvalidated
    <3> QED BY <1>2, <1>3, <3>1, <3>2
  <2> QED BY <1>3, <2>1, <2>3, <2>4 DEF Follows
<1>6. Kept(y)
  BY <1>1, <1>3, <1>4, <1>5, LosesKeeps
<1>7. Overtaken(y.rec)
  <2> SUFFICES ASSUME NEW k \in Lvls, y.rec.loss_time[k] # INT64_MAX
               PROVE  \E i \in OutstandingAt(y.rec, k) : y.rec.s[i].pn <= y.rec.largest_acked[k]
    BY OvertakenSplit DEF OvertakenAt
  <2>1. PICK i \in OutstandingAt(r, k) : r.s[i].pn <= r.largest_acked[k]
    BY <1>2, <1>3, OvertakenSplit DEF OvertakenAt
  <2>2. i \in OutstandingAt(y.rec, k) /\ y.rec.s[i] = r.s[i]
    BY <1>2, <1>3, <2>1, SameRecords
  <2>3. r.s[i].pn \in Nat /\ r.largest_acked[k] \in Nat \cup {NONE}
        /\ m.largest_acked[k] \in Nat \cup {NONE} /\ r.largest_acked[k] <= m.largest_acked[k]
    <3>1. i \in Outstanding(r) /\ i \in Slots
      BY <1>1, <2>1, RecordSets
    <3>2. r.largest_acked[k] \in Nat \cup {NONE} /\ m.largest_acked[k] \in Nat \cup {NONE}
      BY <1>1, <1>2 DEF Recovery
    <3>3. r.largest_acked[k] <= m.largest_acked[k]
      BY <1>2, <3>2 DEF NONE
    <3> QED BY <1>1, <3>1, <3>2, <3>3, RecordTypes
  <2>4. r.s[i].pn <= m.largest_acked[k]
    BY <2>1, <2>3 DEF NONE
  <2> QED BY <1>3, <2>2, <2>4
<1> QED BY <1>6, <1>7 DEF y, m

\* An ACK frame keeps the invariant, whichever of the packets sent it acknowledges.
LEMMA AckKeeps ==
    ASSUME NEW q, Kept(q), Overtaken(q.rec), Context,
           NEW l \in tx, NEW S \in SUBSET (0..(tx_pn[l] - 1)), S # {}, NEW ad \in Nat
    PROVE  Kept(rec_on_ack(q, l, S, ad)) /\ Overtaken(rec_on_ack(q, l, S, ad).rec)
<1> DEFINE z == Told(q, l, S, ad)
           d == detect_lost(z, l, S)
<1>1. Kept(z) /\ \A k \in Lvls \ {l} : OvertakenAt(z.rec, k)
  BY ReapKeeps
<1>2. Kept(d) /\ Overtaken(d.rec)
  <2>1. l \in Lvls
    BY DEF Context
  <2> HIDE DEF z
  <2> QED BY <1>1, <2>1, DetectKeeps
<1>3. Kept([d EXCEPT !.rec.pto_count = 0]) /\ Overtaken([d EXCEPT !.rec.pto_count = 0].rec)
  <2>1. 0 \in 0..PTO_CAP
    BY ConstantTypes
  <2> HIDE DEF d
  <2> QED BY <1>2, <2>1, BackoffKeeps
<1>4. \/ rec_on_ack(q, l, S, ad) = [q EXCEPT !.rec = Marked(q.rec, l, S)]
      \/ rec_on_ack(q, l, S, ad) = [d EXCEPT !.rec.pto_count = 0]
      \/ rec_on_ack(q, l, S, ad) = d
  BY AckSteps
<1>5. LET y == [q EXCEPT !.rec = Marked(q.rec, l, S)] IN Kept(y) /\ Overtaken(y.rec)
  BY MarkOnlyKeeps
<1> HIDE DEF d
<1> QED BY <1>2, <1>3, <1>4, <1>5

-----------------------------------------------------------------------------
(* Timers *)

\* The backoff is a natural number, however often the probe timer ran out.
LEMMA BackoffNat ==
    ASSUME NEW r \in Recovery, NEW d \in Nat
    PROVE  Backoff(d, r) \in Nat
<1> DEFINE n == r.pto_count
<1>1. n \in Nat
  BY ConstantTypes DEF Recovery
<1>2. IsFiniteSet(1..n) /\ Cardinality(1..n) = n
  <2>1. 1 \in Int /\ n \in Int
    BY <1>1
  <2>2. IsFiniteSet(1..n) /\ Cardinality(1..n) = IF 1 > n THEN 0 ELSE n - 1 + 1
    <3> HIDE DEF n
    <3> QED BY <2>1, FS_Interval
  <2> HIDE DEF n
  <2> QED BY <1>1, <2>2
<1>3. IsFiniteSet(SUBSET (1..n)) /\ Cardinality(SUBSET (1..n)) = 2 ^ n
  <2> HIDE DEF n
  <2> QED BY <1>2, FS_SUBSET
<1>4. Cardinality(SUBSET (1..n)) \in Nat
  BY <1>3, FS_CardinalityType
<1> DEFINE m == 2 ^ n
<1>5. m \in Nat
  BY <1>3, <1>4
<1>6. d * m \in Nat
  <2> HIDE DEF m
  <2> QED BY <1>5
<1> QED BY <1>6 DEF Backoff

\* Among some levels, one is the earliest, and the lowest of those.
LEMMA EarliestExists ==
    ASSUME NEW W, W \subseteq Lvls, W # {}, NEW at, \A l \in W : at[l] \in Int /\ -1 <= at[l]
    PROVE  \E l \in W : \A k \in W : at[l] < at[k] \/ (at[l] = at[k] /\ l <= k)
<1> DEFINE T == {at[l] + 1 : l \in W}
<1>1. PICK n \in T : \A m \in T : n <= m
  <2>1. \A l \in W : at[l] + 1 \in Nat
    OBVIOUS
  <2>2. T \in SUBSET Nat /\ T # {}
    BY <2>1
  <2> QED BY <2>2, LeastNatural
<1> DEFINE M == {l \in W : at[l] + 1 = n}
<1>2. PICK l \in M : \A k \in M : l <= k
  <2>1. \A l \in W : l \in Nat
    BY DEF Lvls
  <2>2. M \in SUBSET Nat /\ M # {}
    BY <1>1, <2>1
  <2> QED BY <2>2, LeastNatural
<1>3. \A k \in W : at[l] + 1 <= at[k] + 1
  BY <1>1, <1>2
<1>4. ASSUME NEW k \in W
      PROVE  at[l] < at[k] \/ (at[l] = at[k] /\ l <= k)
  <2>1. at[l] \in Int /\ at[k] \in Int /\ at[l] + 1 <= at[k] + 1
    BY <1>2, <1>3
  <2>2. CASE at[l] = at[k]
    BY <1>2, <2>2
  <2>3. CASE at[l] # at[k]
    BY <2>1, <2>3
  <2> QED BY <2>2, <2>3
<1> QED BY <1>2, <1>4

\* The levels whose packets the probe timer waits for.
Waiting(r) == {l \in Lvls : elicit_out(r, l) /\ (l = 2 => confirmed)}
Wait(r, l) ==
    LET dur == Backoff(r.srtt + MaxOf(4 * r.rttvar, 1), r)
    IN  IF l = 2 THEN dur + Backoff(MAD, r) ELSE dur

\* The probe timeout is about a level it may wait for, before the time that means never.
LEMMA ProbeTimer ==
    ASSUME NEW r \in Recovery, Context, \A l \in Lvls : r.last_elicit[l] <= now
    PROVE  /\ Waiting(r) # {} => pto_time(r).lvl \in Waiting(r) /\ pto_time(r).t # INT64_MAX
           /\ (\E l \in Lvls : elicit_out(r, l)) /\ Waiting(r) = {} =>
                pto_time(r).lvl = 0
           /\ ~(\E l \in Lvls : elicit_out(r, l)) =>
                /\ pto_time(r).lvl = IF 1 \in tx THEN 1 ELSE 0
                /\ ~r.hs_acked /\ ~confirmed /\ (\E l \in Lvls : r.last_elicit[l] # NONE) =>
                     pto_time(r).t # INT64_MAX
<1> DEFINE any == \E l \in Lvls : elicit_out(r, l)
           base == r.srtt + MaxOf(4 * r.rttvar, 1)
           dur == Backoff(base, r)
           last == LastTime({r.last_elicit[l] : l \in Lvls})
           at == [l \in Lvls |-> tadd(r.last_elicit[l],
                                      IF l = 2 THEN dur + Backoff(MAD, r) ELSE dur)]
           W == Waiting(r)
           lvl == CHOOSE l \in W : \A k \in W : at[l] < at[k] \/ (at[l] = at[k] /\ l <= k)
<1>1. pto_time(r) =
        IF ~any
        THEN [lvl |-> IF 1 \in tx THEN 1 ELSE 0,
              t |-> IF r.hs_acked \/ confirmed \/ last = NONE THEN INT64_MAX ELSE tadd(last, dur)]
        ELSE IF W = {} THEN [lvl |-> 0, t |-> INT64_MAX]
        ELSE [lvl |-> lvl, t |-> at[lvl]]
  BY DEF pto_time, Waiting
<1>2. dur \in Nat /\ Backoff(MAD, r) \in Nat
  <2>1. r.srtt \in Nat /\ r.rttvar \in Nat /\ MAD \in Nat
    BY ConstantTypes DEF Recovery
  <2>2. base \in Nat
    BY <2>1 DEF MaxOf
  <2> HIDE DEF base
  <2> QED BY <2>1, <2>2, BackoffNat
<1>3. \A l \in Lvls : /\ r.last_elicit[l] \in Int /\ -1 <= r.last_elicit[l]
                      /\ r.last_elicit[l] < INT64_MAX
  <2> SUFFICES ASSUME NEW l \in Lvls
               PROVE  r.last_elicit[l] \in Int /\ -1 <= r.last_elicit[l] /\ r.last_elicit[l] < INT64_MAX
    OBVIOUS
  <2>1. r.last_elicit[l] \in Nat \cup {NONE} /\ r.last_elicit[l] <= now
    BY DEF Recovery
  <2>2. now \in Nat /\ now <= MaxTime /\ MaxTime < INT64_MAX /\ MaxTime \in Nat /\ INT64_MAX \in Nat
    BY ConstantTypes DEF Context
  <2> QED BY <2>1, <2>2 DEF NONE
<1> HIDE DEF dur
<1>4. \A l \in Lvls : at[l] \in Int /\ -1 <= at[l] /\ at[l] < INT64_MAX
  <2> SUFFICES ASSUME NEW l \in Lvls
               PROVE  at[l] \in Int /\ -1 <= at[l] /\ at[l] < INT64_MAX
    OBVIOUS
  <2> DEFINE d == IF l = 2 THEN dur + Backoff(MAD, r) ELSE dur
  <2>1. d \in Nat
    BY <1>2
  <2>2. at[l] = tadd(r.last_elicit[l], d)
    OBVIOUS
  <2> HIDE DEF d, at
  <2> QED BY <1>3, <2>1, <2>2, Tadd
<1>5. ASSUME W # {}
      PROVE  lvl \in W /\ at[lvl] # INT64_MAX
  <2>1. W \subseteq Lvls
    BY DEF Waiting
  <2> HIDE DEF W, at
  <2>2. \E l \in W : \A k \in W : at[l] < at[k] \/ (at[l] = at[k] /\ l <= k)
    BY <1>4, <1>5, <2>1, EarliestExists
  <2>3. lvl \in W
    BY <2>2
  <2>4. at[lvl] \in Int /\ at[lvl] < INT64_MAX /\ INT64_MAX \in Int
    BY <1>4, <2>1, <2>3, ConstantTypes
  <2> HIDE DEF lvl
  <2> QED BY <2>3, <2>4
<1>6. ASSUME \E l \in Lvls : r.last_elicit[l] # NONE
      PROVE  last # NONE /\ tadd(last, dur) # INT64_MAX
  <2> DEFINE T == {r.last_elicit[l] : l \in Lvls}
  <2>1. INT64_MAX \in Nat /\ T # {} /\ \A t \in T : t \in -1..INT64_MAX
    <3>1. INT64_MAX \in Nat /\ 0 \in Lvls
      BY ConstantTypes DEF Lvls
    <3> QED BY <1>3, <3>1
  <2>2. last \in T /\ \A u \in T : last >= u
    <3>1. T \subseteq -1..INT64_MAX
      BY <2>1
    <3> HIDE DEF T
    <3> QED BY <2>1, <3>1, LastTimeIn DEF T
  <2>3. PICK l \in Lvls : r.last_elicit[l] # NONE
    BY <1>6
  <2>4. r.last_elicit[l] \in Nat
    BY <2>3 DEF Recovery
  <2>5. last >= r.last_elicit[l] /\ last \in Int /\ -1 <= last /\ last < INT64_MAX
    BY <1>3, <2>2
  <2> HIDE DEF last
  <2>6. last # NONE
    BY <2>4, <2>5 DEF NONE
  <2>7. tadd(last, dur) \in Int /\ tadd(last, dur) < INT64_MAX
    BY <1>2, <2>5, Tadd
  <2> QED BY <2>1, <2>6, <2>7
<1> HIDE DEF at, last, lvl
<1>7. W # {} => any
  BY DEF Waiting
<1> HIDE DEF W, any
<1>8. W # {} => pto_time(r).lvl \in W /\ pto_time(r).t # INT64_MAX
  BY <1>1, <1>5, <1>7
<1>9. any /\ W = {} => pto_time(r).lvl = 0
  BY <1>1
<1>10. ~any => /\ pto_time(r).lvl = IF 1 \in tx THEN 1 ELSE 0
               /\ ~r.hs_acked /\ ~confirmed /\ (\E l \in Lvls : r.last_elicit[l] # NONE) =>
                     pto_time(r).t # INT64_MAX
  BY <1>1, <1>6
<1> QED BY <1>8, <1>9, <1>10 DEF W, any

\* The first loss timer is one that is armed.
LEMMA FirstLossTimer ==
    ASSUME NEW r \in Recovery, loss_armed(r) # {}
    PROVE  LossLvl(r) \in Lvls /\ r.loss_time[LossLvl(r)] # INT64_MAX
<1> DEFINE W == loss_armed(r)
           at == r.loss_time
<1>1. W \subseteq Lvls /\ W # {}
  BY DEF loss_armed
<1>2. \A l \in W : at[l] \in Int /\ -1 <= at[l]
  <2>1. \A l \in Lvls : at[l] \in 0..INT64_MAX /\ INT64_MAX \in Nat
    BY ConstantTypes DEF Recovery
  <2> QED BY <1>1, <2>1
<1> HIDE DEF W, at
<1>3. \E l \in W : \A k \in W : at[l] < at[k] \/ (at[l] = at[k] /\ l <= k)
  BY <1>1, <1>2, EarliestExists
<1>4. (CHOOSE l \in W : \A k \in W : at[l] < at[k] \/ (at[l] = at[k] /\ l <= k)) \in W
  BY <1>3
<1>5. LossLvl(r) \in loss_armed(r)
  BY <1>4 DEF LossLvl, W, at
<1> QED BY <1>5 DEF loss_armed

\* A probe timeout owes a probe, sends CRYPTO data again and loses nothing.
LEMMA ExpiredKeeps ==
    ASSUME NEW q, Kept(q), Overtaken(q.rec), Context
    PROVE  Kept(Expired(q)) /\ Overtaken(Expired(q).rec)
<1> DEFINE n == MinOf(q.rec.pto_count + 1, PTO_CAP)
           a == [q EXCEPT !.rec.pto_count = n]
           l == pto_time(q.rec).lvl
           m == MinOf(q.probe[l] + 1, 2)
           b == [a EXCEPT !.probe[l] = m]
           y == Resume(b, q.rec, l, OutstandingAt(q.rec, l))
<1>1. q \in States /\ q.rec \in Recovery /\ \A k \in Lvls : q.rec.last_elicit[k] <= now
  BY DEF Kept, States, Booked
<1>2. n \in 0..PTO_CAP
  <2>1. q.rec.pto_count \in 0..PTO_CAP /\ PTO_CAP \in Nat
    BY <1>1, ConstantTypes DEF Recovery
  <2> QED BY <2>1 DEF MinOf
<1> HIDE DEF n
<1>3. Kept(a) /\ Overtaken(a.rec)
  BY <1>2, BackoffKeeps
<1>4. a \in States /\ a.probe = q.probe /\ a.crypto_acked = q.crypto_acked
      /\ a.ret_sent = q.ret_sent /\ a.rec.s = q.rec.s
  BY <1>1, <1>2 DEF States, Recovery
<1>5. CASE l \notin tx
  <2>1. Expired(q) = a
    BY <1>5 DEF Expired, n
  <2> QED BY <1>3, <2>1
<1>6. CASE l \in tx
  <2>1. l \in Lvls
    BY <1>6 DEF Context
  <2>2. m \in 0..2
    <3>1. q.probe[l] \in 0..2
      BY <1>1, <2>1 DEF States
    <3> HIDE DEF l
    <3> QED BY <3>1 DEF MinOf
  <2>3. Expired(q) = y
    <3>1. a.probe[l] = q.probe[l]
      BY <1>4
    <3> QED BY <1>6, <3>1 DEF Expired, n
  <2>4. /\ q.rec.hs_acked \/ confirmed \/ l # 2
    <3> SUFFICES ASSUME ~q.rec.hs_acked, ~confirmed, l = 2 PROVE FALSE
      OBVIOUS
    <3>1. Eliciting(q.rec, 2) # {} => Eliciting(q.rec, 1) # {}
      BY DEF Kept, Unvalidated
    <3>2. 2 \notin Waiting(q.rec)
      BY DEF Waiting
    <3>3. Waiting(q.rec) # {} => l \in Waiting(q.rec)
      BY <1>1, ProbeTimer
    <3>4. Waiting(q.rec) = {}
      BY <3>2, <3>3
    <3>5. (\E k \in Lvls : elicit_out(q.rec, k)) => l = 0
      BY <1>1, <3>4, ProbeTimer
    <3>6. ~(\E k \in Lvls : elicit_out(q.rec, k)) => l = IF 1 \in tx THEN 1 ELSE 0
      BY <1>1, ProbeTimer
    <3> HIDE DEF l
    <3> QED BY <3>5, <3>6
  <2> HIDE DEF m, a
  <2>5. /\ b \in States /\ b.rec = a.rec /\ b.crypto_acked = q.crypto_acked
        /\ b.ret_sent = q.ret_sent /\ b.probe = [q.probe EXCEPT ![l] = m]
    BY <1>4, <2>1, <2>2 DEF States
  <2>6. b.probe[l] = m /\ \A k \in Lvls \ {l} : b.probe[k] = q.probe[k]
    BY <1>1, <2>1, <2>5 DEF States
  <2> HIDE DEF b, l
  <2>7. OutstandingAt(q.rec, l) \subseteq Outstanding(q.rec)
    BY DEF OutstandingAt
  <2>8. /\ y \in States /\ y.rec = b.rec /\ y.probe = b.probe /\ y.crypto_acked = b.crypto_acked
        /\ \A k \in {0, 1} : y.ret_sent[k] <= b.ret_sent[k]
    BY <1>1, <2>1, <2>5, <2>7, ResumeKeeps
  <2> HIDE DEF y
  <2>9. Loses(a, y, l, {})
    <3>1. y.rec = a.rec
      BY <2>5, <2>8
    <3>2. Steady(y.rec)
      BY <1>3, <3>1 DEF Kept, Booked, Steady
    <3> QED BY <1>4, <2>8, <3>1, <3>2, LosesNothing
  <2>10. a.rec.hs_acked = q.rec.hs_acked
    BY <1>1 DEF a, Recovery, States
  <2>11. Follows(a, y, l, {})
    <3>1. ASSUME NEW k \in Lvls
          PROVE  /\ y.probe[k] # 0 => k \in tx
                 /\ y.rec.largest_acked[k] < tx_pn[k]
                 /\ a.crypto_acked[k] \subseteq y.crypto_acked[k]
                 /\ tx_pn[k] = 0 => y.crypto_acked[k] = {}
      <4>1. /\ a.probe[k] # 0 => k \in tx
            /\ a.rec.largest_acked[k] < tx_pn[k]
            /\ tx_pn[k] = 0 => a.crypto_acked[k] = {}
        BY <1>3 DEF Kept, Booked
      <4>2. y.probe[k] # 0 => k \in tx
        BY <1>4, <1>6, <2>6, <2>8, <4>1
      <4> QED BY <1>4, <2>5, <2>8, <4>1, <4>2
    <3>2. y.rec.hs_acked \/ confirmed \/
            /\ y.rec.largest_acked[1] = a.rec.largest_acked[1]
            /\ y.crypto_acked[1] = a.crypto_acked[1] /\ y.probe[2] = 0
      <4>1. 2 \in Lvls
        BY DEF Lvls
      <4>2. q.rec.hs_acked \/ confirmed \/ q.probe[2] = 0
        BY DEF Kept, Unvalidated
      <4> QED BY <1>4, <2>4, <2>5, <2>6, <2>8, <2>10, <4>1, <4>2
    <3>3. \A k \in {0, 1} : y.ret_sent[k] <= a.ret_sent[k]
      BY <1>4, <2>5, <2>8
    <3> QED BY <3>1, <3>2, <3>3 DEF Follows
  <2>12. Kept(y)
    BY <1>3, <1>4, <2>1, <2>8, <2>9, <2>11, LosesKeeps
  <2> QED BY <1>3, <2>3, <2>5, <2>8, <2>12
<1> QED BY <1>5, <1>6

\* The timers keep the invariant.
LEMMA TimersKeep ==
    ASSUME NEW q, Kept(q), Overtaken(q.rec), Context
    PROVE  Kept(run_timers(q)) /\ Overtaken(run_timers(q).rec)
<1>1. CASE rec_deadline(q.rec) > now
  BY <1>1 DEF run_timers
<1>2. CASE ~(rec_deadline(q.rec) > now) /\ loss_armed(q.rec) # {}
  <2>1. q.rec \in Recovery
    BY DEF Kept, States
  <2>2. LossLvl(q.rec) \in Lvls
    BY <1>2, <2>1, FirstLossTimer
  <2>3. \A k \in Lvls : OvertakenAt(q.rec, k)
    BY OvertakenSplit
  <2>4. run_timers(q) = detect_lost(q, LossLvl(q.rec), {})
    BY <1>2 DEF run_timers
  <2> QED BY <2>2, <2>3, <2>4, DetectKeeps
<1>3. CASE ~(rec_deadline(q.rec) > now) /\ loss_armed(q.rec) = {}
  BY <1>3, ExpiredKeeps DEF run_timers
<1> QED BY <1>1, <1>2, <1>3

\* While the address is not validated, a timer is armed that makes the client send, but for a
\* Retry just accepted.
LEMMA DeadlineArmed ==
    ASSUME NEW q, Kept(q), Context, ~q.rec.hs_acked, ~confirmed, \E l \in Lvls : tx_pn[l] > 0,
           ~Restarted(q, tx)
    PROVE  /\ rec_deadline(q.rec) # INT64_MAX
           /\ loss_armed(q.rec) = {} => pto_time(q.rec).lvl \in tx
<1> DEFINE r == q.rec
           p == pto_time(r)
           any == \E l \in Lvls : elicit_out(r, l)
<1>1. r \in Recovery /\ (\A k \in Lvls : r.last_elicit[k] <= now)
      /\ \A i \in Outstanding(r) : r.s[i].lvl \in tx
  BY DEF Kept, States, Booked
<1>2. /\ Waiting(r) # {} => p.lvl \in Waiting(r) /\ p.t # INT64_MAX
      /\ ~any => /\ p.lvl = IF 1 \in tx THEN 1 ELSE 0
                 /\ (\E l \in Lvls : r.last_elicit[l] # NONE) => p.t # INT64_MAX
  <2> HIDE DEF r
  <2>1. ~r.hs_acked
    BY DEF r
  <2> QED BY <1>1, <2>1, ProbeTimer
<1>3. p.t # INT64_MAX /\ p.lvl \in tx
  <2>1. CASE any
    <3>1. PICK l \in Lvls : Eliciting(r, l) # {}
      BY <2>1 DEF elicit_out
    <3>2. Eliciting(r, 2) # {} => Eliciting(r, 1) # {}
      BY DEF Kept, Unvalidated
    <3>3. Waiting(r) # {}
      <4>1. CASE l # 2
        BY <3>1, <4>1 DEF Waiting, elicit_out
      <4>2. CASE l = 2
        <5>1. 1 \in Lvls /\ 1 # 2
          BY DEF Lvls
        <5>2. 1 \in Waiting(r)
          BY <3>1, <3>2, <4>2, <5>1 DEF Waiting, elicit_out
        <5> QED BY <5>2
      <4> QED BY <4>1, <4>2
    <3>4. p.lvl \in Waiting(r) /\ p.t # INT64_MAX
      BY <1>2, <3>3
    <3> HIDE DEF p, r
    <3>5. PICK i \in Eliciting(r, p.lvl) : TRUE
      BY <3>4 DEF Waiting, elicit_out
    <3>6. r.s[i].lvl = p.lvl /\ i \in Outstanding(r)
      BY <3>5 DEF Eliciting, OutstandingAt
    <3> QED BY <1>1, <3>4, <3>6
  <2>2. CASE ~any
    <3>1. /\ 0 \in tx => r.last_elicit[0] # NONE
          /\ 0 \notin tx => 1 \in tx /\ r.last_elicit[1] # NONE
      BY DEF Kept, Anchored
    <3>2. 0 \in Lvls /\ 1 \in Lvls
      BY DEF Lvls
    <3>3. \E l \in Lvls : r.last_elicit[l] # NONE
      BY <3>1, <3>2
    <3> HIDE DEF p, r, any
    <3> QED BY <1>2, <2>2, <3>1, <3>3
  <2> QED BY <2>1, <2>2
<1>4. loss_armed(r) # {} => rec_deadline(r) # INT64_MAX
  BY <1>1, FirstLossTimer DEF rec_deadline
<1>5. loss_armed(r) = {} => rec_deadline(r) = p.t
  BY DEF rec_deadline
<1> QED BY <1>3, <1>4, <1>5

-----------------------------------------------------------------------------
(* Datagrams *)

Frames == [elicit : BOOLEAN, size : 0..MDS, off : Nat, len : Nat]
Datagrams == [q : States, pos : 0..MDS, free : Nat, pad : BOOLEAN, full : BOOLEAN,
              cc_ok : BOOLEAN, pk : [Lvls -> Frames]]

\* A packet that joins a datagram, which y is then.
Joins(d, l, ch, y) ==
    /\ ~d.full /\ l \in tx /\ (l = 2 => established) /\ d.pos + ch.size[l] <= MDS
    /\ Elicits(d, l, ch) \/ AckAlone(d, l, ch)
    /\ y.pos = d.pos + ch.size[l]
    /\ y.free = IF Elicits(d, l, ch) \/ d.pad \/ l = 0 THEN d.free - 1 ELSE d.free
    /\ y.pad = (d.pad \/ l = 0) /\ y.full = d.full /\ y.cc_ok = d.cc_ok
    /\ y.q.rec = d.q.rec /\ y.q.crypto_acked = d.q.crypto_acked
    /\ y.q.probe = [d.q.probe EXCEPT ![l] = IF Elicits(d, l, ch) /\ d.q.probe[l] > 0
                                            THEN d.q.probe[l] - 1 ELSE d.q.probe[l]]
    /\ y.q.ret_sent = IF LenOf(d, l, ch) > 0
                      THEN [d.q.ret_sent EXCEPT ![l] = OffOf(d, l, ch) + LenOf(d, l, ch)]
                      ELSE d.q.ret_sent
    /\ y.pk = [d.pk EXCEPT ![l] = [elicit |-> Elicits(d, l, ch), size |-> ch.size[l],
                                   off |-> OffOf(d, l, ch), len |-> LenOf(d, l, ch)]]

\* No packet of the level; a packet that would have carried data finds the datagram full.
Skips(d, l, ch, y) ==
    /\ y.q = d.q /\ y.pos = d.pos /\ y.free = d.free /\ y.pad = d.pad /\ y.cc_ok = d.cc_ok
    /\ y.pk = d.pk
    /\ y.full => d.full \/ d.pos + ch.size[l] > MDS
    /\ l \in tx /\ (l = 2 => established) /\ Elicits(d, l, ch) => y.full
    /\ d.full => y.full

\* What one packet may carry.
LEMMA FrameTypes ==
    ASSUME NEW d \in Datagrams, Context, NEW l \in Lvls, NEW ch \in Calls,
           l \in {0, 1} => d.q.ret_sent[l] <= ret_len[l]
    PROVE  /\ Elicits(d, l, ch) \in BOOLEAN /\ ch.size[l] \in 1..MDS
           /\ LenOf(d, l, ch) \in Nat /\ OffOf(d, l, ch) \in Nat
           /\ LenOf(d, l, ch) > 0 => /\ l \in {0, 1} /\ Elicits(d, l, ch)
                                     /\ OffOf(d, l, ch) = d.q.ret_sent[l]
                                     /\ OffOf(d, l, ch) + LenOf(d, l, ch) <= ret_len[l]
<1>1. ch.size[l] \in Sizes
  BY DEF Calls
<1>2. ch.size[l] \in 1..MDS /\ ch.size[l] \in Nat
  <2>1. Sizes \subseteq 1..MDS /\ MDS \in Nat
    BY ConstantTypes
  <2>2. ch.size[l] \in 1..MDS
    BY <1>1, <2>1
  <2> QED BY <2>1, <2>2
<1>3. Elicits(d, l, ch) \in BOOLEAN
  BY DEF Elicits
<1>4. CASE ~(Elicits(d, l, ch) /\ l < 2)
  <2>1. LenOf(d, l, ch) = 0 /\ OffOf(d, l, ch) = 0
    BY <1>4 DEF LenOf, OffOf
  <2> QED BY <1>2, <1>3, <2>1
<1>5. CASE Elicits(d, l, ch) /\ l < 2
  <2>1. l \in {0, 1}
    BY <1>5 DEF Lvls
  <2>2. ret_len[l] \in Nat /\ d.q.ret_sent[l] \in Nat /\ d.q.ret_sent[l] <= ret_len[l]
    BY <2>1 DEF Context, Datagrams, States
  <2>3. LenOf(d, l, ch) = MinOf(ret_len[l] - d.q.ret_sent[l], ch.size[l])
    BY <1>5 DEF LenOf
  <2>4. LenOf(d, l, ch) \in Nat /\ LenOf(d, l, ch) <= ret_len[l] - d.q.ret_sent[l]
    BY <1>2, <2>2, <2>3 DEF MinOf
  <2>5. OffOf(d, l, ch) \in Nat /\ (LenOf(d, l, ch) > 0 => OffOf(d, l, ch) = d.q.ret_sent[l])
    BY <2>2 DEF OffOf
  <2>6. LenOf(d, l, ch) > 0 => OffOf(d, l, ch) + LenOf(d, l, ch) <= ret_len[l]
    BY <2>2, <2>4, <2>5
  <2> QED BY <1>2, <1>3, <1>5, <2>1, <2>4, <2>5, <2>6
<1> QED BY <1>4, <1>5

\* Each level either joins or is skipped.
LEMMA PacketCases ==
    ASSUME NEW d \in Datagrams, Context, NEW l \in Lvls, NEW ch \in Calls,
           l \in {0, 1} => d.q.ret_sent[l] <= ret_len[l]
    PROVE  LET y == WithPacket(d, l, ch) IN
           y \in Datagrams /\ (Joins(d, l, ch, y) \/ Skips(d, l, ch, y))
<1> DEFINE el == Elicits(d, l, ch)
           len == LenOf(d, l, ch)
           off == OffOf(d, l, ch)
           full == d.pos + ch.size[l] > MDS
           y == WithPacket(d, l, ch)
           fr == IF el \/ d.pad \/ l = 0 THEN d.free - 1 ELSE d.free
           po == IF el /\ d.q.probe[l] > 0 THEN d.q.probe[l] - 1 ELSE d.q.probe[l]
           se == IF len > 0 THEN [d.q.ret_sent EXCEPT ![l] = off + len] ELSE d.q.ret_sent
           pk == [elicit |-> el, size |-> ch.size[l], off |-> off, len |-> len]
           z == Joined(d, l, ch)
<1>1. y = IF d.full \/ l \notin tx \/ (l = 2 /\ ~established) THEN d
          ELSE IF full \/ (~el /\ ~AckAlone(d, l, ch)) THEN [d EXCEPT !.full = full]
          ELSE z
  BY DEF WithPacket
<1>2. /\ el \in BOOLEAN /\ ch.size[l] \in 1..MDS /\ len \in Nat /\ off \in Nat
      /\ len > 0 => l \in {0, 1}
  BY FrameTypes
<1>3. CASE d.full \/ l \notin tx \/ (l = 2 /\ ~established)
  <2>1. y = d
    BY <1>1, <1>3
  <2> HIDE DEF y
  <2>2. d.full \in BOOLEAN
    BY DEF Datagrams
  <2>3. Skips(d, l, ch, d)
    BY <1>3, <2>2 DEF Skips
  <2> QED BY <2>1, <2>3 DEF y
<1>4. CASE ~(d.full \/ l \notin tx \/ (l = 2 /\ ~established))
           /\ (full \/ (~el /\ ~AckAlone(d, l, ch)))
  <2>1. y = [d EXCEPT !.full = full]
    BY <1>1, <1>4
  <2> HIDE DEF y
  <2>2. full \in BOOLEAN
    OBVIOUS
  <2>3. y \in Datagrams /\ y.q = d.q /\ y.pos = d.pos /\ y.free = d.free /\ y.pad = d.pad
        /\ y.cc_ok = d.cc_ok /\ y.pk = d.pk /\ y.full = full
    <3> HIDE DEF full
    <3> QED BY <2>1, <2>2 DEF Datagrams
  <2>4. Skips(d, l, ch, y)
    BY <1>4, <2>3 DEF Skips
  <2> QED BY <2>3, <2>4 DEF y
<1>5. CASE ~(d.full \/ l \notin tx \/ (l = 2 /\ ~established))
           /\ ~(full \/ (~el /\ ~AckAlone(d, l, ch)))
  <2>1. y = z
    BY <1>1, <1>5
  <2>2. d.pos \in 0..MDS /\ d.free \in Nat /\ d.pad \in BOOLEAN /\ d.q \in States
        /\ d.pk \in [Lvls -> Frames]
    BY DEF Datagrams
  <2>3. d.pos + ch.size[l] \in 0..MDS
    BY <1>2, <1>5, <2>2, ConstantTypes
  <2>4. fr \in Nat
    <3>1. el => d.free > 0
      <4>1. ASSUME el PROVE d.free > 2 \/ d.free # 0
        BY <4>1 DEF Elicits
      <4> QED BY <2>2, <4>1
    <3>2. (d.pad \/ l = 0) /\ ~el => d.free > 2
      BY <1>5 DEF AckAlone
    <3> HIDE DEF el
    <3> QED BY <2>2, <3>1, <3>2
  <2>5. po \in 0..2
    <3>1. d.q.probe[l] \in 0..2
      BY <2>2 DEF States
    <3> HIDE DEF el
    <3> QED BY <3>1
  <2>6. se \in [{0, 1} -> Nat]
    <3>1. d.q.ret_sent \in [{0, 1} -> Nat]
      BY <2>2 DEF States
    <3>2. off + len \in Nat
      BY <1>2
    <3> HIDE DEF off, len
    <3> QED BY <1>2, <3>1, <3>2
  <2>7. pk \in Frames
    <3>1. ch.size[l] \in 0..MDS
      BY <1>2
    <3> HIDE DEF el, off, len
    <3> QED BY <1>2, <3>1 DEF Frames
  <2> DEFINE p == d.pos + ch.size[l]
             c == (d.pad \/ l = 0)
             u == [d.q EXCEPT !.probe[l] = po, !.ret_sent = se]
             v == [d EXCEPT !.pos = p, !.free = fr, !.pad = c, !.q = u, !.pk[l] = pk]
  <2>8. u \in States /\ u.rec = d.q.rec /\ u.crypto_acked = d.q.crypto_acked /\ u.ret_sent = se
        /\ u.probe = [d.q.probe EXCEPT ![l] = po]
    <3> HIDE DEF po, se
    <3> QED BY <2>2, <2>5, <2>6 DEF States
  <2>9. z = v
    BY DEF Joined, Spent
  <2>10. c \in BOOLEAN
    BY <2>2
  <2> HIDE DEF p, c, u, fr, pk, y, z
  <2>11. v \in Datagrams /\ v.q = u /\ v.pos = p /\ v.free = fr /\ v.pad = c /\ v.full = d.full
         /\ v.cc_ok = d.cc_ok /\ v.pk = [d.pk EXCEPT ![l] = pk]
    BY <2>2, <2>3, <2>4, <2>7, <2>8, <2>10 DEF Datagrams, p
  <2> HIDE DEF v
  <2>12. y = v
    BY <2>1, <2>9
  <2>13. ~d.full /\ l \in tx /\ (l = 2 => established) /\ d.pos + ch.size[l] <= MDS
         /\ (Elicits(d, l, ch) \/ AckAlone(d, l, ch))
    <3>1. d.pos + ch.size[l] \in Int /\ MDS \in Int
      BY <2>3, ConstantTypes
    <3> QED BY <1>5, <3>1
  <2>14. Joins(d, l, ch, y)
    BY <2>8, <2>11, <2>12, <2>13 DEF Joins, p, c, pk, fr
  <2> QED BY <2>11, <2>12, <2>14 DEF y
<1> QED BY <1>3, <1>4, <1>5

\* The records a level's packet will need.
Takes(d, l) == IF d.pk[l] # NoPacket /\ (d.pk[l].elicit \/ d.pad) THEN 1 ELSE 0

\* What holds of the datagram d of a call that found q, after the levels below n.
Untouched(q, d, n) ==
    /\ d.q.rec = q.rec /\ d.q.crypto_acked = q.crypto_acked /\ d.cc_ok = can_send(q.rec)
    /\ n = 0 => ~d.full
    /\ \A l \in Lvls : l >= n =>
         d.pk[l] = NoPacket /\ d.q.probe[l] = q.probe[l]
         /\ (l \in {0, 1} => d.q.ret_sent[l] = q.ret_sent[l])
Packets(q, d) ==
    \A l \in Lvls :
        /\ d.q.probe[l] <= q.probe[l]
        /\ d.pk[l] # NoPacket => l \in tx /\ (l = 2 => established) /\ d.pk[l].size >= 1
        /\ d.pk[l].len > 0 => d.pk[l].elicit /\ l \in {0, 1}
        /\ d.pk[l].elicit => can_send(q.rec) \/ q.probe[l] # 0
Spans(q, d) ==
    \A l \in {0, 1} :
        /\ d.q.ret_sent[l] <= ret_len[l]
        /\ d.pk[l].len > 0 => /\ d.pk[l].off = q.ret_sent[l]
                              /\ d.q.ret_sent[l] = q.ret_sent[l] + d.pk[l].len
        /\ d.pk[l].len = 0 => d.q.ret_sent[l] = q.ret_sent[l]
Counts(q, d) ==
    /\ d.pos = d.pk[0].size + d.pk[1].size + d.pk[2].size
    /\ d.pad <=> d.pk[0] # NoPacket
    /\ d.free + Takes(d, 0) + Takes(d, 1) + Takes(d, 2) = rec_free(q.rec)

\* CRYPTO data goes before 1-RTT data: a full table or window stops the lower levels last.
Firsts(q, d, n) ==
    /\ n >= 1 /\ 0 \in tx /\ can_send(q.rec) /\ rec_free(q.rec) > 2 /\ q.ret_sent[0] < ret_len[0]
         => d.pk[0].elicit
    /\ n = 2 /\ ~d.full /\ d.cc_ok /\ d.free > 2 /\ 1 \in tx /\ q.ret_sent[1] < ret_len[1]
         => d.pk[1].elicit
    /\ n = 3 /\ d.pk[2].elicit /\ q.probe[2] = 0 /\ 1 \in tx /\ q.ret_sent[1] < ret_len[1]
         => d.pk[1].elicit

Filled(q, d, n) ==
    /\ d \in Datagrams /\ Untouched(q, d, n) /\ Packets(q, d) /\ Spans(q, d) /\ Counts(q, d)
    /\ Firsts(q, d, n)

\* An empty datagram.
Blank(q) == [q |-> q, pos |-> 0, free |-> rec_free(q.rec), pad |-> FALSE, full |-> FALSE,
             cc_ok |-> can_send(q.rec), pk |-> [l \in Lvls |-> NoPacket]]

LEMMA FreeNat == \A r : rec_free(r) \in Nat
<1> SUFFICES ASSUME NEW r PROVE rec_free(r) \in Nat
  OBVIOUS
<1>1. IsFiniteSet(Slots \ Outstanding(r))
  BY SlotsFinite, FS_Subset
<1> QED BY <1>1, FS_CardinalityType DEF rec_free

\* It is filled up to level 0.
LEMMA BlankFilled ==
    ASSUME NEW q, Kept(q), Context
    PROVE  Filled(q, Blank(q), 0)
<1> DEFINE d == Blank(q)
<1>1. q \in States /\ q.ret_sent \in [{0, 1} -> Nat] /\ q.probe \in [Lvls -> 0..2]
  BY DEF Kept, States
<1>2. rec_free(q.rec) \in Nat /\ can_send(q.rec) \in BOOLEAN
  BY FreeNat DEF can_send
<1>3. NoPacket \in Frames /\ 0 \in 0..MDS
  BY ConstantTypes DEF NoPacket, Frames
<1>4. d \in Datagrams
  BY <1>1, <1>2, <1>3 DEF Datagrams, Blank
<1>5. /\ d.q = q /\ d.pos = 0 /\ d.free = rec_free(q.rec) /\ d.pad = FALSE /\ d.full = FALSE
      /\ d.cc_ok = can_send(q.rec) /\ \A l \in Lvls : d.pk[l] = NoPacket
  BY DEF Blank
<1> HIDE DEF d
<1>6. 0 \in Lvls /\ 1 \in Lvls /\ 2 \in Lvls
  BY DEF Lvls
<1>7. NoPacket.size = 0 /\ NoPacket.len = 0 /\ NoPacket.off = 0 /\ NoPacket.elicit = FALSE
  BY DEF NoPacket
<1>8. Untouched(q, d, 0)
  BY <1>5 DEF Untouched
<1>9. Packets(q, d)
  <2>1. \A l \in Lvls : q.probe[l] <= q.probe[l]
    <3>1. \A l \in Lvls : q.probe[l] \in 0..2
      BY <1>1
    <3> QED BY <3>1
  <2> QED BY <1>5, <1>7, <2>1 DEF Packets
<1>10. Spans(q, d)
  <2>1. \A l \in {0, 1} : q.ret_sent[l] <= ret_len[l]
    BY DEF Kept, Resent
  <2> QED BY <1>5, <1>6, <1>7, <2>1 DEF Spans
<1>11. Counts(q, d)
  <2>1. Takes(d, 0) = 0 /\ Takes(d, 1) = 0 /\ Takes(d, 2) = 0
    BY <1>5, <1>6 DEF Takes
  <2>2. d.pk[0].size = 0 /\ d.pk[1].size = 0 /\ d.pk[2].size = 0
    BY <1>5, <1>6, <1>7
  <2>3. d.pos = d.pk[0].size + d.pk[1].size + d.pk[2].size
    BY <1>5, <2>2
  <2>4. d.free + Takes(d, 0) + Takes(d, 1) + Takes(d, 2) = rec_free(q.rec)
    BY <1>2, <1>5, <2>1
  <2> QED BY <1>5, <1>6, <2>3, <2>4 DEF Counts
<1>12. Firsts(q, d, 0)
  BY DEF Firsts
<1> QED BY <1>4, <1>8, <1>9, <1>10, <1>11, <1>12 DEF Filled, d

\* The parts of a filled datagram, for one level.
LEMMA FilledTypes ==
    ASSUME NEW q, NEW d \in Datagrams, NEW l \in Lvls
    PROVE  /\ d.pos \in Nat /\ d.pos <= MDS /\ d.free \in Nat /\ d.pad \in BOOLEAN
           /\ d.full \in BOOLEAN /\ d.q.probe \in [Lvls -> 0..2]
           /\ d.q.ret_sent \in [{0, 1} -> Nat] /\ d.pk \in [Lvls -> Frames]
           /\ d.q.probe[l] \in Nat
           /\ d.pk[l] \in Frames /\ d.pk[l].size \in Nat /\ d.pk[l].size <= MDS
           /\ d.pk[l].elicit \in BOOLEAN /\ d.pk[l].len \in Nat /\ d.pk[l].off \in Nat
<1>1. d.pos \in 0..MDS /\ MDS \in Nat /\ d.free \in Nat /\ d.pad \in BOOLEAN /\ d.full \in BOOLEAN
      /\ d.q \in States /\ d.pk \in [Lvls -> Frames]
  BY ConstantTypes DEF Datagrams
<1>2. d.q.probe \in [Lvls -> 0..2] /\ d.q.ret_sent \in [{0, 1} -> Nat]
  BY <1>1 DEF States
<1>3. d.pk[l] \in Frames /\ d.q.probe[l] \in Nat
  BY <1>1, <1>2
<1>4. d.pk[l].size \in Nat /\ d.pk[l].size <= MDS
      /\ d.pk[l].elicit \in BOOLEAN /\ d.pk[l].len \in Nat /\ d.pk[l].off \in Nat
  BY <1>1, <1>3 DEF Frames
<1> QED BY <1>1, <1>2, <1>3, <1>4

\* Nothing is in a datagram that no level has joined.
LEMMA BlankCounts ==
    ASSUME NEW q, NEW d, Filled(q, d, 0)
    PROVE  d.pos = 0 /\ d.free = rec_free(q.rec)
<1>1. 0 \in Lvls /\ 1 \in Lvls /\ 2 \in Lvls
  BY DEF Lvls
<1>2. d.pk[0] = NoPacket /\ d.pk[1] = NoPacket /\ d.pk[2] = NoPacket
  BY <1>1 DEF Filled, Untouched
<1>3. Takes(d, 0) = 0 /\ Takes(d, 1) = 0 /\ Takes(d, 2) = 0
  BY <1>2 DEF Takes
<1>4. NoPacket.size = 0
  BY DEF NoPacket
<1>5. d.free \in Nat
  BY <1>1, FilledTypes DEF Filled
<1>6. /\ d.pos = d.pk[0].size + d.pk[1].size + d.pk[2].size
      /\ d.free + Takes(d, 0) + Takes(d, 1) + Takes(d, 2) = rec_free(q.rec)
  BY DEF Filled, Counts
<1>7. d.pos = 0
  BY <1>2, <1>4, <1>6
<1>8. d.free = rec_free(q.rec)
  BY <1>3, <1>5, <1>6
<1> QED BY <1>7, <1>8

\* A level whose packet can carry CRYPTO data within the window does.
LEMMA WouldElicit ==
    ASSUME NEW q, NEW d, NEW l \in {0, 1}, Filled(q, d, l), NEW ch,
           d.cc_ok, d.free > 2, q.ret_sent[l] < ret_len[l]
    PROVE  Elicits(d, l, ch)
<1>1. l \in Lvls /\ l # 2
  BY DEF Lvls
<1>2. l >= l
  BY <1>1 DEF Lvls
<1>3. d.q.ret_sent[l] = q.ret_sent[l]
  BY <1>1, <1>2 DEF Filled, Untouched
<1> QED BY <1>1, <1>3 DEF Elicits

\* A level without a packet keeps what holds of the datagram.
LEMMA SkipKeeps ==
    ASSUME NEW q, NEW d, NEW n \in Lvls, Filled(q, d, n), Context, NEW ch \in Calls,
           NEW y \in Datagrams, Skips(d, n, ch, y)
    PROVE  Filled(q, y, n + 1)
<1>1. /\ y.q = d.q /\ y.pos = d.pos /\ y.free = d.free /\ y.pad = d.pad /\ y.cc_ok = d.cc_ok
      /\ y.pk = d.pk
  BY DEF Skips
<1>2. 0 \in Lvls /\ 1 \in Lvls /\ 2 \in Lvls /\ n \in Nat /\ n \in {0, 1, 2}
  BY DEF Lvls
<1>3. Untouched(q, y, n + 1)
  <2>1. \A l \in Lvls : l >= n + 1 => l >= n
    BY <1>2 DEF Lvls
  <2>2. n + 1 # 0
    BY <1>2
  <2> QED BY <1>1, <2>1, <2>2 DEF Filled, Untouched
<1>4. Packets(q, y) /\ Spans(q, y)
  BY <1>1 DEF Filled, Packets, Spans
<1>5. Counts(q, y)
  <2>1. \A l : Takes(y, l) = Takes(d, l)
    BY <1>1 DEF Takes
  <2> QED BY <1>1, <2>1 DEF Filled, Counts
<1>6. ASSUME 0 \in tx, can_send(q.rec), rec_free(q.rec) > 2, q.ret_sent[0] < ret_len[0]
      PROVE  y.pk[0].elicit
  <2>1. CASE n = 0
    <3>1. d.pos = 0 /\ d.free = rec_free(q.rec) /\ d.cc_ok /\ ~d.full
      <4>1. d.pos = 0 /\ d.free = rec_free(q.rec)
        BY <2>1, BlankCounts
      <4> QED BY <1>6, <2>1, <4>1 DEF Filled, Untouched
    <3>2. Elicits(d, 0, ch)
      BY <1>6, <2>1, <3>1, WouldElicit
    <3>3. d.pos + ch.size[0] > MDS
      BY <1>6, <2>1, <3>1, <3>2 DEF Skips
    <3>4. ch.size[0] \in 1..MDS /\ MDS \in Nat
      <4>1. Sizes \subseteq 1..MDS /\ MDS \in Nat /\ ch.size[0] \in Sizes
        BY <1>2, ConstantTypes DEF Calls
      <4> QED BY <4>1
    <3> QED BY <3>1, <3>3, <3>4
  <2>2. CASE n # 0
    <3>1. n >= 1
      BY <1>2, <2>2
    <3> QED BY <1>1, <1>6, <3>1 DEF Filled, Firsts
  <2> QED BY <2>1, <2>2
<1>7. ASSUME n = 1, ~y.full, y.cc_ok, y.free > 2, 1 \in tx, q.ret_sent[1] < ret_len[1]
      PROVE  FALSE
  <2>1. Elicits(d, 1, ch)
    BY <1>1, <1>7, WouldElicit
  <2> QED BY <1>7, <2>1 DEF Skips
<1>8. ASSUME n = 2
      PROVE  ~y.pk[2].elicit
  <2>1. n >= n
    BY <1>2
  <2>2. d.pk[2] = NoPacket
    BY <1>8, <2>1 DEF Filled, Untouched
  <2> QED BY <1>1, <2>2 DEF NoPacket
<1>9. Firsts(q, y, n + 1)
  <2>1. n + 1 = 2 => n = 1
    BY <1>2
  <2>2. n + 1 = 3 => n = 2
    BY <1>2
  <2> QED BY <1>6, <1>7, <1>8, <2>1, <2>2 DEF Firsts
<1> QED BY <1>3, <1>4, <1>5, <1>9 DEF Filled

\* And so does a level that joins it.
LEMMA JoinKeeps ==
    ASSUME NEW q, NEW d, NEW n \in Lvls, Filled(q, d, n), Context, NEW ch \in Calls,
           NEW y \in Datagrams, Joins(d, n, ch, y)
    PROVE  Filled(q, y, n + 1)
<1> DEFINE p == [elicit |-> Elicits(d, n, ch), size |-> ch.size[n],
                 off |-> OffOf(d, n, ch), len |-> LenOf(d, n, ch)]
<1>1. 0 \in Lvls /\ 1 \in Lvls /\ 2 \in Lvls /\ n \in Nat /\ n \in {0, 1, 2} /\ n >= n
  BY DEF Lvls
<1>2. d \in Datagrams /\ Untouched(q, d, n) /\ Packets(q, d) /\ Spans(q, d) /\ Counts(q, d)
      /\ Firsts(q, d, n)
  BY DEF Filled
<1>3. /\ Elicits(d, n, ch) \in BOOLEAN /\ ch.size[n] \in 1..MDS
      /\ LenOf(d, n, ch) \in Nat /\ OffOf(d, n, ch) \in Nat
      /\ LenOf(d, n, ch) > 0 => /\ n \in {0, 1} /\ Elicits(d, n, ch)
                                /\ OffOf(d, n, ch) = d.q.ret_sent[n]
                                /\ OffOf(d, n, ch) + LenOf(d, n, ch) <= ret_len[n]
  BY <1>2, FrameTypes DEF Spans
<1>4. y.pk[n] = p /\ \A l \in Lvls \ {n} : y.pk[l] = d.pk[l]
  <2>1. d.pk \in [Lvls -> Frames] /\ y.pk = [d.pk EXCEPT ![n] = p]
    BY <1>2, FilledTypes DEF Joins
  <2> HIDE DEF p
  <2> QED BY <2>1
<1>5. /\ p.elicit = Elicits(d, n, ch) /\ p.size = ch.size[n] /\ p.off = OffOf(d, n, ch)
      /\ p.len = LenOf(d, n, ch)
  OBVIOUS
<1> HIDE DEF p
<1>6. p.size >= 1 /\ p.size \in Nat /\ p # NoPacket
  <2>1. p.size >= 1 /\ p.size \in Nat /\ MDS \in Nat
    BY <1>3, <1>5, ConstantTypes
  <2> QED BY <2>1 DEF NoPacket
<1>7. /\ d.pk[n] = NoPacket /\ d.q.probe[n] = q.probe[n]
      /\ n \in {0, 1} => d.q.ret_sent[n] = q.ret_sent[n]
      /\ d.cc_ok = can_send(q.rec) /\ d.q.rec = q.rec /\ d.q.crypto_acked = q.crypto_acked
  BY <1>1, <1>2 DEF Untouched
<1>8. /\ \A l \in Lvls \ {n} : y.q.probe[l] = d.q.probe[l]
      /\ y.q.probe[n] <= d.q.probe[n]
  <2> DEFINE po == IF Elicits(d, n, ch) /\ d.q.probe[n] > 0 THEN d.q.probe[n] - 1
                   ELSE d.q.probe[n]
  <2>1. d.q.probe \in [Lvls -> 0..2] /\ y.q.probe = [d.q.probe EXCEPT ![n] = po]
        /\ d.q.probe[n] \in Nat
    BY <1>2, FilledTypes DEF Joins
  <2>2. po <= d.q.probe[n]
    BY <2>1
  <2> HIDE DEF po
  <2> QED BY <2>1, <2>2
<1>9. /\ \A l \in {0, 1} \ {n} : y.q.ret_sent[l] = d.q.ret_sent[l]
      /\ p.len = 0 => y.q.ret_sent = d.q.ret_sent
      /\ p.len > 0 => y.q.ret_sent[n] = p.off + p.len
  <2>1. d.q.ret_sent \in [{0, 1} -> Nat] /\ p.len \in Nat
    BY <1>2, <1>3, <1>5, FilledTypes
  <2>2. y.q.ret_sent = IF p.len > 0 THEN [d.q.ret_sent EXCEPT ![n] = p.off + p.len]
                       ELSE d.q.ret_sent
    BY <1>5 DEF Joins
  <2>3. p.len > 0 => n \in {0, 1}
    BY <1>3, <1>5
  <2> QED BY <2>1, <2>2, <2>3
<1>10. Untouched(q, y, n + 1)
  <2>1. \A l \in Lvls : l >= n + 1 => l >= n /\ l # n
    BY <1>1 DEF Lvls
  <2>2. n + 1 # 0
    BY <1>1
  <2>3. y.q.rec = d.q.rec /\ y.q.crypto_acked = d.q.crypto_acked /\ y.cc_ok = d.cc_ok
    BY DEF Joins
  <2>4. ASSUME NEW l \in Lvls, l >= n + 1
        PROVE  y.pk[l] = NoPacket /\ y.q.probe[l] = q.probe[l]
               /\ (l \in {0, 1} => y.q.ret_sent[l] = q.ret_sent[l])
    <3>1. l >= n /\ l # n
      BY <2>1, <2>4
    <3>2. d.pk[l] = NoPacket /\ d.q.probe[l] = q.probe[l]
          /\ (l \in {0, 1} => d.q.ret_sent[l] = q.ret_sent[l])
      BY <1>2, <3>1 DEF Untouched
    <3> QED BY <1>4, <1>8, <1>9, <3>1, <3>2
  <2> QED BY <1>7, <2>2, <2>3, <2>4 DEF Untouched
<1>11. Packets(q, y)
  <2> SUFFICES ASSUME NEW l \in Lvls
               PROVE  /\ y.q.probe[l] <= q.probe[l]
                      /\ y.pk[l] # NoPacket =>
                           l \in tx /\ (l = 2 => established) /\ y.pk[l].size >= 1
                      /\ y.pk[l].len > 0 => y.pk[l].elicit /\ l \in {0, 1}
                      /\ y.pk[l].elicit => can_send(q.rec) \/ q.probe[l] # 0
    BY DEF Packets
  <2>1. CASE l = n
    <3>1. p.len > 0 => p.elicit /\ n \in {0, 1}
      BY <1>3, <1>5
    <3>2. p.elicit => can_send(q.rec) \/ q.probe[n] # 0
      BY <1>5, <1>7 DEF Elicits
    <3>3. n \in tx /\ (n = 2 => established)
      BY DEF Joins
    <3>4. y.q.probe[n] <= q.probe[n]
      BY <1>7, <1>8
    <3> QED BY <1>4, <1>6, <2>1, <3>1, <3>2, <3>3, <3>4
  <2>2. CASE l # n
    BY <1>2, <1>4, <1>8, <2>2 DEF Packets
  <2> QED BY <2>1, <2>2
<1>12. Spans(q, y)
  <2> SUFFICES ASSUME NEW l \in {0, 1}
               PROVE  /\ y.q.ret_sent[l] <= ret_len[l]
                      /\ y.pk[l].len > 0 => /\ y.pk[l].off = q.ret_sent[l]
                                            /\ y.q.ret_sent[l] = q.ret_sent[l] + y.pk[l].len
                      /\ y.pk[l].len = 0 => y.q.ret_sent[l] = q.ret_sent[l]
    BY DEF Spans
  <2>1. CASE l = n
    <3>1. p.len \in Nat
      BY <1>3, <1>5
    <3>2. CASE p.len > 0
      <4>1. p.off = q.ret_sent[l] /\ p.off + p.len <= ret_len[l]
        BY <1>3, <1>5, <1>7, <2>1, <3>2
      <4>2. y.q.ret_sent[l] = p.off + p.len
        BY <1>9, <2>1, <3>2
      <4>3. ~(p.len = 0)
        BY <3>2
      <4> QED BY <1>4, <2>1, <4>1, <4>2, <4>3
    <3>3. CASE p.len = 0
      <4>1. y.q.ret_sent[l] = q.ret_sent[l] /\ d.q.ret_sent[l] <= ret_len[l]
            /\ d.q.ret_sent[l] = q.ret_sent[l]
        BY <1>2, <1>7, <1>9, <2>1, <3>3 DEF Spans
      <4>2. ~(p.len > 0)
        BY <3>3
      <4> QED BY <1>4, <2>1, <4>1, <4>2
    <3> QED BY <3>1, <3>2, <3>3
  <2>2. CASE l # n
    <3>1. l \in Lvls \ {n}
      BY <1>1, <2>2
    <3>2. y.pk[l] = d.pk[l] /\ y.q.ret_sent[l] = d.q.ret_sent[l]
      BY <1>4, <1>9, <2>2, <3>1
    <3> QED BY <1>2, <3>2 DEF Spans
  <2> QED BY <2>1, <2>2
<1>13. Counts(q, y)
  <2>1. /\ d.pos = d.pk[0].size + d.pk[1].size + d.pk[2].size
        /\ d.pad <=> d.pk[0] # NoPacket
        /\ d.free + Takes(d, 0) + Takes(d, 1) + Takes(d, 2) = rec_free(q.rec)
    BY <1>2 DEF Counts
  <2>2. y.pos = d.pos + p.size /\ y.pad = (d.pad \/ n = 0)
        /\ y.free = IF p.elicit \/ d.pad \/ n = 0 THEN d.free - 1 ELSE d.free
    BY <1>5 DEF Joins
  <2>3. NoPacket.size = 0
    BY DEF NoPacket
  <2>4. d.pk[0].size \in Nat /\ d.pk[1].size \in Nat /\ d.pk[2].size \in Nat /\ d.free \in Nat
        /\ d.pad \in BOOLEAN
    BY <1>1, <1>2, FilledTypes
  <2>5. y.pos = y.pk[0].size + y.pk[1].size + y.pk[2].size
    <3>1. CASE n = 0
      <4>1. y.pk[0].size = p.size /\ y.pk[1].size = d.pk[1].size /\ y.pk[2].size = d.pk[2].size
            /\ d.pk[0].size = 0
        BY <1>1, <1>4, <1>7, <2>3, <3>1
      <4> QED BY <1>6, <2>1, <2>2, <2>4, <4>1
    <3>2. CASE n = 1
      <4>1. y.pk[0].size = d.pk[0].size /\ y.pk[1].size = p.size /\ y.pk[2].size = d.pk[2].size
            /\ d.pk[1].size = 0
        BY <1>1, <1>4, <1>7, <2>3, <3>2
      <4> QED BY <1>6, <2>1, <2>2, <2>4, <4>1
    <3>3. CASE n = 2
      <4>1. y.pk[0].size = d.pk[0].size /\ y.pk[1].size = d.pk[1].size /\ y.pk[2].size = p.size
            /\ d.pk[2].size = 0
        BY <1>1, <1>4, <1>7, <2>3, <3>3
      <4> QED BY <1>6, <2>1, <2>2, <2>4, <4>1
    <3> QED BY <1>1, <3>1, <3>2, <3>3
  <2>6. y.pad <=> y.pk[0] # NoPacket
    <3>1. CASE n = 0
      BY <1>4, <1>6, <2>2, <3>1
    <3>2. CASE n # 0
      <4>1. y.pk[0] = d.pk[0]
        BY <1>1, <1>4, <3>2
      <4> QED BY <2>1, <2>2, <3>2, <4>1
    <3> QED BY <3>1, <3>2
  <2>7. \A l \in Lvls : Takes(d, l) \in {0, 1}
    BY DEF Takes
  <2>8. Takes(d, n) = 0
    BY <1>7 DEF Takes
  <2>9. Takes(y, n) = IF p.elicit \/ d.pad \/ n = 0 THEN 1 ELSE 0
    <3>1. Takes(y, n) = IF p.elicit \/ y.pad THEN 1 ELSE 0
      BY <1>4, <1>6 DEF Takes
    <3> QED BY <2>2, <3>1
  <2>10. \A l \in Lvls \ {n} : Takes(y, l) = Takes(d, l)
    <3>1. CASE n = 0
      <4>1. \A l \in Lvls : d.pk[l] = NoPacket
        <5>1. \A l \in Lvls : l >= n
          BY <3>1 DEF Lvls
        <5> QED BY <1>2, <5>1 DEF Untouched
      <4> QED BY <1>4, <4>1 DEF Takes
    <3>2. CASE n # 0
      <4>1. y.pad = d.pad
        BY <2>2, <2>4, <3>2
      <4> QED BY <1>4, <4>1 DEF Takes
    <3> QED BY <3>1, <3>2
  <2>11. y.free + Takes(y, n) = d.free + Takes(d, n)
    BY <2>2, <2>4, <2>8, <2>9
  <2>12. y.free \in Nat /\ Takes(y, n) \in {0, 1}
    BY <1>1, <2>9, FilledTypes
  <2>13. y.free + Takes(y, 0) + Takes(y, 1) + Takes(y, 2) = rec_free(q.rec)
    <3>1. CASE n = 0
      <4>1. Takes(y, 1) = Takes(d, 1) /\ Takes(y, 2) = Takes(d, 2)
        BY <1>1, <2>10, <3>1
      <4> QED BY <1>1, <2>1, <2>4, <2>7, <2>11, <2>12, <3>1, <4>1
    <3>2. CASE n = 1
      <4>1. Takes(y, 0) = Takes(d, 0) /\ Takes(y, 2) = Takes(d, 2)
        BY <1>1, <2>10, <3>2
      <4> QED BY <1>1, <2>1, <2>4, <2>7, <2>11, <2>12, <3>2, <4>1
    <3>3. CASE n = 2
      <4>1. Takes(y, 0) = Takes(d, 0) /\ Takes(y, 1) = Takes(d, 1)
        BY <1>1, <2>10, <3>3
      <4> QED BY <1>1, <2>1, <2>4, <2>7, <2>11, <2>12, <3>3, <4>1
    <3> QED BY <1>1, <3>1, <3>2, <3>3
  <2> QED BY <2>5, <2>6, <2>13 DEF Counts
<1>14. Firsts(q, y, n + 1)
  <2>1. ASSUME 0 \in tx, can_send(q.rec), rec_free(q.rec) > 2, q.ret_sent[0] < ret_len[0]
        PROVE  y.pk[0].elicit
    <3>1. CASE n = 0
      <4>1. d.free = rec_free(q.rec) /\ d.cc_ok
        BY <1>7, <2>1, <3>1, BlankCounts
      <4>2. Elicits(d, 0, ch)
        BY <2>1, <3>1, <4>1, WouldElicit
      <4> QED BY <1>4, <1>5, <3>1, <4>2
    <3>2. CASE n # 0
      <4>1. n >= 1 /\ y.pk[0] = d.pk[0]
        BY <1>1, <1>4, <3>2
      <4> QED BY <1>2, <2>1, <4>1 DEF Firsts
    <3> QED BY <3>1, <3>2
  <2>2. ASSUME n = 1, y.cc_ok, y.free > 2, 1 \in tx, q.ret_sent[1] < ret_len[1]
        PROVE  y.pk[1].elicit
    <3>1. d.free \in Nat
      BY <1>1, <1>2, FilledTypes
    <3>2. d.free > 2 /\ d.cc_ok
      BY <2>2, <3>1 DEF Joins
    <3>3. Elicits(d, 1, ch)
      BY <2>2, <3>2, WouldElicit
    <3> QED BY <1>4, <1>5, <2>2, <3>3
  <2>3. ASSUME n = 2, y.pk[2].elicit, q.probe[2] = 0, 1 \in tx, q.ret_sent[1] < ret_len[1]
        PROVE  y.pk[1].elicit
    <3>1. Elicits(d, 2, ch)
      BY <1>4, <1>5, <2>3
    <3>2. d.cc_ok /\ d.free > 2 /\ ~d.full
      BY <1>7, <2>3, <3>1 DEF Elicits, Joins
    <3>3. d.pk[1].elicit
      BY <1>2, <2>3, <3>2 DEF Firsts
    <3> QED BY <1>1, <1>4, <2>3, <3>3
  <2>4. n + 1 = 2 => n = 1
    BY <1>1
  <2>5. n + 1 = 3 => n = 2
    BY <1>1
  <2> QED BY <2>1, <2>2, <2>3, <2>4, <2>5 DEF Firsts
<1> QED BY <1>10, <1>11, <1>12, <1>13, <1>14 DEF Filled

\* The datagram of a call.
LEMMA DatagramFilled ==
    ASSUME NEW q, Kept(q), Context, NEW ch \in Calls
    PROVE  Filled(q, Datagram(q, ch), 3)
<1>1. ASSUME NEW d, NEW n \in Lvls, Filled(q, d, n)
      PROVE  Filled(q, WithPacket(d, n, ch), n + 1)
  <2> DEFINE y == WithPacket(d, n, ch)
  <2>1. d \in Datagrams /\ (n \in {0, 1} => d.q.ret_sent[n] <= ret_len[n])
    BY <1>1 DEF Filled, Spans
  <2>2. y \in Datagrams /\ (Joins(d, n, ch, y) \/ Skips(d, n, ch, y))
    BY <2>1, PacketCases
  <2> HIDE DEF y
  <2>3. Filled(q, y, n + 1)
    BY <1>1, <2>2, SkipKeeps, JoinKeeps
  <2> QED BY <2>3 DEF y
<1>2. Filled(q, Blank(q), 0)
  BY BlankFilled
<1>3. 0 \in Lvls /\ 1 \in Lvls /\ 2 \in Lvls /\ 0 + 1 = 1 /\ 1 + 1 = 2 /\ 2 + 1 = 3
  BY DEF Lvls
<1> DEFINE a == WithPacket(Blank(q), 0, ch)
           b == WithPacket(a, 1, ch)
           c == WithPacket(b, 2, ch)
<1>4. Filled(q, a, 1)
  BY <1>1, <1>2, <1>3
<1>5. Filled(q, b, 2)
  <2> HIDE DEF a
  <2> QED BY <1>1, <1>3, <1>4
<1>6. Filled(q, c, 3)
  <2> HIDE DEF b
  <2> QED BY <1>1, <1>3, <1>5
<1>7. Datagram(q, ch) = c
  BY DEF Datagram, Blank
<1> QED BY <1>6, <1>7

-----------------------------------------------------------------------------
(* Records of what was sent *)

\* From r to y, the packets X get records, now.
Wrote(r, y, X) ==
    /\ y \in Recovery
    /\ \A i \in Outstanding(r) : i \in Outstanding(y) /\ y.s[i] = r.s[i]
    /\ \A i \in Outstanding(y) : i \in Outstanding(r) \/ y.s[i] \in X
    /\ \A x \in X : \E i \in Outstanding(y) : y.s[i] = x
    /\ y.largest_acked = r.largest_acked /\ y.loss_time = r.loss_time
    /\ y.hs_acked = r.hs_acked /\ y.recovery_start = r.recovery_start /\ y.cwnd = r.cwnd
    /\ \A l \in Lvls : y.last_elicit[l] = IF \E x \in X : x.lvl = l /\ x.elicit THEN now
                                          ELSE r.last_elicit[l]
    /\ Accounted(r) => Accounted(y)

\* A packet for which there is a free entry gets a record.
LEMMA SentWrites ==
    ASSUME NEW r \in Recovery, NEW x \in Sent, x.t = now, rec_free(r) # 0
    PROVE  /\ Wrote(r, on_sent(r, x), {x})
           /\ rec_free(on_sent(r, x)) = rec_free(r) - 1
           /\ on_sent(r, x).in_flight = r.in_flight + x.size
<1> DEFINE free == Slots \ Outstanding(r)
           i == CHOOSE j \in free : \A k \in free : j <= k
           n == r.in_flight + x.size
           e == IF x.elicit THEN x.t ELSE r.last_elicit[x.lvl]
           y == on_sent(r, x)
<1>1. IsFiniteSet(free) /\ free # {}
  <2>1. IsFiniteSet(free)
    BY SlotsFinite, FS_Subset
  <2>2. Cardinality({}) = 0
    BY FS_EmptySet
  <2> QED BY <2>1, <2>2 DEF rec_free
<1>2. i \in free
  <2>1. free \in SUBSET Nat
    BY ConstantTypes DEF Slots
  <2>2. \E j \in free : \A k \in free : j <= k
    <3> HIDE DEF free
    <3> QED BY <1>1, <2>1, LeastNatural
  <2> QED BY <2>2
<1>3. y = [r EXCEPT !.s[i] = x, !.in_flight = n, !.last_elicit[x.lvl] = e]
  BY <1>1 DEF on_sent
<1> HIDE DEF i, y
<1>4. x.size \in 1..MDS /\ x.lvl \in Lvls /\ x.elicit \in BOOLEAN /\ x.t \in Nat /\ MDS \in Nat
  BY ConstantTypes DEF Sent
<1>5. n \in Nat /\ e \in Nat \cup {NONE} /\ i \in Slots
  BY <1>2, <1>4 DEF Recovery
<1> HIDE DEF n, e
<1>6. y \in Recovery
  BY <1>3, <1>4, <1>5 DEF Recovery
<1>7. /\ y.s = [r.s EXCEPT ![i] = x] /\ y.in_flight = n
      /\ y.last_elicit = [r.last_elicit EXCEPT ![x.lvl] = e]
      /\ y.largest_acked = r.largest_acked /\ y.loss_time = r.loss_time
      /\ y.hs_acked = r.hs_acked /\ y.recovery_start = r.recovery_start /\ y.cwnd = r.cwnd
  BY <1>3 DEF Recovery
<1>8. y.s[i] = x /\ (\A j \in Slots \ {i} : y.s[j] = r.s[j])
      /\ y.last_elicit[x.lvl] = e /\ (\A l \in Lvls \ {x.lvl} : y.last_elicit[l] = r.last_elicit[l])
  BY <1>4, <1>5, <1>7 DEF Recovery
<1>9. Outstanding(y) = Outstanding(r) \cup {i}
  BY <1>2, <1>8, FreeIsNotSent DEF Outstanding
<1>10. \A j \in Outstanding(r) : j # i /\ y.s[j] = r.s[j]
  BY <1>2, <1>8 DEF Outstanding
<1>11. Accounted(r) => Accounted(y)
  <2>1. SizeOf(y, Outstanding(y)) = SizeOf(r, Outstanding(r)) + y.s[i].size
    BY <1>5, <1>6, <1>9, <1>10, SizePut
  <2> QED BY <1>7, <1>8, <2>1 DEF Accounted, n
<1>12. rec_free(y) = rec_free(r) - 1
  <2>1. Slots \ Outstanding(y) = free \ {i}
    BY <1>9
  <2>2. Cardinality(free \ {i}) = Cardinality(free) - 1
    <3> HIDE DEF free
    <3> QED BY <1>1, <1>2, RemoveOne
  <2> QED BY <2>1, <2>2 DEF rec_free
<1>13. \A l \in Lvls : y.last_elicit[l] = IF \E z \in {x} : z.lvl = l /\ z.elicit THEN now
                                          ELSE r.last_elicit[l]
  BY <1>8 DEF e
<1>14. Wrote(r, y, {x})
  BY <1>6, <1>7, <1>8, <1>9, <1>10, <1>11, <1>13 DEF Wrote
<1> QED BY <1>7, <1>12, <1>14 DEF y, n

\* Nothing written.
LEMMA WroteNothing ==
    ASSUME NEW r \in Recovery
    PROVE  Wrote(r, r, {})
BY DEF Wrote

\* One after the other.
LEMMA WroteBoth ==
    ASSUME NEW r, NEW y, NEW z, NEW X, NEW Y, Wrote(r, y, X), Wrote(y, z, Y)
    PROVE  Wrote(r, z, X \cup Y)
<1>1. \A i \in Outstanding(r) : i \in Outstanding(z) /\ z.s[i] = r.s[i]
  BY DEF Wrote
<1>2. \A i \in Outstanding(z) : i \in Outstanding(r) \/ z.s[i] \in X \cup Y
  BY DEF Wrote
<1>3. \A x \in X \cup Y : \E i \in Outstanding(z) : z.s[i] = x
  <2> SUFFICES ASSUME NEW x \in X \cup Y PROVE \E i \in Outstanding(z) : z.s[i] = x
    OBVIOUS
  <2>1. CASE x \in Y
    BY <2>1 DEF Wrote
  <2>2. CASE x \in X
    <3>1. PICK i \in Outstanding(y) : y.s[i] = x
      BY <2>2 DEF Wrote
    <3>2. i \in Outstanding(z) /\ z.s[i] = y.s[i]
      BY DEF Wrote
    <3> QED BY <3>1, <3>2
  <2> QED BY <2>1, <2>2
<1>4. \A l \in Lvls : z.last_elicit[l] = IF \E x \in X \cup Y : x.lvl = l /\ x.elicit THEN now
                                         ELSE r.last_elicit[l]
  <2> SUFFICES ASSUME NEW l \in Lvls
               PROVE  z.last_elicit[l] = IF \E x \in X \cup Y : x.lvl = l /\ x.elicit THEN now
                                         ELSE r.last_elicit[l]
    OBVIOUS
  <2>1. y.last_elicit[l] = IF \E x \in X : x.lvl = l /\ x.elicit THEN now ELSE r.last_elicit[l]
    BY DEF Wrote
  <2>2. z.last_elicit[l] = IF \E x \in Y : x.lvl = l /\ x.elicit THEN now ELSE y.last_elicit[l]
    BY DEF Wrote
  <2> QED BY <2>1, <2>2
<1>5. /\ z \in Recovery /\ z.largest_acked = r.largest_acked /\ z.loss_time = r.loss_time
      /\ z.hs_acked = r.hs_acked /\ z.recovery_start = r.recovery_start /\ z.cwnd = r.cwnd
      /\ Accounted(r) => Accounted(z)
  BY DEF Wrote
<1> QED BY <1>1, <1>2, <1>3, <1>4, <1>5 DEF Wrote

\* The records of a datagram's levels.
RecordsAt(d, l) == IF l \in InFlight(d) THEN {Record(d, l)} ELSE {}
Flies(d, l) == IF l \in InFlight(d) THEN 1 ELSE 0
SizeAt(d, l) == IF l \in InFlight(d) THEN Record(d, l).size ELSE 0

LEMMA OneRecorded ==
    ASSUME NEW r \in Recovery, NEW d, NEW l, l \in InFlight(d) => Record(d, l) \in Sent,
           Flies(d, l) <= rec_free(r)
    PROVE  LET y == Recorded(r, d, l) IN
           /\ Wrote(r, y, RecordsAt(d, l))
           /\ rec_free(y) = rec_free(r) - Flies(d, l)
           /\ y.in_flight = r.in_flight + SizeAt(d, l)
<1>1. rec_free(r) \in Nat /\ r.in_flight \in Nat
  BY FreeNat DEF Recovery
<1>2. CASE l \in InFlight(d)
  <2>1. Flies(d, l) = 1 /\ RecordsAt(d, l) = {Record(d, l)} /\ SizeAt(d, l) = Record(d, l).size
    BY <1>2 DEF Flies, RecordsAt, SizeAt
  <2>2. rec_free(r) # 0 /\ Record(d, l).t = now
    BY <1>1, <2>1 DEF Record
  <2>3. Recorded(r, d, l) = on_sent(r, Record(d, l))
    BY <1>2 DEF Recorded
  <2> QED BY <1>2, <2>1, <2>2, <2>3, SentWrites
<1>3. CASE l \notin InFlight(d)
  <2>1. Flies(d, l) = 0 /\ RecordsAt(d, l) = {} /\ SizeAt(d, l) = 0 /\ Recorded(r, d, l) = r
    BY <1>3 DEF Flies, RecordsAt, SizeAt, Recorded
  <2>2. Wrote(r, r, {})
    BY WroteNothing
  <2> QED BY <1>1, <2>1, <2>2
<1> QED BY <1>2, <1>3

\* All the packets of a datagram get their records when there are as many free entries.
AllRecorded(r, d) == Recorded(Recorded(Recorded(r, d, 0), d, 1), d, 2)
AllRecords(d) == RecordsAt(d, 0) \cup RecordsAt(d, 1) \cup RecordsAt(d, 2)

LEMMA DatagramRecorded ==
    ASSUME NEW r \in Recovery, NEW d, \A l \in InFlight(d) : Record(d, l) \in Sent,
           Flies(d, 0) + Flies(d, 1) + Flies(d, 2) <= rec_free(r)
    PROVE  /\ Wrote(r, AllRecorded(r, d), AllRecords(d))
           /\ AllRecorded(r, d).in_flight
                = r.in_flight + SizeAt(d, 0) + SizeAt(d, 1) + SizeAt(d, 2)
<1> DEFINE a == Recorded(r, d, 0)
           b == Recorded(a, d, 1)
           c == Recorded(b, d, 2)
<1>1. Flies(d, 0) \in {0, 1} /\ Flies(d, 1) \in {0, 1} /\ Flies(d, 2) \in {0, 1}
      /\ rec_free(r) \in Nat
  BY FreeNat DEF Flies
<1>2. /\ Wrote(r, a, RecordsAt(d, 0)) /\ rec_free(a) = rec_free(r) - Flies(d, 0)
      /\ a.in_flight = r.in_flight + SizeAt(d, 0)
  <2>1. Flies(d, 0) <= rec_free(r)
    BY <1>1
  <2> QED BY <2>1, OneRecorded
<1> HIDE DEF a
<1>3. /\ Wrote(a, b, RecordsAt(d, 1)) /\ rec_free(b) = rec_free(a) - Flies(d, 1)
      /\ b.in_flight = a.in_flight + SizeAt(d, 1)
  <2>1. Flies(d, 1) <= rec_free(a)
    BY <1>1, <1>2
  <2>2. a \in Recovery
    BY <1>2 DEF Wrote
  <2> QED BY <2>1, <2>2, OneRecorded
<1> HIDE DEF b
<1>4. /\ Wrote(b, c, RecordsAt(d, 2))
      /\ c.in_flight = b.in_flight + SizeAt(d, 2)
  <2>1. Flies(d, 2) <= rec_free(b)
    BY <1>1, <1>2, <1>3
  <2>2. b \in Recovery
    BY <1>3 DEF Wrote
  <2> QED BY <2>1, <2>2, OneRecorded
<1>5. AllRecorded(r, d) = c
  BY DEF AllRecorded, a, b
<1> HIDE DEF c
<1>6. Wrote(r, b, RecordsAt(d, 0) \cup RecordsAt(d, 1))
  BY <1>2, <1>3, WroteBoth
<1>7. Wrote(r, c, (RecordsAt(d, 0) \cup RecordsAt(d, 1)) \cup RecordsAt(d, 2))
  BY <1>4, <1>6, WroteBoth
<1>8. c.in_flight = r.in_flight + SizeAt(d, 0) + SizeAt(d, 1) + SizeAt(d, 2)
  BY <1>2, <1>3, <1>4
<1> QED BY <1>5, <1>7, <1>8 DEF AllRecords

\* How many of three levels there are.
LEMMA CardThree ==
    ASSUME NEW X, X \subseteq {0, 1, 2}
    PROVE  Cardinality(X) = (IF 0 \in X THEN 1 ELSE 0) + (IF 1 \in X THEN 1 ELSE 0)
                            + (IF 2 \in X THEN 1 ELSE 0)
<1> DEFINE a == IF 0 \in X THEN 1 ELSE 0
           b == IF 1 \in X THEN 1 ELSE 0
           c == IF 2 \in X THEN 1 ELSE 0
           A == IF 0 \in X THEN {} \cup {0} ELSE {}
           B == IF 1 \in X THEN A \cup {1} ELSE A
           C == IF 2 \in X THEN B \cup {2} ELSE B
<1>1. IsFiniteSet({}) /\ Cardinality({}) = 0
  BY FS_EmptySet
<1>2. IsFiniteSet(A) /\ Cardinality(A) = a /\ 1 \notin A /\ 2 \notin A
  BY <1>1, FS_AddElement
<1> HIDE DEF A
<1>3. IsFiniteSet(B) /\ Cardinality(B) = a + b /\ 2 \notin B
  <2>1. CASE 1 \in X
    <3>1. B = A \cup {1} /\ b = 1
      BY <2>1
    <3> HIDE DEF B, a, b
    <3> QED BY <1>2, <3>1, FS_AddElement
  <2>2. CASE 1 \notin X
    <3>1. B = A /\ b = 0 /\ a \in {0, 1}
      BY <2>2
    <3> HIDE DEF B, a, b
    <3> QED BY <1>2, <3>1
  <2> QED BY <2>1, <2>2
<1>4. Cardinality(C) = a + b + c
  <2>1. a \in {0, 1} /\ b \in {0, 1}
    OBVIOUS
  <2>2. CASE 2 \in X
    <3>1. C = B \cup {2} /\ c = 1
      BY <2>2
    <3> HIDE DEF B, C, a, b, c
    <3> QED BY <1>3, <3>1, FS_AddElement
  <2>3. CASE 2 \notin X
    <3>1. C = B /\ c = 0
      BY <2>3
    <3> HIDE DEF B, C, a, b, c
    <3> QED BY <1>3, <2>1, <3>1
  <2> QED BY <2>2, <2>3
<1>5. C = X
  BY DEF A
<1> HIDE DEF C
<1> QED BY <1>4, <1>5

\* A finished datagram finds records for what it puts in flight, and fits the path.
LEMMA Finished ==
    ASSUME NEW q, Kept(q), Context, NEW d, Filled(q, d, 3)
    PROVE  /\ InFlight(d) \subseteq Built(d) /\ Built(d) \subseteq tx /\ Built(d) \subseteq Lvls
           /\ \A l \in InFlight(d) : Record(d, l) \in Sent
           /\ Flies(d, 0) + Flies(d, 1) + Flies(d, 2) <= rec_free(q.rec)
           /\ Cardinality(InFlight(d)) <= rec_free(q.rec)
           /\ SizeAt(d, 0) + SizeAt(d, 1) + SizeAt(d, 2) <= MDS
           /\ SizeAt(d, 0) \in Nat /\ SizeAt(d, 1) \in Nat /\ SizeAt(d, 2) \in Nat
<1>1. 0 \in Lvls /\ 1 \in Lvls /\ 2 \in Lvls /\ Lvls = {0, 1, 2} /\ MDS \in Nat
  BY ConstantTypes DEF Lvls
<1>2. d \in Datagrams /\ Packets(q, d) /\ Counts(q, d)
  BY DEF Filled
<1>3. InFlight(d) \subseteq Built(d) /\ Padding(d) \subseteq Built(d) /\ Built(d) \subseteq Lvls
      /\ Padding(d) \subseteq InFlight(d)
  BY DEF InFlight, Padding, Built
<1>4. Built(d) \subseteq tx /\ \A l \in Built(d) : d.pk[l].size >= 1
  BY <1>2 DEF Built, Packets
<1>5. /\ d.pos = d.pk[0].size + d.pk[1].size + d.pk[2].size
      /\ d.free + Takes(d, 0) + Takes(d, 1) + Takes(d, 2) = rec_free(q.rec)
  BY <1>2 DEF Counts
<1>6. \A l \in Lvls : d.pk[l].size \in Nat /\ d.pk[l].elicit \in BOOLEAN /\ d.pk[l].off \in Nat
                      /\ d.pk[l].len \in Nat
  BY <1>2, FilledTypes
<1>7. d.pos \in Nat /\ d.pos <= MDS /\ d.free \in Nat
  BY <1>1, <1>2, FilledTypes
<1>8. \A l \in Lvls : d.pk[l].size <= d.pos
  <2>1. d.pk[0].size \in Nat /\ d.pk[1].size \in Nat /\ d.pk[2].size \in Nat
    BY <1>1, <1>6
  <2>2. d.pk[0].size <= d.pos /\ d.pk[1].size <= d.pos /\ d.pk[2].size <= d.pos
    BY <1>5, <2>1
  <2> QED BY <1>1, <2>2
<1> DEFINE extra(l) == IF l \in Padding(d) THEN MDS - d.pos ELSE 0
<1>9. \A l \in Lvls : extra(l) \in Nat /\ SizeAt(d, l) \in Nat
                      /\ SizeAt(d, l) <= d.pk[l].size + extra(l)
  <2> SUFFICES ASSUME NEW l \in Lvls
               PROVE  extra(l) \in Nat /\ SizeAt(d, l) \in Nat
                      /\ SizeAt(d, l) <= d.pk[l].size + extra(l)
    OBVIOUS
  <2>1. d.pk[l].size \in Nat
    BY <1>6
  <2>2. CASE l \in Padding(d)
    <3>1. SizeAt(d, l) = d.pk[l].size + MDS - d.pos /\ extra(l) = MDS - d.pos
      BY <1>3, <2>2 DEF SizeAt, Record
    <3> HIDE DEF extra
    <3> QED BY <1>1, <1>7, <2>1, <3>1
  <2>3. CASE l \notin Padding(d)
    <3>1. (SizeAt(d, l) = d.pk[l].size \/ SizeAt(d, l) = 0) /\ extra(l) = 0
      BY <2>3 DEF SizeAt, Record
    <3> HIDE DEF extra
    <3> QED BY <2>1, <3>1
  <2> QED BY <2>2, <2>3
<1>10. extra(0) + extra(1) + extra(2) <= MDS - d.pos
  <2>1. \A l, k \in Padding(d) : l = k
    <3> SUFFICES ASSUME NEW l \in Padding(d), NEW k \in Padding(d) PROVE l = k
      OBVIOUS
    <3>1. l <= k /\ k <= l
      BY DEF Padding
    <3>2. l \in Nat /\ k \in Nat
      BY <1>1, <1>3
    <3> QED BY <3>1, <3>2
  <2>2. 0 \notin Padding(d) \/ 1 \notin Padding(d)
    BY <2>1
  <2>3. 0 \notin Padding(d) \/ 2 \notin Padding(d)
    BY <2>1
  <2>4. 1 \notin Padding(d) \/ 2 \notin Padding(d)
    BY <2>1
  <2> QED BY <1>1, <1>7, <2>2, <2>3, <2>4
<1>11. SizeAt(d, 0) + SizeAt(d, 1) + SizeAt(d, 2) <= MDS
  <2>1. /\ SizeAt(d, 0) \in Nat /\ SizeAt(d, 0) <= d.pk[0].size + extra(0)
        /\ SizeAt(d, 1) \in Nat /\ SizeAt(d, 1) <= d.pk[1].size + extra(1)
        /\ SizeAt(d, 2) \in Nat /\ SizeAt(d, 2) <= d.pk[2].size + extra(2)
        /\ extra(0) \in Nat /\ extra(1) \in Nat /\ extra(2) \in Nat
        /\ d.pk[0].size \in Nat /\ d.pk[1].size \in Nat /\ d.pk[2].size \in Nat
    BY <1>1, <1>6, <1>9
  <2> HIDE DEF extra
  <2> QED BY <1>1, <1>5, <1>7, <1>10, <2>1
<1>12. \A l \in InFlight(d) : Record(d, l) \in Sent
  <2> SUFFICES ASSUME NEW l \in InFlight(d) PROVE Record(d, l) \in Sent
    OBVIOUS
  <2>1. l \in Lvls /\ d.pk[l].size >= 1 /\ d.pk[l].size \in Nat /\ d.pk[l].size <= d.pos
    BY <1>3, <1>4, <1>6, <1>8
  <2>2. tx_pn[l] \in Nat /\ now \in Nat
    BY <2>1 DEF Context
  <2> DEFINE sz == IF l \in Padding(d) THEN d.pk[l].size + MDS - d.pos ELSE d.pk[l].size
  <2>3. sz \in 1..MDS
    BY <1>1, <1>7, <2>1
  <2> HIDE DEF sz
  <2>4. Record(d, l) = [lvl |-> l, pn |-> tx_pn[l], t |-> now, size |-> sz,
                        elicit |-> d.pk[l].elicit, off |-> d.pk[l].off, len |-> d.pk[l].len]
    BY DEF Record, sz
  <2> QED BY <1>6, <2>1, <2>2, <2>3, <2>4 DEF Sent
<1>13. \A l \in Lvls : Flies(d, l) <= Takes(d, l) /\ Flies(d, l) \in {0, 1}
                       /\ Takes(d, l) \in {0, 1}
  <2>1. \A l \in Lvls : l \in InFlight(d) => d.pk[l] # NoPacket /\ (d.pk[l].elicit \/ d.pad)
    BY DEF InFlight, Padding, Built
  <2> QED BY <2>1 DEF Flies, Takes
<1>14. Flies(d, 0) + Flies(d, 1) + Flies(d, 2) <= rec_free(q.rec)
  <2>1. /\ Flies(d, 0) <= Takes(d, 0) /\ Flies(d, 1) <= Takes(d, 1) /\ Flies(d, 2) <= Takes(d, 2)
        /\ Flies(d, 0) \in {0, 1} /\ Flies(d, 1) \in {0, 1} /\ Flies(d, 2) \in {0, 1}
        /\ Takes(d, 0) \in {0, 1} /\ Takes(d, 1) \in {0, 1} /\ Takes(d, 2) \in {0, 1}
    BY <1>1, <1>13
  <2>2. rec_free(q.rec) \in Nat
    BY FreeNat
  <2> QED BY <1>5, <1>7, <2>1, <2>2
<1>15. Cardinality(InFlight(d)) = Flies(d, 0) + Flies(d, 1) + Flies(d, 2)
  <2>1. InFlight(d) \subseteq {0, 1, 2}
    BY <1>1, <1>3
  <2> QED BY <2>1, CardThree DEF Flies
<1> QED BY <1>1, <1>3, <1>4, <1>9, <1>11, <1>12, <1>14, <1>15

-----------------------------------------------------------------------------
(* The send call *)

\* What a call that built the datagram d leaves, before the Initial space ends.
Final(d) == [d.q EXCEPT !.rec = AllRecorded(d.q.rec, d)]
Pns(d) == [l \in Lvls |-> IF l \in Built(d) THEN tx_pn[l] + 1 ELSE tx_pn[l]]

\* The new records are those of the packets in flight.
LEMMA FlyingRecords ==
    ASSUME NEW d, InFlight(d) \subseteq Lvls, NEW x
    PROVE  x \in AllRecords(d) <=> \E l \in InFlight(d) : x = Record(d, l)
<1>1. Lvls = {0, 1, 2}
  BY DEF Lvls
<1> QED BY <1>1 DEF AllRecords, RecordsAt

\* Its parts.
LEMMA FinalTypes ==
    ASSUME NEW q, Kept(q), Context, NEW d, Filled(q, d, 3)
    PROVE  /\ Final(d) \in States
           /\ Wrote(q.rec, Final(d).rec, AllRecords(d))
           /\ Final(d).probe = d.q.probe /\ Final(d).ret_sent = d.q.ret_sent
           /\ Final(d).crypto_acked = q.crypto_acked
           /\ Final(d).rec.in_flight
                = q.rec.in_flight + SizeAt(d, 0) + SizeAt(d, 1) + SizeAt(d, 2)
<1>1. q.rec \in Recovery /\ d.q.rec = q.rec /\ d.q \in States /\ d.q.crypto_acked = q.crypto_acked
  BY DEF Kept, States, Filled, Untouched, Datagrams
<1> DEFINE r == AllRecorded(q.rec, d)
<1>2. /\ Wrote(q.rec, r, AllRecords(d))
      /\ r.in_flight = q.rec.in_flight + SizeAt(d, 0) + SizeAt(d, 1) + SizeAt(d, 2)
  BY <1>1, Finished, DatagramRecorded
<1>3. r \in Recovery
  BY <1>2 DEF Wrote
<1>4. Final(d) = [d.q EXCEPT !.rec = r]
  BY <1>1 DEF Final
<1> HIDE DEF r
<1>5. Final(d) \in States /\ Final(d).rec = r /\ Final(d).probe = d.q.probe
      /\ Final(d).ret_sent = d.q.ret_sent /\ Final(d).crypto_acked = d.q.crypto_acked
  BY <1>1, <1>3, <1>4 DEF States
<1> QED BY <1>1, <1>2, <1>5

\* The packet numbers go on.
LEMMA PnsGrow ==
    ASSUME Context, NEW d, NEW l \in Lvls
    PROVE  /\ Pns(d)[l] \in Nat /\ tx_pn[l] \in Nat /\ tx_pn[l] <= Pns(d)[l]
           /\ l \in Built(d) => tx_pn[l] < Pns(d)[l]
<1>1. tx_pn[l] \in Nat
  BY DEF Context
<1> QED BY <1>1 DEF Pns

LEMMA SendBooked ==
    ASSUME NEW q, Kept(q), Context, NEW d, Filled(q, d, 3)
    PROVE  Booked(Final(d), tx, Pns(d))
<1> DEFINE y == Final(d)
<1>1. /\ y \in States /\ Wrote(q.rec, y.rec, AllRecords(d)) /\ y.probe = d.q.probe
      /\ y.crypto_acked = q.crypto_acked
  BY FinalTypes
<1>2. InFlight(d) \subseteq Built(d) /\ Built(d) \subseteq tx /\ Built(d) \subseteq Lvls
  BY Finished
<1>3. now \in Nat
  BY DEF Context
<1> HIDE DEF y
<1>4. ASSUME NEW i \in Outstanding(y.rec)
      PROVE  LET x == y.rec.s[i] IN
             x.lvl \in tx /\ x.pn < Pns(d)[x.lvl] /\ x.t <= now /\ (x.len > 0 => x.elicit)
  <2>1. CASE i \in Outstanding(q.rec)
    <3> DEFINE x == q.rec.s[i]
    <3>1. y.rec.s[i] = x
      BY <1>1, <2>1 DEF Wrote
    <3>2. x.lvl \in tx /\ x.pn < tx_pn[x.lvl] /\ x.t <= now /\ (x.len > 0 => x.elicit)
      BY <2>1 DEF Kept, Booked
    <3>3. i \in Slots /\ q.rec \in Recovery
      BY <2>1 DEF Outstanding, Kept, States
    <3>4. x.lvl \in Lvls /\ x.pn \in Nat
      BY <2>1, <3>3, RecordTypes
    <3> HIDE DEF x
    <3>5. tx_pn[x.lvl] <= Pns(d)[x.lvl] /\ tx_pn[x.lvl] \in Nat /\ Pns(d)[x.lvl] \in Nat
      BY <3>4, PnsGrow
    <3>6. x.pn < Pns(d)[x.lvl]
      BY <3>2, <3>4, <3>5
    <3> QED BY <3>1, <3>2, <3>6
  <2>2. CASE i \notin Outstanding(q.rec)
    <3>1. y.rec.s[i] \in AllRecords(d)
      BY <1>1, <2>2 DEF Wrote
    <3>2. InFlight(d) \subseteq Lvls
      BY <1>2
    <3>3. PICK l \in InFlight(d) : y.rec.s[i] = Record(d, l)
      BY <3>1, <3>2, FlyingRecords
    <3>4. l \in Built(d) /\ l \in tx /\ l \in Lvls
      BY <1>2
    <3>5. tx_pn[l] < Pns(d)[l]
      BY <3>4, PnsGrow
    <3>6. d.pk[l].len > 0 => d.pk[l].elicit
      BY <3>4 DEF Filled, Packets
    <3>7. /\ Record(d, l).lvl = l /\ Record(d, l).pn = tx_pn[l] /\ Record(d, l).t = now
          /\ Record(d, l).len = d.pk[l].len /\ Record(d, l).elicit = d.pk[l].elicit
      BY DEF Record
    <3> QED BY <1>3, <3>3, <3>4, <3>5, <3>6, <3>7
  <2> QED BY <2>1, <2>2
<1>5. ASSUME NEW l \in Lvls
      PROVE  /\ y.rec.largest_acked[l] < Pns(d)[l] /\ y.rec.last_elicit[l] <= now
             /\ y.probe[l] # 0 => l \in tx
             /\ Pns(d)[l] = 0 => y.crypto_acked[l] = {}
  <2>1. /\ q.rec.largest_acked[l] < tx_pn[l] /\ q.rec.last_elicit[l] <= now
        /\ q.probe[l] # 0 => l \in tx
        /\ tx_pn[l] = 0 => q.crypto_acked[l] = {}
    BY DEF Kept, Booked
  <2>2. tx_pn[l] \in Nat /\ Pns(d)[l] \in Nat /\ tx_pn[l] <= Pns(d)[l]
    BY PnsGrow
  <2>3. q.rec.largest_acked[l] \in Int
    BY DEF Kept, States, Recovery, NONE
  <2>4. y.rec.largest_acked = q.rec.largest_acked
    BY <1>1 DEF Wrote
  <2>5. y.rec.last_elicit[l] = now \/ y.rec.last_elicit[l] = q.rec.last_elicit[l]
    BY <1>1 DEF Wrote
  <2>6. y.rec.last_elicit[l] <= now
    BY <1>3, <2>1, <2>5
  <2>7. y.probe[l] <= q.probe[l] /\ y.probe[l] \in Nat /\ q.probe[l] \in Nat
    <3>1. d.q.probe[l] <= q.probe[l]
      BY DEF Filled, Packets
    <3>2. y.probe \in [Lvls -> 0..2] /\ q.probe \in [Lvls -> 0..2]
      BY <1>1 DEF Kept, States
    <3> QED BY <1>1, <3>1, <3>2
  <2>8. y.rec.largest_acked[l] < Pns(d)[l]
    BY <2>1, <2>2, <2>3, <2>4
  <2>9. y.probe[l] # 0 => l \in tx
    BY <2>1, <2>7
  <2>10. Pns(d)[l] = 0 => tx_pn[l] = 0
    BY <2>2
  <2> QED BY <1>1, <2>1, <2>6, <2>8, <2>9, <2>10
<1>6. y.rec.recovery_start <= now /\ y.rec.cwnd >= MINWIN
  BY <1>1 DEF Wrote, Kept, Booked
<1>7. Booked(y, tx, Pns(d))
  BY <1>4, <1>5, <1>6 DEF Booked
<1> QED BY <1>7 DEF y

\* What is counted as sent is in a packet's record.
LEMMA SendResent ==
    ASSUME NEW q, Kept(q), Context, NEW d, Filled(q, d, 3)
    PROVE  Resent(Final(d), ret_len)
<1> DEFINE y == Final(d)
<1>1. /\ y \in States /\ Wrote(q.rec, y.rec, AllRecords(d)) /\ y.ret_sent = d.q.ret_sent
      /\ y.crypto_acked = q.crypto_acked
  BY FinalTypes
<1>2. InFlight(d) \subseteq Built(d) /\ Built(d) \subseteq tx /\ Built(d) \subseteq Lvls
  BY Finished
<1> HIDE DEF y
<1> SUFFICES ASSUME NEW l \in {0, 1}
             PROVE  y.ret_sent[l] <= ret_len[l] /\ Unforgotten(y, l)
  BY DEF Resent, y
<1>3. l \in Lvls
  BY DEF Lvls
<1>4. /\ d.q.ret_sent[l] <= ret_len[l]
      /\ d.pk[l].len > 0 => /\ d.pk[l].off = q.ret_sent[l]
                            /\ d.q.ret_sent[l] = q.ret_sent[l] + d.pk[l].len
      /\ d.pk[l].len = 0 => d.q.ret_sent[l] = q.ret_sent[l]
  BY DEF Filled, Spans
<1>5. d.pk[l].len \in Nat /\ d.pk[l].off \in Nat /\ q.ret_sent[l] \in Nat
  <2>1. d \in Datagrams
    BY DEF Filled
  <2>2. q.ret_sent \in [{0, 1} -> Nat]
    BY DEF Kept, States
  <2> QED BY <1>3, <2>1, <2>2, FilledTypes
<1>6. \A i \in OutstandingAt(q.rec, l) : i \in OutstandingAt(y.rec, l) /\ y.rec.s[i] = q.rec.s[i]
  BY <1>1 DEF Wrote, OutstandingAt
<1>7. ASSUME NEW b \in 0..(y.ret_sent[l] - 1)
      PROVE  b \in y.crypto_acked[l] \cup CryptoBytes(y.rec, OutstandingAt(y.rec, l), l)
  <2>1. y.ret_sent[l] \in Nat
    BY <1>1 DEF States
  <2>2. b \in Nat /\ b < y.ret_sent[l]
    BY <2>1
  <2>3. CASE b < q.ret_sent[l]
    <3>1. b \in 0..(q.ret_sent[l] - 1)
      BY <1>5, <2>2, <2>3
    <3>2. b \in q.crypto_acked[l] \cup CryptoBytes(q.rec, OutstandingAt(q.rec, l), l)
      BY <3>1 DEF Kept, Resent, Unforgotten
    <3>3. CryptoBytes(q.rec, OutstandingAt(q.rec, l), l)
            \subseteq CryptoBytes(y.rec, OutstandingAt(y.rec, l), l)
      BY <1>6 DEF CryptoBytes
    <3> QED BY <1>1, <3>2, <3>3
  <2>4. CASE ~(b < q.ret_sent[l])
    <3>1. d.pk[l].len > 0
      BY <1>1, <1>4, <1>5, <2>2, <2>4
    <3>2. b \in d.pk[l].off..(d.pk[l].off + d.pk[l].len - 1)
      BY <1>1, <1>4, <1>5, <2>2, <2>4, <3>1
    <3>3. l \in InFlight(d)
      <4>1. d.pk[l].elicit
        BY <1>3, <3>1 DEF Filled, Packets
      <4>2. d.pk[l] # NoPacket
        BY <4>1 DEF NoPacket
      <4> QED BY <1>3, <4>1, <4>2 DEF InFlight, Built
    <3>4. Record(d, l) \in AllRecords(d)
      <4>1. InFlight(d) \subseteq Lvls
        BY <1>2
      <4> QED BY <3>3, <4>1, FlyingRecords
    <3>5. PICK i \in Outstanding(y.rec) : y.rec.s[i] = Record(d, l)
      BY <1>1, <3>4 DEF Wrote
    <3>6. y.rec.s[i].lvl = l /\ y.rec.s[i].off = d.pk[l].off /\ y.rec.s[i].len = d.pk[l].len
      BY <3>5 DEF Record
    <3>7. i \in OutstandingAt(y.rec, l)
      BY <3>6 DEF OutstandingAt
    <3>8. b \in y.rec.s[i].off..(y.rec.s[i].off + y.rec.s[i].len - 1)
      BY <3>2, <3>6
    <3>9. b \in CryptoBytes(y.rec, OutstandingAt(y.rec, l), l)
      BY <3>7, <3>8, CryptoBytesIn
    <3> QED BY <3>9
  <2> QED BY <2>3, <2>4
<1> QED BY <1>1, <1>4, <1>7 DEF Unforgotten

\* 1-RTT packets only follow Handshake packets: the Finished goes first, and what was sent of it
\* is in flight.
LEMMA SendUnvalidated ==
    ASSUME NEW q, Kept(q), Context, Levels, NEW d, Filled(q, d, 3)
    PROVE  Unvalidated(Final(d))
<1> DEFINE y == Final(d)
<1>1. /\ y \in States /\ Wrote(q.rec, y.rec, AllRecords(d)) /\ y.probe = d.q.probe
      /\ y.crypto_acked = q.crypto_acked
  BY FinalTypes
<1>2. InFlight(d) \subseteq Built(d) /\ Built(d) \subseteq tx /\ Built(d) \subseteq Lvls
  BY Finished
<1>3. y.rec.hs_acked = q.rec.hs_acked /\ y.rec.largest_acked = q.rec.largest_acked
  BY <1>1 DEF Wrote
<1> HIDE DEF y
<1> SUFFICES ASSUME ~q.rec.hs_acked, ~confirmed PROVE Unvalidated(y)
  BY <1>3 DEF Unvalidated, y
<1>4. /\ q.rec.largest_acked[1] = NONE /\ q.crypto_acked[1] = {} /\ q.probe[2] = 0
      /\ Eliciting(q.rec, 2) # {} => Eliciting(q.rec, 1) # {}
  BY DEF Kept, Unvalidated
<1>5. 1 \in Lvls /\ 2 \in Lvls
  BY DEF Lvls
<1>6. y.probe[2] = 0
  <2>1. d.q.probe[2] <= q.probe[2]
    BY <1>5 DEF Filled, Packets
  <2>2. y.probe[2] \in Nat
    BY <1>1, <1>5 DEF States
  <2> QED BY <1>1, <1>4, <2>1, <2>2
<1>7. \A k : Eliciting(q.rec, k) \subseteq Eliciting(y.rec, k)
  <2>1. \A i \in Outstanding(q.rec) : i \in Outstanding(y.rec) /\ y.rec.s[i] = q.rec.s[i]
    BY <1>1 DEF Wrote
  <2> QED BY <2>1 DEF Eliciting, OutstandingAt
<1>8. ASSUME Eliciting(y.rec, 2) # {} PROVE Eliciting(y.rec, 1) # {}
  <2>1. CASE Eliciting(q.rec, 2) # {}
    BY <1>4, <1>7, <2>1
  <2>2. CASE Eliciting(q.rec, 2) = {}
    <3>1. PICK i \in Eliciting(y.rec, 2) : i \notin Eliciting(q.rec, 2)
      BY <1>8, <2>2
    <3>2. i \in Outstanding(y.rec) /\ y.rec.s[i].lvl = 2 /\ y.rec.s[i].elicit
      BY DEF Eliciting, OutstandingAt
    <3>3. i \notin Outstanding(q.rec)
      <4>1. i \in Outstanding(q.rec) => y.rec.s[i] = q.rec.s[i]
        BY <1>1 DEF Wrote
      <4> QED BY <3>1, <3>2, <4>1 DEF Eliciting, OutstandingAt
    <3>4. y.rec.s[i] \in AllRecords(d)
      BY <1>1, <3>2, <3>3 DEF Wrote
    <3>5. PICK l \in InFlight(d) : y.rec.s[i] = Record(d, l)
      <4>1. InFlight(d) \subseteq Lvls
        BY <1>2
      <4> QED BY <3>4, <4>1, FlyingRecords
    <3>6. l = 2 /\ d.pk[2].elicit
      BY <3>2, <3>5 DEF Record
    <3>7. d.pk[2] # NoPacket
      BY <3>6 DEF NoPacket
    <3>8. established
      BY <1>5, <3>7 DEF Filled, Packets
    <3>9. 1 \in tx /\ ret_len[1] > 0
      BY <3>8 DEF Levels
    <3>10. CASE q.ret_sent[1] < ret_len[1]
      <4>1. d.pk[1].elicit
        BY <1>4, <3>6, <3>9, <3>10 DEF Filled, Firsts
      <4>2. 1 \in InFlight(d)
        BY <1>5, <4>1 DEF InFlight, Built, NoPacket
      <4>3. Record(d, 1) \in AllRecords(d)
        <5>1. InFlight(d) \subseteq Lvls
          BY <1>2
        <5> QED BY <4>2, <5>1, FlyingRecords
      <4>4. PICK j \in Outstanding(y.rec) : y.rec.s[j] = Record(d, 1)
        BY <1>1, <4>3 DEF Wrote
      <4>5. j \in Eliciting(y.rec, 1)
        BY <4>1, <4>4 DEF Eliciting, OutstandingAt, Record
      <4> QED BY <4>5
    <3>11. CASE ~(q.ret_sent[1] < ret_len[1])
      <4>1. q.ret_sent[1] \in Nat /\ ret_len[1] \in Nat
        BY DEF Kept, States, Context
      <4>2. 0 \in 0..(q.ret_sent[1] - 1)
        BY <3>9, <3>11, <4>1
      <4>3. 0 \in q.crypto_acked[1] \cup CryptoBytes(q.rec, OutstandingAt(q.rec, 1), 1)
        BY <4>2 DEF Kept, Resent, Unforgotten
      <4>4. PICK j \in OutstandingAt(q.rec, 1) :
              0 \in q.rec.s[j].off..(q.rec.s[j].off + q.rec.s[j].len - 1)
        BY <1>4, <4>3, CryptoBytesIn
      <4>5. j \in Outstanding(q.rec) /\ j \in Slots /\ q.rec \in Recovery
        BY DEF OutstandingAt, Outstanding, Kept, States
      <4>6. q.rec.s[j].off \in Nat /\ q.rec.s[j].len \in Nat
        BY <4>5, RecordTypes
      <4>7. q.rec.s[j].len > 0
        BY <4>4, <4>6
      <4>8. q.rec.s[j].elicit
        BY <4>5, <4>7 DEF Kept, Booked
      <4>9. j \in Eliciting(q.rec, 1)
        BY <4>8 DEF Eliciting
      <4> QED BY <1>7, <4>9
    <3> QED BY <3>10, <3>11
  <2> QED BY <2>1, <2>2
<1> QED BY <1>1, <1>3, <1>4, <1>6, <1>8 DEF Unvalidated

\* With no record in use, there is nothing in flight.
LEMMA NothingFlies ==
    ASSUME NEW q, Kept(q), Outstanding(q.rec) = {}
    PROVE  can_send(q.rec) /\ rec_free(q.rec) > 2
<1>1. q.rec \in Recovery
  BY DEF Kept, States
<1>2. q.rec.in_flight = 0
  <2> DEFINE f == [i \in Slots |-> q.rec.s[i].size]
  <2>1. SumFunctionOnSet(f, {}) = 0
    <3> HIDE DEF f
    <3> QED BY SumEmpty
  <2> QED BY <2>1 DEF Kept, Accounted, SizeOf
<1>3. MDS \in Nat /\ SENT \in Nat /\ SENT > 2 /\ MINWIN = 2 * MDS
  BY RecoveryAssumption DEF MINWIN
<1>4. can_send(q.rec)
  <2>1. q.rec.cwnd \in Nat /\ q.rec.cwnd >= MINWIN
    BY <1>1 DEF Kept, Booked, Recovery
  <2> QED BY <1>2, <1>3, <2>1 DEF can_send
<1>5. rec_free(q.rec) = SENT
  <2>1. Slots \ Outstanding(q.rec) = Slots
    OBVIOUS
  <2> QED BY <2>1, SlotsFinite DEF rec_free
<1> QED BY <1>3, <1>4, <1>5

\* While nothing was sent, no record is in use and the ClientHello is whole.
LEMMA NothingSent ==
    ASSUME NEW q, Kept(q), Context, \A l \in Lvls : tx_pn[l] = 0
    PROVE  Outstanding(q.rec) = {} /\ q.ret_sent[0] = 0
<1>1. q.rec \in Recovery /\ 0 \in Lvls
  BY DEF Kept, States, Lvls
<1>2. Outstanding(q.rec) = {}
  <2> SUFFICES ASSUME NEW i \in Outstanding(q.rec) PROVE FALSE
    OBVIOUS
  <2>1. i \in Slots
    BY DEF Outstanding
  <2>2. q.rec.s[i].lvl \in Lvls /\ q.rec.s[i].pn \in Nat
    BY <1>1, <2>1, RecordTypes
  <2>3. q.rec.s[i].pn < tx_pn[q.rec.s[i].lvl]
    BY DEF Kept, Booked
  <2>4. q.rec.s[i].pn < 0
    BY <2>2, <2>3
  <2> QED BY <2>2, <2>4
<1>3. q.ret_sent[0] \in Nat
  BY DEF Kept, States
<1>4. q.crypto_acked[0] = {}
  BY <1>1 DEF Kept, Booked
<1>5. OutstandingAt(q.rec, 0) = {}
  BY <1>2 DEF OutstandingAt
<1>6. q.ret_sent[0] = 0
  <2>1. CASE q.ret_sent[0] # 0
    <3>1. 0 \in 0..(q.ret_sent[0] - 1)
      BY <1>3, <2>1
    <3>2. 0 \in q.crypto_acked[0] \cup CryptoBytes(q.rec, OutstandingAt(q.rec, 0), 0)
      BY <3>1 DEF Kept, Resent, Unforgotten
    <3> QED BY <1>4, <1>5, <3>2, CryptoBytesIn
  <2> QED BY <2>1
<1> QED BY <1>2, <1>6

\* The first datagram of all, and the first after a Retry, asks for an answer: it has the
\* ClientHello.
LEMMA SendAnchored ==
    ASSUME NEW q, Kept(q), Context, Levels, NEW d, Filled(q, d, 3)
    PROVE  Anchored(Final(d), tx, Pns(d))
<1> DEFINE y == Final(d)
<1>1. Wrote(q.rec, y.rec, AllRecords(d))
  BY FinalTypes
<1>2. y.rec.hs_acked = q.rec.hs_acked
  BY <1>1 DEF Wrote
<1>3. InFlight(d) \subseteq Lvls
  BY Finished
<1> HIDE DEF y
<1> SUFFICES ASSUME ~q.rec.hs_acked, ~confirmed PROVE Anchored(y, tx, Pns(d))
  BY <1>2 DEF Anchored, y
<1>4. now # NONE
  BY DEF Context, NONE
<1>5. 0 \in Lvls /\ 1 \in Lvls
  BY DEF Lvls
<1>6. \A l \in Lvls : q.rec.last_elicit[l] # NONE => y.rec.last_elicit[l] # NONE
  BY <1>1, <1>4 DEF Wrote
<1>7. /\ 0 \in tx /\ (\E l \in Lvls : tx_pn[l] > 0) =>
             q.rec.last_elicit[0] # NONE \/ Restarted(q, tx)
      /\ 0 \notin tx => 1 \in tx /\ q.rec.last_elicit[1] # NONE
  BY DEF Kept, Anchored
<1>8. ASSUME 0 \in tx PROVE y.rec.last_elicit[0] # NONE
  <2>1. CASE q.rec.last_elicit[0] # NONE
    BY <1>5, <1>6, <2>1
  <2>2. CASE q.rec.last_elicit[0] = NONE
    <3>1. Outstanding(q.rec) = {} /\ q.ret_sent[0] = 0
      <4>1. CASE Restarted(q, tx)
        BY <4>1 DEF Restarted
      <4>2. CASE ~\E l \in Lvls : tx_pn[l] > 0
        <5>1. \A l \in Lvls : tx_pn[l] = 0
          BY <4>2 DEF Context
        <5> QED BY <5>1, NothingSent
      <4> QED BY <1>7, <1>8, <2>2, <4>1, <4>2
    <3>2. can_send(q.rec) /\ rec_free(q.rec) > 2
      BY <3>1, NothingFlies
    <3>3. q.ret_sent[0] < ret_len[0]
      BY <1>8, <3>1 DEF Levels
    <3>4. d.pk[0].elicit
      BY <1>8, <3>2, <3>3 DEF Filled, Firsts
    <3>5. 0 \in InFlight(d)
      BY <1>5, <3>4 DEF InFlight, Built, NoPacket
    <3>6. Record(d, 0) \in AllRecords(d) /\ Record(d, 0).lvl = 0 /\ Record(d, 0).elicit
      BY <1>3, <3>4, <3>5, FlyingRecords DEF Record
    <3>7. y.rec.last_elicit[0] = now
      BY <1>1, <1>5, <3>6 DEF Wrote
    <3> QED BY <1>4, <3>7
  <2> QED BY <2>1, <2>2
<1> QED BY <1>5, <1>6, <1>7, <1>8 DEF Anchored

\* A call of send keeps the invariant.
LEMMA SendKeeps ==
    ASSUME NEW q, Kept(q), Overtaken(q.rec), Context, Levels, NEW d, Filled(q, d, 3)
    PROVE  Final(d) \in States /\ Sound(Final(d), tx, Pns(d), ret_len)
<1> DEFINE y == Final(d)
<1>1. y \in States /\ Wrote(q.rec, y.rec, AllRecords(d))
  BY FinalTypes
<1>2. Booked(y, tx, Pns(d)) /\ Resent(y, ret_len) /\ Unvalidated(y) /\ Anchored(y, tx, Pns(d))
  BY SendBooked, SendResent, SendUnvalidated, SendAnchored
<1> HIDE DEF y
<1>3. Accounted(y.rec)
  BY <1>1 DEF Wrote, Kept
<1>4. Overtaken(y.rec)
  <2> SUFFICES ASSUME NEW l \in Lvls, y.rec.loss_time[l] # INT64_MAX
               PROVE  \E i \in OutstandingAt(y.rec, l) : y.rec.s[i].pn <= y.rec.largest_acked[l]
    BY DEF Overtaken, loss_armed
  <2>1. y.rec.loss_time = q.rec.loss_time /\ y.rec.largest_acked = q.rec.largest_acked
    BY <1>1 DEF Wrote
  <2>2. PICK i \in OutstandingAt(q.rec, l) : q.rec.s[i].pn <= q.rec.largest_acked[l]
    BY <2>1 DEF Overtaken, loss_armed
  <2>3. i \in OutstandingAt(y.rec, l) /\ y.rec.s[i] = q.rec.s[i]
    BY <1>1 DEF Wrote, OutstandingAt
  <2> QED BY <2>1, <2>2, <2>3
<1>5. Sound(y, tx, Pns(d), ret_len)
  BY <1>2, <1>3, <1>4 DEF Sound
<1> QED BY <1>1, <1>5 DEF y

-----------------------------------------------------------------------------
(* The end of a packet number space *)

\* Its records go, the others stay, and the bytes in flight are theirs.
LEMMA Discarded ==
    ASSUME NEW r \in Recovery, Accounted(r), NEW l \in Lvls
    PROVE  LET y == rec_discard(r, l) IN
           /\ y \in Recovery /\ Accounted(y)
           /\ Outstanding(y) = Outstanding(r) \ OutstandingAt(r, l)
           /\ \A i \in Outstanding(y) : y.s[i] = r.s[i]
           /\ y.largest_acked = r.largest_acked /\ y.hs_acked = r.hs_acked
           /\ y.recovery_start = r.recovery_start /\ y.cwnd = r.cwnd
           /\ y.loss_time = [r.loss_time EXCEPT ![l] = INT64_MAX]
           /\ y.last_elicit = [r.last_elicit EXCEPT ![l] = NONE]
           /\ y.in_flight <= r.in_flight
<1> DEFINE A == OutstandingAt(r, l)
           n == r.in_flight - SizeOf(r, A)
           s == [i \in Slots |-> IF r.s[i].lvl = l THEN Free ELSE r.s[i]]
           y == rec_discard(r, l)
<1>1. A \subseteq Outstanding(r) /\ Outstanding(r) \subseteq Slots
  BY RecordSets
<1>2. /\ SizeOf(r, Outstanding(r)) = SizeOf(r, A) + SizeOf(r, Outstanding(r) \ A)
      /\ SizeOf(r, A) \in Nat /\ SizeOf(r, Outstanding(r) \ A) \in Nat
      /\ SizeOf(r, Outstanding(r)) \in Nat
  <2> HIDE DEF A
  <2> QED BY <1>1, SizePart, ZenonT(40)
<1>3. n = SizeOf(r, Outstanding(r) \ A) /\ n \in Nat /\ n <= r.in_flight
  <2>1. r.in_flight = SizeOf(r, Outstanding(r))
    BY DEF Accounted
  <2> HIDE DEF A
  <2> QED BY <1>2, <2>1
<1>4. s \in [Slots -> Sent \cup {Free}]
  BY DEF Recovery
<1>5. y = [r EXCEPT !.s = s, !.in_flight = n, !.loss_time[l] = INT64_MAX,
                    !.last_elicit[l] = NONE, !.pto_count = 0]
  BY DEF rec_discard
<1> HIDE DEF y, n
<1>6. 0 \in 0..PTO_CAP /\ INT64_MAX \in 0..INT64_MAX
  BY ConstantTypes
<1>7. y \in Recovery
  <2> HIDE DEF s
  <2> QED BY <1>3, <1>4, <1>5, <1>6 DEF Recovery
<1>8. /\ y.s = s /\ y.in_flight = n
      /\ y.largest_acked = r.largest_acked /\ y.hs_acked = r.hs_acked
      /\ y.recovery_start = r.recovery_start /\ y.cwnd = r.cwnd
      /\ y.loss_time = [r.loss_time EXCEPT ![l] = INT64_MAX]
      /\ y.last_elicit = [r.last_elicit EXCEPT ![l] = NONE]
  <2> HIDE DEF s
  <2> QED BY <1>5 DEF Recovery
<1>9. Outstanding(y) = Outstanding(r) \ A
  BY <1>8 DEF Outstanding, OutstandingAt
<1>10. \A i \in Outstanding(y) : y.s[i] = r.s[i]
  BY <1>8 DEF Outstanding
<1>11. Accounted(y)
  <2>1. SizeOf(y, Outstanding(r) \ A) = SizeOf(r, Outstanding(r) \ A)
    <3>1. Outstanding(r) \ A \subseteq Slots
      BY <1>1
    <3>2. \A i \in Outstanding(r) \ A : y.s[i].size = r.s[i].size
      BY <1>9, <1>10
    <3> HIDE DEF A
    <3> QED BY <3>1, <3>2, SizeSame
  <2> QED BY <1>3, <1>8, <1>9, <2>1 DEF Accounted
<1> QED BY <1>3, <1>7, <1>8, <1>9, <1>10, <1>11 DEF y

\* From q to y, the space l ends; the timers of the others may be set.
Ended(q, y, l) ==
    /\ y \in States /\ Accounted(y.rec)
    /\ Outstanding(y.rec) = Outstanding(q.rec) \ OutstandingAt(q.rec, l)
    /\ \A i \in Outstanding(y.rec) : y.rec.s[i] = q.rec.s[i]
    /\ y.rec.largest_acked = q.rec.largest_acked /\ y.rec.hs_acked = q.rec.hs_acked
    /\ y.rec.recovery_start = q.rec.recovery_start /\ y.rec.cwnd = q.rec.cwnd
    /\ y.rec.in_flight <= q.rec.in_flight
    /\ y.rec.loss_time = [q.rec.loss_time EXCEPT ![l] = INT64_MAX]
    /\ \A k \in Lvls : y.rec.last_elicit[k] <= now
    /\ y.probe = [q.probe EXCEPT ![l] = 0] /\ y.ret_sent = [q.ret_sent EXCEPT ![l] = 0]
    /\ y.crypto_acked = q.crypto_acked

\* The rest of the connection's state is as sound as it was.
LEMMA EndedKeeps ==
    ASSUME NEW q \in States, NEW keys, NEW pns, NEW len \in [{0, 1} -> Nat],
           Booked(q, keys, pns), Resent(q, len), Overtaken(q.rec),
           NEW l \in {0, 1}, NEW y, Ended(q, y, l)
    PROVE  /\ Booked(y, keys \ {l}, pns) /\ Resent(y, [len EXCEPT ![l] = 0])
           /\ Overtaken(y.rec)
<1>1. l \in Lvls /\ y \in States /\ q.probe \in [Lvls -> 0..2] /\ q.ret_sent \in [{0, 1} -> Nat]
      /\ q.rec.loss_time \in [Lvls -> 0..INT64_MAX]
  BY DEF Lvls, Ended, States, Recovery
<1>2. \A k : k # l => OutstandingAt(y.rec, k) = OutstandingAt(q.rec, k)
  BY DEF Ended, OutstandingAt
<1>3. OutstandingAt(y.rec, l) = {}
  BY DEF Ended, OutstandingAt
<1>4. \A k : \A i \in OutstandingAt(y.rec, k) : y.rec.s[i] = q.rec.s[i]
  BY DEF Ended, OutstandingAt
<1>6. \A k \in Lvls : k # l => y.probe[k] = q.probe[k]
  BY <1>1 DEF Ended
<1>7. y.probe[l] = 0 /\ y.ret_sent[l] = 0
  BY <1>1 DEF Ended
<1>8. Booked(y, keys \ {l}, pns)
  <2>1. ASSUME NEW i \in Outstanding(y.rec)
        PROVE  LET x == y.rec.s[i] IN
               x.lvl \in keys \ {l} /\ x.pn < pns[x.lvl] /\ x.t <= now /\ (x.len > 0 => x.elicit)
    <3>1. i \in Outstanding(q.rec) /\ i \notin OutstandingAt(q.rec, l) /\ y.rec.s[i] = q.rec.s[i]
      BY <2>1 DEF Ended
    <3>2. q.rec.s[i].lvl # l
      BY <3>1 DEF OutstandingAt
    <3>3. LET x == q.rec.s[i] IN
          x.lvl \in keys /\ x.pn < pns[x.lvl] /\ x.t <= now /\ (x.len > 0 => x.elicit)
      BY <3>1 DEF Booked
    <3> QED BY <3>1, <3>2, <3>3
  <2>2. ASSUME NEW k \in Lvls
        PROVE  /\ y.rec.largest_acked[k] < pns[k] /\ y.rec.last_elicit[k] <= now
               /\ y.probe[k] # 0 => k \in keys \ {l}
               /\ pns[k] = 0 => y.crypto_acked[k] = {}
    <3>1. /\ q.rec.largest_acked[k] < pns[k] /\ (q.probe[k] # 0 => k \in keys)
          /\ pns[k] = 0 => q.crypto_acked[k] = {}
      BY DEF Booked
    <3>2. y.probe[k] # 0 => k \in keys \ {l}
      BY <1>6, <1>7, <3>1
    <3> QED BY <3>1, <3>2 DEF Ended
  <2>3. y.rec.recovery_start <= now /\ y.rec.cwnd >= MINWIN
    BY DEF Ended, Booked
  <2> QED BY <2>1, <2>2, <2>3 DEF Booked
<1>9. Resent(y, [len EXCEPT ![l] = 0])
  <2> SUFFICES ASSUME NEW k \in {0, 1}
               PROVE  y.ret_sent[k] <= [len EXCEPT ![l] = 0][k] /\ Unforgotten(y, k)
    BY DEF Resent
  <2>1. CASE k = l
    <3>1. [len EXCEPT ![l] = 0][k] = 0
      BY <2>1
    <3>2. Unforgotten(y, k)
      BY <1>7, <2>1 DEF Unforgotten
    <3> QED BY <1>7, <2>1, <3>1, <3>2
  <2>2. CASE k # l
    <3>1. [len EXCEPT ![l] = 0][k] = len[k] /\ y.ret_sent[k] = q.ret_sent[k]
      BY <1>1, <2>2 DEF Ended
    <3>2. q.ret_sent[k] <= len[k] /\ Unforgotten(q, k)
      BY DEF Resent
    <3>3. CryptoBytes(y.rec, OutstandingAt(y.rec, k), k)
            = CryptoBytes(q.rec, OutstandingAt(q.rec, k), k)
      BY <1>2, <1>4, <2>2 DEF CryptoBytes
    <3>4. y.crypto_acked = q.crypto_acked
      BY DEF Ended
    <3>5. Unforgotten(y, k)
      BY <3>1, <3>2, <3>3, <3>4 DEF Unforgotten
    <3> QED BY <3>1, <3>2, <3>5
  <2> QED BY <2>1, <2>2
<1>10. Overtaken(y.rec)
  <2> SUFFICES ASSUME NEW k \in Lvls, y.rec.loss_time[k] # INT64_MAX
               PROVE  \E i \in OutstandingAt(y.rec, k) : y.rec.s[i].pn <= y.rec.largest_acked[k]
    BY DEF Overtaken, loss_armed
  <2>1. k # l /\ y.rec.loss_time[k] = q.rec.loss_time[k]
    BY <1>1 DEF Ended
  <2>2. PICK i \in OutstandingAt(q.rec, k) : q.rec.s[i].pn <= q.rec.largest_acked[k]
    BY <2>1 DEF Overtaken, loss_armed
  <2> QED BY <1>2, <1>4, <2>1, <2>2 DEF Ended
<1> QED BY <1>8, <1>9, <1>10

\* The other spaces are as they were.
LEMMA EndedOthers ==
    ASSUME NEW q \in States, NEW l, NEW y, Ended(q, y, l), NEW k \in Lvls, k # l
    PROVE  Eliciting(y.rec, k) = Eliciting(q.rec, k) /\ y.probe[k] = q.probe[k]
<1>1. OutstandingAt(y.rec, k) = OutstandingAt(q.rec, k)
  BY DEF Ended, OutstandingAt
<1>2. \A i \in OutstandingAt(y.rec, k) : y.rec.s[i] = q.rec.s[i]
  BY DEF Ended, OutstandingAt
<1>3. y.probe[k] = q.probe[k]
  <2>1. q.probe \in [Lvls -> 0..2]
    BY DEF States
  <2> QED BY <2>1 DEF Ended
<1> QED BY <1>1, <1>2, <1>3 DEF Eliciting

\* The Initial space ends.
LEMMA InitialEnded ==
    ASSUME NEW q \in States, Accounted(q.rec), NEW keys, NEW pns, Booked(q, keys, pns), Context
    PROVE  /\ Ended(q, InitialDone(q), 0)
           /\ q.rec.hs_acked \/ InitialDone(q).rec.last_elicit[1] # NONE
<1> DEFINE r == rec_discard(q.rec, 0)
           x == IF ~r.hs_acked /\ r.last_elicit[1] = NONE
                THEN [r EXCEPT !.last_elicit[1] = now] ELSE r
           y == InitialDone(q)
<1>1. q.rec \in Recovery /\ 0 \in Lvls /\ 1 \in Lvls /\ now \in Nat /\ NONE <= now /\ now # NONE
  BY DEF States, Lvls, Context, NONE
<1>2. /\ r \in Recovery /\ Accounted(r)
      /\ Outstanding(r) = Outstanding(q.rec) \ OutstandingAt(q.rec, 0)
      /\ \A i \in Outstanding(r) : r.s[i] = q.rec.s[i]
      /\ r.largest_acked = q.rec.largest_acked /\ r.hs_acked = q.rec.hs_acked
      /\ r.recovery_start = q.rec.recovery_start /\ r.cwnd = q.rec.cwnd
      /\ r.loss_time = [q.rec.loss_time EXCEPT ![0] = INT64_MAX]
      /\ r.last_elicit = [q.rec.last_elicit EXCEPT ![0] = NONE]
      /\ r.in_flight <= q.rec.in_flight
  BY <1>1, Discarded
<1>3. \A k \in Lvls : q.rec.last_elicit[k] <= now
  BY DEF Booked
<1>4. \A k \in Lvls : r.last_elicit[k] <= now
  BY <1>1, <1>2, <1>3 DEF Recovery
<1> HIDE DEF r
<1>5. /\ x \in Recovery /\ x.s = r.s /\ x.in_flight = r.in_flight
      /\ x.largest_acked = r.largest_acked /\ x.hs_acked = r.hs_acked
      /\ x.recovery_start = r.recovery_start /\ x.cwnd = r.cwnd /\ x.loss_time = r.loss_time
      /\ \A k \in Lvls : x.last_elicit[k] <= now
      /\ r.hs_acked \/ x.last_elicit[1] # NONE
  <2>1. CASE ~r.hs_acked /\ r.last_elicit[1] = NONE
    <3>1. x = [r EXCEPT !.last_elicit[1] = now]
      BY <2>1
    <3> HIDE DEF x
    <3>2. x \in Recovery /\ x.last_elicit = [r.last_elicit EXCEPT ![1] = now]
      BY <1>1, <1>2, <3>1 DEF Recovery
    <3>3. /\ x.s = r.s /\ x.in_flight = r.in_flight
          /\ x.largest_acked = r.largest_acked /\ x.hs_acked = r.hs_acked
          /\ x.recovery_start = r.recovery_start /\ x.cwnd = r.cwnd /\ x.loss_time = r.loss_time
      BY <1>2, <3>1 DEF Recovery
    <3>4. \A k \in Lvls : x.last_elicit[k] = IF k = 1 THEN now ELSE r.last_elicit[k]
      BY <1>2, <3>2 DEF Recovery
    <3>5. \A k \in Lvls : x.last_elicit[k] <= now
      BY <1>1, <1>4, <3>4
    <3> QED BY <1>1, <3>2, <3>3, <3>4, <3>5
  <2>2. CASE ~(~r.hs_acked /\ r.last_elicit[1] = NONE)
    <3>1. x = r
      BY <2>2
    <3> HIDE DEF x
    <3> QED BY <1>2, <1>4, <2>2, <3>1
  <2> QED BY <2>1, <2>2
<1>6. y = [q EXCEPT !.rec = x, !.probe[0] = 0, !.ret_sent[0] = 0]
  BY DEF InitialDone, r
<1> HIDE DEF x, y
<1>7. /\ y \in States /\ y.rec = x /\ y.probe = [q.probe EXCEPT ![0] = 0]
      /\ y.ret_sent = [q.ret_sent EXCEPT ![0] = 0] /\ y.crypto_acked = q.crypto_acked
  <2> DEFINE pb == [q.probe EXCEPT ![0] = 0]
             rs == [q.ret_sent EXCEPT ![0] = 0]
  <2>1. y = [q EXCEPT !.rec = x, !.probe = pb, !.ret_sent = rs]
    BY <1>6
  <2>2. pb \in [Lvls -> 0..2] /\ rs \in [{0, 1} -> Nat]
    <3>1. q.probe \in [Lvls -> 0..2] /\ q.ret_sent \in [{0, 1} -> Nat]
      BY DEF States
    <3>2. 0 \in 0..2
      OBVIOUS
    <3>3. pb \in [Lvls -> 0..2]
      BY <3>1, <3>2
    <3> QED BY <3>1, <3>3
  <2> HIDE DEF pb, rs
  <2>3. y \in States /\ y.rec = x /\ y.probe = pb /\ y.ret_sent = rs
        /\ y.crypto_acked = q.crypto_acked
    BY <1>5, <2>1, <2>2 DEF States
  <2> QED BY <2>3 DEF pb, rs
<1>8. Outstanding(x) = Outstanding(r) /\ SizeOf(x, Outstanding(x)) = SizeOf(r, Outstanding(r))
  BY <1>5 DEF Outstanding, SizeOf
<1>9. Accounted(x)
  BY <1>2, <1>5, <1>8 DEF Accounted
<1>10. Ended(q, y, 0)
  BY <1>2, <1>5, <1>7, <1>8, <1>9 DEF Ended
<1> QED BY <1>2, <1>5, <1>7, <1>10 DEF y

\* The Handshake space ends.
LEMMA HandshakeEnded ==
    ASSUME NEW q \in States, Accounted(q.rec), NEW keys, NEW pns, Booked(q, keys, pns), Context
    PROVE  Ended(q, HandshakeDone(q), 1)
<1> DEFINE r == rec_discard(q.rec, 1)
           y == HandshakeDone(q)
<1>1. q.rec \in Recovery /\ 1 \in Lvls /\ NONE <= now
  BY DEF States, Lvls, Context, NONE
<1>2. /\ r \in Recovery /\ Accounted(r)
      /\ Outstanding(r) = Outstanding(q.rec) \ OutstandingAt(q.rec, 1)
      /\ \A i \in Outstanding(r) : r.s[i] = q.rec.s[i]
      /\ r.largest_acked = q.rec.largest_acked /\ r.hs_acked = q.rec.hs_acked
      /\ r.recovery_start = q.rec.recovery_start /\ r.cwnd = q.rec.cwnd
      /\ r.loss_time = [q.rec.loss_time EXCEPT ![1] = INT64_MAX]
      /\ r.last_elicit = [q.rec.last_elicit EXCEPT ![1] = NONE]
      /\ r.in_flight <= q.rec.in_flight
  BY <1>1, Discarded
<1>3. \A k \in Lvls : q.rec.last_elicit[k] <= now
  BY DEF Booked
<1>4. \A k \in Lvls : r.last_elicit[k] <= now
  BY <1>1, <1>2, <1>3 DEF Recovery
<1>5. y = [q EXCEPT !.rec = r, !.probe[1] = 0, !.ret_sent[1] = 0]
  BY DEF HandshakeDone
<1> HIDE DEF r, y
<1>6. /\ y \in States /\ y.rec = r /\ y.probe = [q.probe EXCEPT ![1] = 0]
      /\ y.ret_sent = [q.ret_sent EXCEPT ![1] = 0] /\ y.crypto_acked = q.crypto_acked
  <2> DEFINE pb == [q.probe EXCEPT ![1] = 0]
             rs == [q.ret_sent EXCEPT ![1] = 0]
  <2>1. y = [q EXCEPT !.rec = r, !.probe = pb, !.ret_sent = rs]
    BY <1>5
  <2>2. pb \in [Lvls -> 0..2] /\ rs \in [{0, 1} -> Nat]
    <3>1. q.probe \in [Lvls -> 0..2] /\ q.ret_sent \in [{0, 1} -> Nat]
      BY DEF States
    <3>2. 0 \in 0..2
      OBVIOUS
    <3>3. pb \in [Lvls -> 0..2]
      BY <3>1, <3>2
    <3> QED BY <3>1, <3>3
  <2> HIDE DEF pb, rs
  <2>3. y \in States /\ y.rec = r /\ y.probe = pb /\ y.ret_sent = rs
        /\ y.crypto_acked = q.crypto_acked
    BY <1>2, <2>1, <2>2 DEF States
  <2> QED BY <2>3 DEF pb, rs
<1>7. Ended(q, y, 1)
  BY <1>2, <1>4, <1>6 DEF Ended
<1> QED BY <1>7 DEF y

-----------------------------------------------------------------------------
(* The invariant *)

\* The invariant, as the lemmas above say it.
LEMMA Parts ==
    ASSUME IInv
    PROVE  State \in States /\ Kept(State) /\ Overtaken(State.rec) /\ Context /\ Levels
BY DEF IInv, TypeOK, Sound, Kept, Context

\* The timers run first.
LEMMA Timed ==
    ASSUME IInv
    PROVE  /\ Kept(run_timers(State)) /\ Overtaken(run_timers(State).rec)
           /\ run_timers(State) \in States /\ run_timers(State).rec \in Recovery
<1>1. Kept(run_timers(State)) /\ Overtaken(run_timers(State).rec)
  BY Parts, TimersKeep
<1> QED BY <1>1 DEF Kept, States

\* A call leaves the value it computed.
LEMMA Left ==
    ASSUME NEW q \in States, Becomes(q)
    PROVE  State' = q
BY DEF States, Becomes, State

\* The invariant after a step, from the value the step leaves.
LEMMA Carried ==
    ASSUME NEW q \in States, Becomes(q), now' = now,
           Booked(q, tx', tx_pn'), Accounted(q.rec), Resent(q, ret_len'), Overtaken(q.rec),
           confirmed' \/ (confirmed' = confirmed /\ Unvalidated(q)),
           confirmed' \/ \/ retry_done' = retry_done /\ confirmed' = confirmed
                            /\ Anchored(q, tx', tx_pn')
                         \/ retry_done' /\ 0 \in tx' /\ Outstanding(q.rec) = {}
                            /\ q.ret_sent[0] = 0
    PROVE  State' \in States /\ Sound(State, tx, tx_pn, ret_len)'
<1>1. State' = q
  BY Left
<1>2. Booked(State, tx, tx_pn)'
  BY <1>1 DEF Booked, Outstanding
<1>3. Accounted(State.rec)'
  BY <1>1 DEF Accounted
<1>4. Resent(State, ret_len)'
  BY <1>1 DEF Resent, Unforgotten
<1>5. Overtaken(State.rec)'
  BY <1>1 DEF Overtaken
<1>6. Unvalidated(State)'
  BY <1>1 DEF Unvalidated, Eliciting
<1>7. Anchored(State, tx, tx_pn)'
  BY <1>1 DEF Anchored, Restarted, Outstanding
<1> QED BY <1>1, <1>2, <1>3, <1>4, <1>5, <1>6, <1>7 DEF Sound

\* A recovery state without a packet: what rec_init leaves.
LEMMA NewRecovery ==
    /\ rec_init \in Recovery /\ Outstanding(rec_init) = {}
    /\ Accounted(rec_init) /\ Overtaken(rec_init)
<1>1. rec_init \in Recovery
  <2>1. /\ RTT0 \in Nat /\ RTTVAR0 \in Nat /\ CWND0 \in Nat /\ INT64_MAX \in 0..INT64_MAX
        /\ 0 \in 0..PTO_CAP
    BY ConstantTypes
  <2> QED BY <2>1 DEF rec_init, Recovery
<1>2. Outstanding(rec_init) = {}
  BY DEF Outstanding, rec_init
<1>3. Accounted(rec_init)
  <2> DEFINE f == [i \in Slots |-> rec_init.s[i].size]
  <2>1. SumFunctionOnSet(f, {}) = 0
    <3> HIDE DEF f
    <3> QED BY SumEmpty
  <2>2. rec_init.in_flight = 0
    BY DEF rec_init
  <2> QED BY <1>2, <2>1, <2>2 DEF Accounted, SizeOf
<1>4. Overtaken(rec_init)
  BY DEF Overtaken, loss_armed, rec_init
<1> QED BY <1>1, <1>2, <1>3, <1>4

\* Its books, whatever packet numbers were used.
LEMMA NewBooks ==
    ASSUME NEW y, y.rec = rec_init, NEW keys, NEW pns \in [Lvls -> Nat], now \in Nat,
           \A l \in Lvls : y.probe[l] = 0,
           \A l \in Lvls : pns[l] = 0 => y.crypto_acked[l] = {}
    PROVE  Booked(y, keys, pns)
<1>1. Outstanding(y.rec) = {}
  BY NewRecovery
<1>2. \A l \in Lvls : y.rec.largest_acked[l] = NONE /\ y.rec.last_elicit[l] = NONE
  BY DEF rec_init
<1>3. NONE <= now /\ \A l \in Lvls : NONE < pns[l]
  BY DEF NONE
<1>4. y.rec.recovery_start = NONE /\ y.rec.cwnd = CWND0 /\ CWND0 >= MINWIN
  BY ConstantTypes DEF rec_init
<1> QED BY <1>1, <1>2, <1>3, <1>4 DEF Booked

\* Nothing sent is nothing forgotten.
LEMMA NoneToResend ==
    ASSUME NEW y, NEW len, \A l \in {0, 1} : y.ret_sent[l] = 0 /\ len[l] \in Nat
    PROVE  Resent(y, len)
<1>1. 0..(0 - 1) = {}
  OBVIOUS
<1> QED BY <1>1 DEF Resent, Unforgotten

\* From Init.
LEMMA InitSound ==
    ASSUME Init
    PROVE  IInv
<1>1. rec_init \in Recovery
  BY NewRecovery
<1>2. State \in States
  <2>1. 0 \in 0..2 /\ {} \subseteq Nat
    OBVIOUS
  <2>2. probe \in [Lvls -> 0..2]
    BY <2>1 DEF Init
  <2>3. ret_sent \in [{0, 1} -> Nat]
    BY DEF Init
  <2>4. crypto_acked \in [Lvls -> SUBSET Nat]
    BY <2>1 DEF Init
  <2> QED BY <1>1, <2>2, <2>3, <2>4 DEF Init, State, States
<1>3. TypeOK
  <2>1. ret_len \in [{0, 1} -> Nat]
    BY ConstantTypes DEF Init
  <2>2. 0 \in 0..MaxTime
    BY ConstantTypes
  <2>3. tx_pn \in [Lvls -> Nat]
    BY DEF Init
  <2>4. tx \subseteq Lvls
    BY DEF Init, Lvls
  <2>5. now \in 0..MaxTime /\ established \in BOOLEAN /\ confirmed \in BOOLEAN
        /\ unrecorded \in BOOLEAN /\ opened \in BOOLEAN /\ retry_done \in BOOLEAN
    BY <2>2 DEF Init
  <2> QED BY <1>2, <2>1, <2>3, <2>4, <2>5 DEF TypeOK
<1>4. State.rec = rec_init /\ State.probe = probe /\ State.ret_sent = ret_sent
      /\ State.crypto_acked = crypto_acked
  BY DEF Init, State
<1>5. Outstanding(State.rec) = {} /\ Accounted(State.rec) /\ Overtaken(State.rec)
  BY <1>4, NewRecovery
<1>7. Booked(State, tx, tx_pn)
  <2>1. now \in Nat /\ tx_pn \in [Lvls -> Nat]
    BY DEF Init
  <2>2. \A l \in Lvls : State.probe[l] = 0 /\ (tx_pn[l] = 0 => State.crypto_acked[l] = {})
    BY <1>4 DEF Init
  <2> QED BY <1>4, <2>1, <2>2, NewBooks
<1>8. Resent(State, ret_len)
  <2>1. \A l \in {0, 1} : State.ret_sent[l] = 0 /\ ret_len[l] \in Nat
    BY <1>3, <1>4 DEF Init, TypeOK
  <2> QED BY <2>1, NoneToResend
<1>10. Unvalidated(State)
  <2>1. 1 \in Lvls /\ 2 \in Lvls
    BY DEF Lvls
  <2>2. Eliciting(State.rec, 2) = {}
    BY <1>5 DEF Eliciting, OutstandingAt
  <2>3. State.rec.largest_acked[1] = NONE /\ State.crypto_acked[1] = {} /\ State.probe[2] = 0
    BY <1>4, <2>1 DEF Init, rec_init
  <2> QED BY <2>2, <2>3 DEF Unvalidated
<1>11. Anchored(State, tx, tx_pn)
  BY DEF Init, Anchored
<1>12. Levels
  <2>1. ret_len[0] = Crypto[0] /\ ret_len[1] = 0 /\ tx_pn[1] = 0
    BY DEF Init, Lvls
  <2> QED BY <2>1, ConstantTypes DEF Init, Levels
<1>13. AlwaysRecorded
  BY DEF Init, AlwaysRecorded
<1> QED BY <1>3, <1>5, <1>7, <1>8, <1>10, <1>11, <1>12, <1>13 DEF IInv, Sound

\* A step that only the timers and an ACK act in.
LEMMA QuietStep ==
    ASSUME IInv, NEW q, Kept(q), Overtaken(q.rec), Becomes(q), UNCHANGED <<conn, now, unrecorded>>,
           retry_done' = retry_done, opened' \in {opened, TRUE}
    PROVE  IInv'
<1>1. q \in States
  BY DEF Kept
<1>2. ret_len' = ret_len /\ tx' = tx /\ established' = established /\ confirmed' = confirmed
      /\ tx_pn' = tx_pn /\ now' = now /\ unrecorded' = unrecorded
  BY DEF conn
<1>3. State' \in States /\ Sound(State, tx, tx_pn, ret_len)'
  BY <1>1, <1>2, Carried DEF Kept
<1>4. TypeOK'
  BY <1>2, <1>3 DEF IInv, TypeOK
<1>5. Levels' /\ AlwaysRecorded'
  <2>1. ~opened' => ~opened
    OBVIOUS
  <2>2. Levels
    BY DEF IInv
  <2>3. Levels'
    BY <1>2, <2>1, <2>2 DEF Levels
  <2> QED BY <1>2, <2>3 DEF IInv, AlwaysRecorded
<1> QED BY <1>3, <1>4, <1>5 DEF IInv

LEMMA AckStep ==
    ASSUME IInv, NEW l \in tx, NEW ad \in Delays, NEW S \in SUBSET (0..(tx_pn[l] - 1)),
           recv_ack(run_timers(State), l, S, ad)
    PROVE  IInv'
<1> DEFINE timed == run_timers(State)
<1>1. Kept(timed) /\ Overtaken(timed.rec) /\ Context
  BY Timed, Parts
<1>2. S # {} /\ ad \in Nat
  BY ConstantTypes DEF recv_ack
<1> HIDE DEF timed
<1>3. Kept(rec_on_ack(timed, l, S, ad)) /\ Overtaken(rec_on_ack(timed, l, S, ad).rec)
  BY <1>1, <1>2, AckKeeps
<1>4. /\ Becomes(rec_on_ack(timed, l, S, ad)) /\ UNCHANGED <<conn, now, unrecorded>>
      /\ retry_done' = retry_done /\ opened' \in {opened, TRUE}
  BY DEF recv_ack, timed
<1> QED BY <1>3, <1>4, QuietStep

LEMMA OtherStep ==
    ASSUME IInv, recv_other
    PROVE  IInv'
BY Timed, QuietStep DEF recv_other

\* Time passes.
LEMMA ClockStep ==
    ASSUME IInv, set_now
    PROVE  IInv'
<1>1. /\ State' = State /\ ret_len' = ret_len /\ tx' = tx /\ established' = established
      /\ confirmed' = confirmed /\ tx_pn' = tx_pn /\ unrecorded' = unrecorded
      /\ now' = now + 1 /\ now < MaxTime /\ opened' = opened /\ retry_done' = retry_done
  BY DEF set_now, conn, State
<1>2. TypeOK /\ Sound(State, tx, tx_pn, ret_len) /\ Levels /\ AlwaysRecorded
  BY DEF IInv
<1>3. now \in Nat /\ now' \in 0..MaxTime /\ now <= now'
  BY <1>1, <1>2, ConstantTypes DEF TypeOK
<1>4. TypeOK'
  BY <1>1, <1>2, <1>3 DEF TypeOK
<1>5. Booked(State, tx, tx_pn)'
  <2>1. State \in States /\ State.rec \in Recovery
    BY <1>2 DEF TypeOK, States
  <2>2. \A i \in Outstanding(State.rec) : LET x == State.rec.s[i] IN
          x.lvl \in tx /\ x.pn < tx_pn[x.lvl] /\ x.t <= now /\ (x.len > 0 => x.elicit)
    BY <1>2 DEF Sound, Booked
  <2>3. \A i \in Outstanding(State.rec) : State.rec.s[i].t <= now'
    <3> SUFFICES ASSUME NEW i \in Outstanding(State.rec) PROVE State.rec.s[i].t <= now'
      OBVIOUS
    <3>1. i \in Slots
      BY DEF Outstanding
    <3>2. State.rec.s[i].t \in Nat
      BY <2>1, <3>1, RecordTypes
    <3>3. State.rec.s[i].t <= now
      BY <2>2
    <3> QED BY <1>3, <3>2, <3>3
  <2>4. \A l \in Lvls :
          /\ State.rec.largest_acked[l] < tx_pn[l] /\ State.rec.last_elicit[l] <= now
          /\ State.probe[l] # 0 => l \in tx
          /\ tx_pn[l] = 0 => State.crypto_acked[l] = {}
    BY <1>2 DEF Sound, Booked
  <2>5. \A l \in Lvls : State.rec.last_elicit[l] <= now'
    <3> SUFFICES ASSUME NEW l \in Lvls PROVE State.rec.last_elicit[l] <= now'
      OBVIOUS
    <3>1. State.rec.last_elicit[l] \in Int
      BY <2>1 DEF Recovery, NONE
    <3> QED BY <1>3, <2>4, <3>1
  <2>6. State.rec.recovery_start <= now' /\ State.rec.cwnd >= MINWIN
    <3>1. State.rec.recovery_start <= now /\ State.rec.cwnd >= MINWIN
      BY <1>2 DEF Sound, Booked
    <3>2. State.rec.recovery_start \in Int
      BY <2>1 DEF Recovery, NONE
    <3> QED BY <1>3, <3>1, <3>2
  <2> QED BY <1>1, <2>2, <2>3, <2>4, <2>5, <2>6 DEF Booked, Outstanding
<1>6. Accounted(State.rec)' /\ Overtaken(State.rec)'
  BY <1>1, <1>2 DEF Sound, Accounted, Overtaken
<1>7. Resent(State, ret_len)'
  BY <1>1, <1>2 DEF Sound, Resent, Unforgotten
<1>8. Unvalidated(State)'
  BY <1>1, <1>2 DEF Sound, Unvalidated, Eliciting
<1>9. Anchored(State, tx, tx_pn)'
  BY <1>1, <1>2 DEF Sound, Anchored, Restarted, Outstanding
<1>10. Levels' /\ AlwaysRecorded'
  BY <1>1, <1>2 DEF Levels, AlwaysRecorded
<1> QED BY <1>4, <1>5, <1>6, <1>7, <1>8, <1>9, <1>10 DEF IInv, Sound

\* Handshake keys.
LEMMA ServerHelloStep ==
    ASSUME IInv, recv_server_hello
    PROVE  IInv'
<1> DEFINE q == run_timers(State)
<1>1. Kept(q) /\ Overtaken(q.rec) /\ q \in States
  BY Timed
<1>2. /\ 0 \in tx /\ ~established /\ tx' = tx \cup {1} /\ Becomes(q)
      /\ ret_len' = ret_len /\ established' = established /\ confirmed' = confirmed
      /\ tx_pn' = tx_pn /\ now' = now /\ unrecorded' = unrecorded
      /\ opened' = TRUE /\ retry_done' = retry_done
  BY DEF recv_server_hello
<1> HIDE DEF q
<1>3. Booked(q, tx', tx_pn')
  <2>1. Booked(q, tx, tx_pn)
    BY <1>1 DEF Kept
  <2> QED BY <1>2, <2>1 DEF Booked
<1>4. confirmed' = confirmed /\ Unvalidated(q) /\ Anchored(q, tx', tx_pn')
  <2>1. Unvalidated(q) /\ Anchored(q, tx, tx_pn)
    BY <1>1 DEF Kept
  <2>2. Anchored(q, tx', tx_pn')
    BY <1>2, <2>1 DEF Anchored, Restarted
  <2> QED BY <1>2, <2>1, <2>2
<1>5. State' \in States /\ Sound(State, tx, tx_pn, ret_len)'
  <2>1. Accounted(q.rec) /\ Resent(q, ret_len')
    BY <1>1, <1>2 DEF Kept
  <2> QED BY <1>1, <1>2, <1>3, <1>4, <2>1, Carried
<1>6. TypeOK'
  <2>1. tx' \subseteq Lvls
    BY <1>2 DEF IInv, TypeOK, Lvls
  <2> QED BY <1>2, <1>5, <2>1 DEF IInv, TypeOK
<1>7. Levels' /\ AlwaysRecorded'
  BY <1>2 DEF IInv, Levels, AlwaysRecorded
<1> QED BY <1>5, <1>6, <1>7 DEF IInv

\* 1-RTT keys, and the client's Finished to send.
LEMMA FinishedStep ==
    ASSUME IInv, recv_finished
    PROVE  IInv'
<1> DEFINE q == run_timers(State)
<1>1. Kept(q) /\ Overtaken(q.rec) /\ q \in States
  BY Timed
<1>2. /\ 1 \in tx /\ ~established /\ tx' = tx \cup {2} /\ established' = TRUE /\ Becomes(q)
      /\ ret_len' = [ret_len EXCEPT ![1] = Crypto[1]]
      /\ confirmed' = confirmed /\ tx_pn' = tx_pn /\ now' = now /\ unrecorded' = unrecorded
      /\ opened' = opened /\ retry_done' = retry_done
  BY DEF recv_finished
<1> HIDE DEF q
<1>3. /\ ret_len \in [{0, 1} -> Nat] /\ ret_len[1] = 0 /\ (0 \in tx => ret_len[0] > 0)
      /\ Crypto[1] \in Nat /\ Crypto[1] > 0
  BY <1>2, ConstantTypes DEF IInv, TypeOK, Levels
<1>4. ret_len' \in [{0, 1} -> Nat] /\ ret_len'[0] = ret_len[0] /\ ret_len'[1] = Crypto[1]
  BY <1>2, <1>3
<1>5. Booked(q, tx', tx_pn')
  <2>1. Booked(q, tx, tx_pn)
    BY <1>1 DEF Kept
  <2> QED BY <1>2, <2>1 DEF Booked
<1>6. confirmed' = confirmed /\ Unvalidated(q) /\ Anchored(q, tx', tx_pn')
  <2>1. Unvalidated(q) /\ Anchored(q, tx, tx_pn)
    BY <1>1 DEF Kept
  <2>2. Anchored(q, tx', tx_pn')
    BY <1>2, <2>1 DEF Anchored, Restarted
  <2> QED BY <1>2, <2>1, <2>2
<1>7. Resent(q, ret_len')
  <2>1. Resent(q, ret_len) /\ q.ret_sent \in [{0, 1} -> Nat]
    BY <1>1 DEF Kept, States
  <2>2. q.ret_sent[0] <= ret_len'[0]
    BY <1>4, <2>1 DEF Resent
  <2>3. q.ret_sent[1] <= 0 /\ q.ret_sent[1] \in Nat
    BY <1>3, <2>1 DEF Resent
  <2>4. q.ret_sent[1] <= ret_len'[1]
    BY <1>3, <1>4, <2>3
  <2> QED BY <2>1, <2>2, <2>4 DEF Resent
<1>8. State' \in States /\ Sound(State, tx, tx_pn, ret_len)'
  <2>1. Accounted(q.rec)
    BY <1>1 DEF Kept
  <2> QED BY <1>1, <1>2, <1>5, <1>6, <1>7, <2>1, Carried
<1>9. TypeOK'
  <2>1. tx' \subseteq Lvls
    BY <1>2 DEF IInv, TypeOK, Lvls
  <2> QED BY <1>2, <1>4, <1>8, <2>1 DEF IInv, TypeOK
<1>10. Levels' /\ AlwaysRecorded'
  <2>1. opened
    BY <1>2 DEF IInv, Levels
  <2> QED BY <1>2, <1>3, <1>4, <2>1 DEF IInv, Levels, AlwaysRecorded
<1> QED BY <1>8, <1>9, <1>10 DEF IInv

\* The Handshake space ends.
LEMMA DoneStep ==
    ASSUME IInv, recv_handshake_done
    PROVE  IInv'
<1> DEFINE q == run_timers(State)
           y == HandshakeDone(q)
<1>1. Kept(q) /\ Overtaken(q.rec) /\ q \in States /\ Context
  BY Timed, Parts
<1>2. /\ confirmed' = TRUE /\ tx' = tx \ {1} /\ Becomes(y)
      /\ ret_len' = [ret_len EXCEPT ![1] = 0]
      /\ established' = established /\ tx_pn' = tx_pn /\ now' = now /\ unrecorded' = unrecorded
      /\ established /\ opened' = opened /\ retry_done' = retry_done
  BY DEF recv_handshake_done
<1> HIDE DEF q
<1>3. Accounted(q.rec) /\ Booked(q, tx, tx_pn) /\ Resent(q, ret_len)
  BY <1>1 DEF Kept
<1>4. Ended(q, y, 1)
  BY <1>1, <1>3, HandshakeEnded
<1> HIDE DEF y
<1>5. ret_len \in [{0, 1} -> Nat]
  BY <1>1 DEF Context
<1>6. Booked(y, tx', tx_pn') /\ Resent(y, ret_len') /\ Overtaken(y.rec)
  BY <1>1, <1>2, <1>3, <1>4, <1>5, EndedKeeps
<1>7. State' \in States /\ Sound(State, tx, tx_pn, ret_len)'
  <2>1. y \in States /\ Accounted(y.rec)
    BY <1>4 DEF Ended
  <2> QED BY <1>2, <1>6, <2>1, Carried
<1>8. TypeOK'
  <2>1. tx' \subseteq Lvls
    BY <1>2 DEF IInv, TypeOK
  <2>2. ret_len' \in [{0, 1} -> Nat]
    BY <1>2, <1>5
  <2> QED BY <1>2, <1>7, <2>1, <2>2 DEF IInv, TypeOK
<1>9. Levels' /\ AlwaysRecorded'
  <2>1. opened
    BY <1>2 DEF IInv, Levels
  <2> QED BY <1>2, <1>5, <2>1 DEF IInv, Levels, AlwaysRecorded
<1> QED BY <1>7, <1>8, <1>9 DEF IInv

\* A Retry: everything from the start but the packet numbers, and no timer before the next call
\* of send.
LEMMA RetryStep ==
    ASSUME IInv, recv_retry
    PROVE  IInv'
<1> DEFINE q == run_timers(State)
           y == Retried(q)
<1>1. Kept(q) /\ q \in States /\ Levels /\ Context
  BY Timed, Parts
<1>2. /\ ~opened /\ retry_done' = TRUE /\ Becomes(y) /\ opened' = opened
      /\ ret_len' = ret_len /\ tx' = tx /\ established' = established /\ confirmed' = confirmed
      /\ tx_pn' = tx_pn /\ now' = now /\ unrecorded' = unrecorded
  BY DEF recv_retry, conn
<1> HIDE DEF q
<1>3. tx = {0} /\ ~established /\ tx_pn[1] = 0 /\ ret_len[1] = 0
  BY <1>1, <1>2 DEF Levels
<1>4. /\ y \in States /\ y.rec = rec_init /\ y.crypto_acked = q.crypto_acked
      /\ y.probe = [q.probe EXCEPT ![0] = 0] /\ y.ret_sent = [q.ret_sent EXCEPT ![0] = 0]
  BY <1>1, NewRecovery DEF Retried, States, Lvls
<1>5. /\ \A l \in Lvls : q.probe[l] # 0 => l \in tx
      /\ \A l \in Lvls : tx_pn[l] = 0 => q.crypto_acked[l] = {}
  BY <1>1 DEF Kept, Booked
<1>6. 1 \in Lvls /\ 2 \in Lvls /\ q.probe \in [Lvls -> 0..2] /\ q.ret_sent \in [{0, 1} -> Nat]
      /\ ret_len \in [{0, 1} -> Nat] /\ tx_pn \in [Lvls -> Nat] /\ now \in Nat
  BY <1>1 DEF Lvls, States, Context
<1> HIDE DEF y
<1>7. \A l \in Lvls : y.probe[l] = 0
  BY <1>3, <1>4, <1>5, <1>6
<1>8. y.ret_sent[0] = 0 /\ y.ret_sent[1] = 0
  <2>1. q.ret_sent[1] <= ret_len[1]
    BY <1>1 DEF Kept, Resent
  <2> QED BY <1>3, <1>4, <1>6, <2>1
<1>9. Booked(y, tx', tx_pn')
  <2>1. \A l \in Lvls : tx_pn[l] = 0 => y.crypto_acked[l] = {}
    BY <1>4, <1>5
  <2> QED BY <1>2, <1>4, <1>6, <1>7, <2>1, NewBooks
<1>10. Accounted(y.rec) /\ Overtaken(y.rec) /\ Outstanding(y.rec) = {}
  BY <1>4, NewRecovery
<1>11. Resent(y, ret_len')
  <2>1. \A l \in {0, 1} : y.ret_sent[l] = 0 /\ ret_len'[l] \in Nat
    BY <1>2, <1>6, <1>8
  <2> QED BY <2>1, NoneToResend
<1>12. Unvalidated(y)
  <2>1. y.crypto_acked[1] = {} /\ y.probe[2] = 0 /\ y.rec.largest_acked[1] = NONE
    BY <1>3, <1>4, <1>5, <1>6, <1>7 DEF rec_init
  <2>2. Eliciting(y.rec, 2) = {}
    BY <1>10 DEF Eliciting, OutstandingAt
  <2> QED BY <2>1, <2>2 DEF Unvalidated
<1>13. State' \in States /\ Sound(State, tx, tx_pn, ret_len)'
  BY <1>2, <1>3, <1>4, <1>8, <1>9, <1>10, <1>11, <1>12, Carried
<1>14. TypeOK'
  BY <1>2, <1>13 DEF IInv, TypeOK
<1>15. Levels' /\ AlwaysRecorded'
  BY <1>2 DEF IInv, Levels, AlwaysRecorded
<1> QED BY <1>13, <1>14, <1>15 DEF IInv

\* What a call of send does, by the value the datagram leaves.
LEMMA SendShape ==
    ASSUME IInv, NEW ch \in Calls, send(run_timers(State), ch)
    PROVE  \E d : /\ Filled(run_timers(State), d, 3) /\ tx_pn' = Pns(d)
                  /\ unrecorded' = (unrecorded \/ Cardinality(InFlight(d)) > rec_free(d.q.rec))
                  /\ \/ /\ 1 \in Built(d) /\ 0 \in tx /\ Becomes(InitialDone(Final(d)))
                        /\ tx' = tx \ {0} /\ ret_len' = [ret_len EXCEPT ![0] = 0]
                     \/ Becomes(Final(d)) /\ tx' = tx /\ ret_len' = ret_len
                  /\ established' = established /\ confirmed' = confirmed /\ now' = now
                  /\ opened' = opened /\ retry_done' = retry_done
<1> DEFINE q == run_timers(State)
           d == Datagram(q, ch)
<1>1. Filled(q, d, 3)
  BY Timed, Parts, DatagramFilled
<1>2. Final(d) = [d.q EXCEPT !.rec = Recorded(Recorded(Recorded(@, d, 0), d, 1), d, 2)]
  BY DEF Final, AllRecorded
<1>3. /\ tx_pn' = Pns(d)
      /\ unrecorded' = (unrecorded \/ Cardinality(InFlight(d)) > rec_free(d.q.rec))
      /\ \/ /\ 1 \in Built(d) /\ 0 \in tx /\ Becomes(InitialDone(Final(d)))
            /\ tx' = tx \ {0} /\ ret_len' = [ret_len EXCEPT ![0] = 0]
         \/ Becomes(Final(d)) /\ tx' = tx /\ ret_len' = ret_len
      /\ established' = established /\ confirmed' = confirmed /\ now' = now
      /\ opened' = opened /\ retry_done' = retry_done
  BY <1>2 DEF send, Pns
<1> HIDE DEF d
<1> QED BY <1>1, <1>3

LEMMA SendStep ==
    ASSUME IInv, NEW ch \in Calls, send(run_timers(State), ch)
    PROVE  IInv'
<1> DEFINE q == run_timers(State)
<1>1. Kept(q) /\ Overtaken(q.rec) /\ Context /\ Levels
  BY Timed, Parts
<1>2. PICK d : /\ Filled(q, d, 3) /\ tx_pn' = Pns(d)
               /\ unrecorded' = (unrecorded \/ Cardinality(InFlight(d)) > rec_free(d.q.rec))
               /\ \/ /\ 1 \in Built(d) /\ 0 \in tx /\ Becomes(InitialDone(Final(d)))
                     /\ tx' = tx \ {0} /\ ret_len' = [ret_len EXCEPT ![0] = 0]
                  \/ Becomes(Final(d)) /\ tx' = tx /\ ret_len' = ret_len
               /\ established' = established /\ confirmed' = confirmed /\ now' = now
               /\ opened' = opened /\ retry_done' = retry_done
  BY SendShape
<1> HIDE DEF q
<1> DEFINE y == Final(d)
<1>3. y \in States /\ Sound(y, tx, Pns(d), ret_len)
  BY <1>1, <1>2, SendKeeps
<1>4. d.q.rec = q.rec /\ Built(d) \subseteq tx /\ Cardinality(InFlight(d)) <= rec_free(q.rec)
  BY <1>1, <1>2, Finished DEF Filled, Untouched
<1> HIDE DEF y
<1>5. AlwaysRecorded'
  <2>1. ~unrecorded
    BY DEF IInv, AlwaysRecorded
  <2>2. Cardinality(InFlight(d)) \in Int
    <3>1. InFlight(d) \subseteq Lvls
      BY <1>1, <1>2, Finished
    <3>2. IsFiniteSet(Lvls)
      <4>1. 0 \in Int /\ 2 \in Int
        OBVIOUS
      <4> QED BY <4>1, FS_Interval DEF Lvls
    <3>3. IsFiniteSet(InFlight(d))
      BY <3>1, <3>2, FS_Subset
    <3> QED BY <3>3, FS_CardinalityType
  <2>3. rec_free(q.rec) \in Int
    BY FreeNat
  <2>4. ~(Cardinality(InFlight(d)) > rec_free(d.q.rec))
    BY <1>4, <2>2, <2>3
  <2> QED BY <1>2, <2>1, <2>4 DEF AlwaysRecorded
<1>6. tx_pn' \in [Lvls -> Nat]
  <2>1. \A l \in Lvls : Pns(d)[l] \in Nat
    BY <1>1, PnsGrow
  <2> QED BY <1>2, <2>1 DEF Pns
<1>7. ret_len \in [{0, 1} -> Nat]
  BY <1>1 DEF Context
<1>10. opened \/ (tx = {0} /\ ~established /\ tx_pn'[1] = 0 /\ 1 \notin Built(d))
  <2>1. ~opened => tx = {0} /\ ~established /\ tx_pn[1] = 0
    BY <1>1 DEF Levels
  <2>2. 1 \in Lvls
    BY DEF Lvls
  <2> QED BY <1>2, <1>4, <2>1, <2>2 DEF Pns
<1>8. CASE /\ 1 \in Built(d) /\ 0 \in tx /\ Becomes(InitialDone(y))
           /\ tx' = tx \ {0} /\ ret_len' = [ret_len EXCEPT ![0] = 0]
  <2> DEFINE z == InitialDone(y)
  <2>1. Accounted(y.rec) /\ Booked(y, tx, Pns(d)) /\ Resent(y, ret_len) /\ Overtaken(y.rec)
        /\ Unvalidated(y) /\ Anchored(y, tx, Pns(d))
    BY <1>3 DEF Sound
  <2>2. Ended(y, z, 0) /\ (y.rec.hs_acked \/ z.rec.last_elicit[1] # NONE)
    BY <1>1, <1>3, <2>1, InitialEnded
  <2> HIDE DEF z
  <2>3. 0 \in {0, 1}
    OBVIOUS
  <2>4. /\ Booked(z, tx \ {0}, Pns(d)) /\ Resent(z, [ret_len EXCEPT ![0] = 0])
        /\ Overtaken(z.rec)
        /\ \A k \in Lvls : k # 0 => /\ Eliciting(z.rec, k) = Eliciting(y.rec, k)
                                    /\ z.probe[k] = y.probe[k]
    <3> DEFINE len == [ret_len EXCEPT ![0] = 0]
    <3>1. Booked(z, tx \ {0}, Pns(d)) /\ Overtaken(z.rec)
      BY <1>3, <1>7, <2>1, <2>2, <2>3, EndedKeeps
    <3>2. Resent(z, len)
      BY <1>3, <1>7, <2>1, <2>2, <2>3, EndedKeeps
    <3>3. ASSUME NEW k \in Lvls, k # 0
          PROVE  Eliciting(z.rec, k) = Eliciting(y.rec, k) /\ z.probe[k] = y.probe[k]
      BY <1>3, <2>2, <3>3, EndedOthers
    <3> QED BY <3>1, <3>2, <3>3
  <2>5. 1 \in Lvls /\ 2 \in Lvls
    BY DEF Lvls
  <2>6. /\ z.rec.hs_acked = y.rec.hs_acked /\ z.rec.largest_acked = y.rec.largest_acked
        /\ z.crypto_acked = y.crypto_acked /\ z \in States /\ Accounted(z.rec)
    BY <2>2 DEF Ended
  <2>7. Unvalidated(z)
    BY <2>1, <2>4, <2>5, <2>6 DEF Unvalidated
  <2>8. Anchored(z, tx', tx_pn')
    BY <1>4, <1>8, <2>2, <2>6 DEF Anchored
  <2>9. Becomes(z)
    BY <1>8 DEF z
  <2>10. State' \in States /\ Sound(State, tx, tx_pn, ret_len)'
    BY <1>2, <1>8, <2>4, <2>6, <2>7, <2>8, <2>9, Carried
  <2>11. TypeOK'
    <3>1. ret_len' \in [{0, 1} -> Nat] /\ tx' \subseteq Lvls
      BY <1>1, <1>7, <1>8 DEF Context
    <3>2. unrecorded' \in BOOLEAN
      BY <1>2
    <3>3. now' \in 0..MaxTime /\ established' \in BOOLEAN /\ confirmed' \in BOOLEAN
          /\ opened' \in BOOLEAN /\ retry_done' \in BOOLEAN
      BY <1>1, <1>2 DEF Context, IInv, TypeOK
    <3> QED BY <1>6, <2>10, <3>1, <3>2, <3>3 DEF TypeOK
  <2>12. Levels'
    BY <1>1, <1>2, <1>7, <1>8, <1>10 DEF Levels
  <2> QED BY <1>5, <2>10, <2>11, <2>12 DEF IInv
<1>9. CASE Becomes(y) /\ tx' = tx /\ ret_len' = ret_len
  <2>1. State' \in States /\ Sound(State, tx, tx_pn, ret_len)'
    BY <1>2, <1>3, <1>9, Carried DEF Sound
  <2>2. TypeOK'
    <3>1. ret_len' \in [{0, 1} -> Nat] /\ tx' \subseteq Lvls
      BY <1>1, <1>7, <1>9 DEF Context
    <3>2. unrecorded' \in BOOLEAN
      BY <1>2
    <3>3. now' \in 0..MaxTime /\ established' \in BOOLEAN /\ confirmed' \in BOOLEAN
          /\ opened' \in BOOLEAN /\ retry_done' \in BOOLEAN
      BY <1>1, <1>2 DEF Context, IInv, TypeOK
    <3> QED BY <1>6, <2>1, <3>1, <3>2, <3>3 DEF TypeOK
  <2>3. Levels'
    BY <1>1, <1>2, <1>9, <1>10 DEF Levels
  <2> QED BY <1>5, <2>1, <2>2, <2>3 DEF IInv
<1> QED BY <1>2, <1>8, <1>9 DEF y

\* What a datagram puts in flight without a probe is within the window.
LEMMA WithinWindow ==
    ASSUME NEW q, Kept(q), Context, NEW d, Filled(q, d, 3),
           NEW l \in Lvls, q.probe[l] = 0,
           NEW i \in Eliciting(Final(d).rec, l), Final(d).rec.s[i].pn = tx_pn[l]
    PROVE  Final(d).rec.in_flight <= Final(d).rec.cwnd
<1> DEFINE y == Final(d)
<1>1. /\ Wrote(q.rec, y.rec, AllRecords(d))
      /\ y.rec.in_flight = q.rec.in_flight + SizeAt(d, 0) + SizeAt(d, 1) + SizeAt(d, 2)
  BY FinalTypes
<1>2. y.rec.s[i].pn = tx_pn[l]
  OBVIOUS
<1> HIDE DEF y
<1>3. i \in Outstanding(y.rec) /\ y.rec.s[i].lvl = l /\ y.rec.s[i].elicit
  BY DEF Eliciting, OutstandingAt, y
<1>4. i \notin Outstanding(q.rec)
  <2> SUFFICES ASSUME i \in Outstanding(q.rec) PROVE FALSE
    OBVIOUS
  <2>1. y.rec.s[i] = q.rec.s[i] /\ q.rec \in Recovery /\ i \in Slots
    BY <1>1 DEF Wrote, Outstanding, Kept, States
  <2>2. q.rec.s[i].pn < tx_pn[q.rec.s[i].lvl]
    BY DEF Kept, Booked
  <2>3. q.rec.s[i].pn \in Nat
    BY <2>1, RecordTypes
  <2> QED BY <1>2, <1>3, <2>1, <2>2, <2>3
<1>5. y.rec.s[i] \in AllRecords(d)
  BY <1>1, <1>3, <1>4 DEF Wrote
<1>6. PICK k \in InFlight(d) : y.rec.s[i] = Record(d, k)
  <2>1. InFlight(d) \subseteq Lvls
    BY Finished
  <2> QED BY <1>5, <2>1, FlyingRecords
<1>7. k = l /\ d.pk[l].elicit
  BY <1>3, <1>6 DEF Record
<1>8. can_send(q.rec)
  BY <1>7 DEF Filled, Packets
<1>9. q.rec.in_flight + MDS <= q.rec.cwnd /\ y.rec.cwnd = q.rec.cwnd
  BY <1>1, <1>8 DEF can_send, Wrote
<1>10. /\ SizeAt(d, 0) + SizeAt(d, 1) + SizeAt(d, 2) <= MDS
       /\ SizeAt(d, 0) \in Nat /\ SizeAt(d, 1) \in Nat /\ SizeAt(d, 2) \in Nat
  BY Finished
<1>11. q.rec.in_flight \in Nat /\ q.rec.cwnd \in Nat /\ MDS \in Nat
  BY ConstantTypes DEF Kept, States, Recovery
<1>12. y.rec.in_flight <= y.rec.cwnd
  BY <1>1, <1>9, <1>10, <1>11
<1> QED BY <1>12 DEF y

\* A step that sends nothing has no record of a packet it sent.
LEMMA NoneSent ==
    ASSUME IInv', tx_pn' = tx_pn, NEW l \in Lvls, NEW i \in Eliciting(rec', l)
    PROVE  rec'.s[i].pn # tx_pn[l]
<1>1. State'.rec = rec' /\ State'.rec \in Recovery
  BY DEF IInv, TypeOK, States, State
<1>2. i \in Outstanding(rec') /\ rec'.s[i].lvl = l /\ i \in Slots
  BY DEF Eliciting, OutstandingAt, Outstanding
<1>3. \A j \in Outstanding(State.rec)' : State'.rec.s[j].pn < tx_pn'[State'.rec.s[j].lvl]
  BY DEF IInv, Sound, Booked
<1>4. rec'.s[i].pn < tx_pn[l]
  BY <1>1, <1>2, <1>3 DEF Outstanding
<1>5. rec'.s[i].pn \in Nat
  BY <1>1, <1>2, RecordTypes
<1> QED BY <1>4, <1>5

\* The property a step has: only a probe takes what is in flight past the window.
PastWindowOnlyProbes ==
    rec'.in_flight > rec'.cwnd =>
      \A l \in Lvls :
          \/ ~\E i \in Eliciting(rec', l) : rec'.s[i].pn = tx_pn[l]
          \/ run_timers(State).probe[l] > 0

LEMMA SendWindow ==
    ASSUME IInv, NEW ch \in Calls, send(run_timers(State), ch)
    PROVE  PastWindowOnlyProbes
<1> DEFINE q == run_timers(State)
<1>1. Kept(q) /\ q \in States /\ Overtaken(q.rec) /\ Context /\ Levels
  BY Timed, Parts
<1>2. PICK d : /\ Filled(q, d, 3)
               /\ \/ Becomes(InitialDone(Final(d)))
                  \/ Becomes(Final(d))
  BY SendShape
<1> SUFFICES ASSUME rec'.in_flight > rec'.cwnd, NEW l \in Lvls, ~(q.probe[l] > 0),
                    NEW i \in Eliciting(rec', l), rec'.s[i].pn = tx_pn[l]
             PROVE  FALSE
  BY DEF PastWindowOnlyProbes
<1> DEFINE y == Final(d)
<1> HIDE DEF q
<1>3. q.probe[l] = 0
  BY <1>1 DEF States
<1>4. y \in States /\ Sound(y, tx, Pns(d), ret_len)
  BY <1>1, <1>2, SendKeeps
<1>5. /\ i \in Eliciting(y.rec, l) /\ y.rec.s[i].pn = tx_pn[l]
      /\ rec'.in_flight <= y.rec.in_flight /\ rec'.cwnd = y.rec.cwnd
  <2> HIDE DEF y
  <2>1. CASE Becomes(y)
    <3>1. rec' = y.rec /\ y.rec.in_flight \in Nat
      BY <1>4, <2>1 DEF Becomes, States, Recovery
    <3> QED BY <3>1
  <2>2. CASE Becomes(InitialDone(y))
    <3>1. Ended(y, InitialDone(y), 0) /\ rec' = InitialDone(y).rec
      BY <1>1, <1>4, <2>2, InitialEnded DEF Sound, Becomes
    <3>2. i \in Outstanding(rec') /\ rec'.s[i].lvl = l /\ rec'.s[i].elicit
      BY DEF Eliciting, OutstandingAt
    <3>3. i \in Outstanding(y.rec) /\ rec'.s[i] = y.rec.s[i]
      BY <3>1, <3>2 DEF Ended
    <3> QED BY <3>1, <3>2, <3>3 DEF Ended, Eliciting, OutstandingAt
  <2> QED BY <1>2, <2>1, <2>2 DEF y
<1>6. y.rec.in_flight <= y.rec.cwnd
  BY <1>1, <1>2, <1>3, <1>5, WithinWindow
<1>7. y.rec.in_flight \in Nat /\ y.rec.cwnd \in Nat
  BY <1>4 DEF States, Recovery
<1>8. rec'.in_flight \in Nat
  <2> HIDE DEF y
  <2>1. IInv'
    BY SendStep
  <2> QED BY <2>1 DEF IInv, TypeOK, States, State, Recovery
<1> HIDE DEF y
<1> QED BY <1>5, <1>6, <1>7, <1>8

-----------------------------------------------------------------------------
(* Theorems *)

\* Every state of the connection is sound: the types hold, the books of what is in flight agree,
\* what was sent of the CRYPTO streams is not forgotten, and the timers are set so that this
\* stays so through every datagram sent, acknowledged, lost or discarded.
THEOREM Invariance == Spec => []IInv
<1>1. Init => IInv
  BY InitSound
<1>2. IInv /\ [Next]_vars => IInv'
  <2> SUFFICES ASSUME IInv, [Next]_vars PROVE IInv'
    OBVIOUS
  <2>1. ASSUME NEW ch \in Calls, send(run_timers(State), ch) PROVE IInv'
    BY <2>1, SendStep
  <2>2. ASSUME NEW l \in tx, NEW ad \in Delays, NEW S \in SUBSET (0..(tx_pn[l] - 1)),
               recv_ack(run_timers(State), l, S, ad)
        PROVE  IInv'
    BY <2>2, AckStep
  <2>3. CASE recv_other
    BY <2>3, OtherStep
  <2>4. CASE recv_server_hello
    BY <2>4, ServerHelloStep
  <2>5. CASE recv_finished
    BY <2>5, FinishedStep
  <2>6. CASE recv_handshake_done
    BY <2>6, DoneStep
  <2>7. CASE set_now
    BY <2>7, ClockStep
  <2>8. CASE UNCHANGED vars
    <3>1. Becomes(State) /\ UNCHANGED <<conn, now, unrecorded>>
          /\ retry_done' = retry_done /\ opened' \in {opened, TRUE}
      BY <2>8 DEF vars, Becomes, State
    <3> QED BY <3>1, Parts, QuietStep
  <2>9. CASE recv_retry
    BY <2>9, RetryStep
  <2> QED BY <2>1, <2>2, <2>3, <2>4, <2>5, <2>6, <2>7, <2>8, <2>9 DEF Next
<1> QED BY <1>1, <1>2, PTL DEF Spec

\* Types, the cap of the PTO backoff and of the probes owed among them, for every size of the
\* table and of the window.
THEOREM TypeCorrect == Spec => []TypeOK
<1>1. IInv => TypeOK
  BY DEF IInv
<1> QED BY <1>1, Invariance, PTL

\* bytes_in_flight is always the sum of the records, and every packet in flight has one: the
\* reservation of conn.c suffices whatever the number of records.
THEOREM Accounts == Spec => []FlightAccounted
<1>1. IInv => FlightAccounted
  BY DEF IInv, Sound, State, FlightAccounted, InFlightIsSum
<1> QED BY <1>1, Invariance, PTL

\* A CRYPTO byte counted as sent is acknowledged or in flight, through any order of losses,
\* probes and acknowledgements.
THEOREM CryptoKept == Spec => []CryptoNotForgotten
<1>1. IInv => CryptoNotForgotten
  BY DEF IInv, Sound, Resent, CryptoNotForgotten
<1> QED BY <1>1, Invariance, PTL

\* An armed timer has something to do; a client whose address is not validated has one armed,
\* or a ClientHello that it can send again at once, for the Retry it has just accepted.
THEOREM Timers == Spec => []TimersHaveWork
<1>1. IInv => TimersHaveWork
  <2> SUFFICES ASSUME IInv PROVE TimersHaveWork
    OBVIOUS
  <2>1. /\ Kept(State) /\ Overtaken(State.rec) /\ Context /\ Levels
        /\ State.rec = rec /\ State.probe = probe
    BY Parts DEF State
  <2>2. LossTimerHasPacket
    BY <2>1 DEF LossTimerHasPacket
  <2>3. KeepsProbing
    <3>1. CASE Restarted(State, tx)
      <4>1. 0 \in tx /\ ret_len[0] > 0 /\ Outstanding(State.rec) = {}
        BY <2>1, <3>1 DEF Restarted, Levels
      <4>2. can_send(State.rec)
        BY <2>1, <4>1, NothingFlies
      <4> QED BY <2>1, <3>1, <4>1, <4>2 DEF KeepsProbing
    <3>2. CASE ~Restarted(State, tx)
      BY <2>1, <3>2, DeadlineArmed DEF KeepsProbing
    <3> QED BY <3>1, <3>2
  <2>4. ProbesHaveKeys
    BY <2>1 DEF Kept, Booked, ProbesHaveKeys
  <2> QED BY <2>2, <2>3, <2>4 DEF TimersHaveWork
<1> QED BY <1>1, Invariance, PTL

\* Only a probe, or an ACK that had to be padded, takes bytes_in_flight past the window, even
\* when the timers of the same call have just reduced it.
THEOREM WindowHolds == Spec => WindowRespected
<1>1. IInv /\ IInv' /\ [Next]_vars => [PastWindowOnlyProbes]_vars
  <2> SUFFICES ASSUME IInv, IInv', Next PROVE PastWindowOnlyProbes
    OBVIOUS
  <2>1. ASSUME NEW ch \in Calls, send(run_timers(State), ch) PROVE PastWindowOnlyProbes
    BY <2>1, SendWindow
  <2>2. ASSUME tx_pn' = tx_pn PROVE PastWindowOnlyProbes
    BY <2>2, NoneSent DEF PastWindowOnlyProbes
  <2>3. CASE \E ch \in Calls : send(run_timers(State), ch)
    BY <2>1, <2>3
  <2>4. CASE tx_pn' = tx_pn
    BY <2>2, <2>4
  <2>5. (\E ch \in Calls : send(run_timers(State), ch)) \/ tx_pn' = tx_pn
    BY DEF Next, recv_ack, recv_other, recv_retry, recv_server_hello, recv_finished,
           recv_handshake_done, set_now, conn
  <2> QED BY <2>3, <2>4, <2>5
<1>2. WindowRespected <=> [][PastWindowOnlyProbes]_vars
  BY DEF WindowRespected, PastWindowOnlyProbes
<1> QED BY <1>1, <1>2, Invariance, PTL DEF Spec
=============================================================================
