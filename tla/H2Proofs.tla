------------------------------ MODULE H2Proofs ------------------------------
(***************************************************************************)
(* The invariants of the run h2 except the dynamic table, for every number *)
(* of slots, window, queue and plan.                                       *)
(***************************************************************************)
EXTENDS H2Frames

-----------------------------------------------------------------------------
(* One frame *)

\* A frame received whole, of every kind.
LEMMA FrameEndKeeps ==
    ASSUME NEW d, Good(d, 0), d.err = "OK", d.tx + 3 <= TX, d.f.t = "DATA" => d.pos = d.f.len
    PROVE  EndDone(h2_frame_end(d, Live(d, d.f.sid)), d)
<1> DEFINE k == Live(d, d.f.sid)
<1>1. Conn(d) /\ Taking(d) /\ InBlock(d)
  BY Zenon DEF Good, Conn
<1>2. CASE d.f.t = "DATA"
  <2>1. h2_frame_end(d, k) = data_end(d)
    BY <1>2, Zenon DEF h2_frame_end
  <2> QED BY <1>2, <2>1, DataEnd, Zenon
<1>3. CASE d.f.t # "DATA"
  <2>1. d.fs = 0
    BY <1>1, <1>3, Zenon DEF Taking
  <2>2. Ready(d)
    BY <1>3, <2>1, Zenon DEF Ready
  <2>3. EndDone(d, d)
    BY <2>2, NothingEnds, Zenon
  <2>4. /\ k \in 0..N
        /\ k # 0 => /\ k \in Slots /\ d.f.sid # 0 /\ d.s[k].id = d.f.sid
                    /\ ~Has(d.s[k], "RST") /\ ~BothEnds(d.s[k])
    BY LiveIs, Zenon
  <2>5. CASE d.f.t \in {"HEADERS", "CONT"}
    <3>1. h2_frame_end(d, k) = IF d.f.eh THEN h2_block_end(d) ELSE d
      BY <2>5, Zenon DEF h2_frame_end
    <3>2. Decoding(d)
      BY <2>1, <2>5, Zenon DEF Decoding
    <3>3. EndDone(h2_block_end(d), d)
      BY <3>2, BlockEnd, Zenon
    <3> QED BY <2>3, <3>1, <3>3, Zenon
  <2>6. CASE d.f.t = "RST" /\ k # 0
    <3> DEFINE e == [d EXCEPT !.s[k] = h2_rst_recv(@, d.f.code), !.g.st[d.f.sid].ph = "reset"]
    <3>1. h2_frame_end(d, k) = e
      BY <2>6, Zenon DEF h2_frame_end
    <3>2. EndDone(e, d)
      BY <2>2, <2>4, <2>6, RstKeeps, Zenon
    <3> QED BY <3>1, <3>2, Zenon
  <2>7. CASE d.f.t = "SETTINGS"
    <3>1. h2_frame_end(d, k) = [h2_ctrl(d) EXCEPT !.got_settings = TRUE]
      BY <2>7, Zenon DEF h2_frame_end
    <3> QED BY <2>2, <3>1, SettingsEnd, Zenon
  <2>8. CASE d.f.t = "PING"
    <3>1. h2_frame_end(d, k) = h2_ctrl(d)
      BY <2>8, Zenon DEF h2_frame_end
    <3> QED BY <2>2, <3>1, SettingsEnd, Zenon
  <2>9. CASE d.f.t = "GOAWAY"
    <3>1. h2_frame_end(d, k) = h2_goaway(d, d.f.n, d.f.code)
      BY <2>9, Zenon DEF h2_frame_end
    <3> QED BY <2>2, <2>9, <3>1, GoawayEnd, Zenon
  <2>10. CASE d.f.t = "WU"
    <3>1. h2_frame_end(d, k) = wu_end(d, k)
      BY <2>10, Zenon DEF h2_frame_end
    <3> QED BY <2>2, <2>10, <3>1, WuEnd, Zenon
  <2>11. CASE d.f.t \notin {"DATA", "HEADERS", "CONT", "SETTINGS", "PING", "GOAWAY", "WU"}
              /\ ~(d.f.t = "RST" /\ k # 0)
    <3>1. h2_frame_end(d, k) = d
      BY <2>11, Zenon DEF h2_frame_end
    <3> QED BY <2>3, <3>1, Zenon
  <2> DEFINE t == d.f.t  done == EndDone(h2_frame_end(d, k), d)
  <2>12. /\ t # "DATA" /\ (t \in {"HEADERS", "CONT"} => done) /\ (t = "RST" /\ k # 0 => done)
         /\ (t = "SETTINGS" => done) /\ (t = "PING" => done) /\ (t = "GOAWAY" => done) /\ (t = "WU" => done)
         /\ (t \notin {"DATA", "HEADERS", "CONT", "SETTINGS", "PING", "GOAWAY", "WU"}
               /\ ~(t = "RST" /\ k # 0) => done)
    BY <1>3, <2>5, <2>6, <2>7, <2>8, <2>9, <2>10, <2>11, Zenon
  <2> HIDE DEF k, t, done
  <2>13. done
    BY <2>12, Zenon
  <2> QED BY <2>13, Zenon DEF k, done
<1> QED BY <1>2, <1>3, Zenon

\* What a turn of h2_wait makes of the octets of a frame.
Fed(e, d) ==
    /\ Good(e, 0) /\ e.eof = d.eof
    /\ e.err = "OK" =>
          Named(e, d) /\ Framed(e) /\ e.fh \in {0, 9} /\ (e.fh = 9 => e.tx = d.tx)
Cleared(e) == [e EXCEPT !.f = NoFrame, !.pos = 0, !.dat = 0]

LEMMA ClearedIs ==
    ASSUME NEW e, Good(e, 0), e.fh = 0, e.err = "OK" => e.fs = 0 /\ e.cpend < CREDIT
    PROVE  LET z == Cleared(e)
           IN  /\ Good(z, 0) /\ Same(z, e, {"f", "pos", "dat"})
               /\ (z.err = "OK" => Framed(z) /\ z.fh = 0)
<1> DEFINE z == Cleared(e)
<1>1. Kept(e) /\ Typed(e) /\ Shape(e) /\ Simple(e) /\ e.tx <= TX /\ ~e.fault
  BY Zenon DEF Good, Kept, Typed
<1>2. Shape(z) /\ Same(z, e, {"f", "pos", "dat"}) /\ z.f = NoFrame /\ z.pos = 0 /\ z.dat = 0
  BY <1>1, Zenon DEF Shape, Same, Fields, Cleared
<1> HIDE DEF z
<1>3. /\ z.err = e.err /\ z.eof = e.eof /\ z.goaway = e.goaway /\ z.last_id = e.last_id
      /\ z.next_id = e.next_id /\ z.p_win = e.p_win /\ z.rx = e.rx /\ z.fs = e.fs
      /\ z.b = e.b /\ z.enc = e.enc /\ z.g = e.g /\ z.s = e.s /\ z.fh = e.fh /\ z.tx = e.tx /\ z.fault = e.fault
      /\ z.cwin = e.cwin /\ z.crwin = e.crwin /\ z.cpend = e.cpend
  BY <1>2, Zenon DEF Same, Fields
<1>4. Typed(z)
  <2>1. Simple(z)
    BY <1>1, <1>2, <1>3 DEF Simple
  <2> HIDE DEF Simple
  <2> QED BY <1>1, <1>2, <1>3, <2>1, Zenon DEF Typed
<1>5. ASSUME z.err = "OK"
      PROVE  /\ e.err = "OK" /\ (\A k \in Slots : Part(z, k) = Part(e, k) /\ Ending(z, k) = Ending(e, k))
             /\ Taking(z) /\ InBlock(z) /\ Told(z) /\ Encoding(z) /\ (z.eof # "no" => ~z.rx)
             /\ (0 = 0 /\ z.f.t # "DATA" => z.cpend < CREDIT)
             /\ z.fs = 0
  <2>1. e.err = "OK" /\ e.fs = 0 /\ z.fs = 0 /\ z.cpend < CREDIT
    BY <1>3, <1>5, Zenon
  <2>2. Conn(e)
    BY <2>1, Zenon DEF Good
  <2>3. \A k \in Slots : Part(z, k) = Part(e, k) /\ Ending(z, k) = Ending(e, k)
    BY <1>3, <2>1, Consts, Zenon DEF Part, Ending
  <2>4. Taking(z) /\ Encoding(z) /\ (z.eof # "no" => ~z.rx)
    BY <1>3, <2>1, <2>2, Zenon DEF Conn, Taking, Encoding
  <2>5. InBlock(z)
    <3>1. InBlock(e) /\ z.f.t = "none"
      BY <1>2, <2>2 DEF Conn, NoFrame
    <3> QED BY <1>3, <3>1, Zenon DEF InBlock
  <2>6. Told(z)
    BY <1>2, <1>3, <2>2 DEF Conn, Told, NoFrame
  <2> QED BY <2>1, <2>3, <2>4, <2>5, <2>6, Zenon
<1>6. PastSame(z, e, {"tab", "believed", "low"})
  BY <1>3, Zenon DEF PastSame
<1>7. Same(z, e, Neutral \cup {"pos", "dat", "f", "fs", "b", "enc", "g"})
  BY <1>2, Zenon DEF Same
<1>8. Good(z, 0)
  BY <1>1, <1>3, <1>4, <1>5, <1>6, <1>7, PlaceKeeps, Zenon
<1>9. z.err = "OK" => Framed(z) /\ z.fh = 0
  BY <1>2, <1>3, <1>5, Zenon DEF Framed
<1> QED BY <1>2, <1>8, <1>9, Zenon DEF z

LEMMA FedKeeps ==
    ASSUME NEW d, Good(d, 0), d.err # "OK" => d.fs = 0, d.fh = 9, d.tx + 3 <= TX,
           NEW p \in Nat, d.pos <= p, p <= FrameEnd(d.f)
    PROVE  Fed(frame_fed(d, p), d)
<1> DEFINE paid == h2_payload(d, p)
           q == [paid EXCEPT !.fh = 0]
           e == h2_frame_end(q, Live(q, q.f.sid))
           z == Cleared(e)
<1>1. d.tx \in Nat /\ TX \in Nat /\ Shape(d)
  BY Consts, Zenon DEF Good, Kept, Typed, Simple
<1>2. CASE d.err # "OK"
  <2>1. frame_fed(d, p) = paid
    BY <1>2, Zenon DEF frame_fed
  <2>2. Good(paid, 0) /\ paid.err # "OK" /\ paid.eof = d.eof
    BY <1>2, PayloadFailed, Zenon
  <2> QED BY <2>1, <2>2, Zenon DEF Fed
<1>3. CASE d.err = "OK"
  <2>1. PayloadDone(paid, d, p)
    BY <1>1, <1>3, PayloadKeeps
  <2> HIDE DEF paid
  <2>2. /\ Good(paid, 0) /\ Same(paid, d, Moved) /\ Named(paid, d) /\ (paid.err = "OK" => paid.tx = d.tx)
        /\ paid.pos = p
    BY <2>1, Zenon DEF PayloadDone
  <2>3. paid.eof = d.eof /\ paid.fh = 9 /\ paid.f = d.f /\ paid.fs = d.fs
    BY <2>2, Zenon DEF Same, Fields, Moved, SetFields
  <2>4. CASE paid.err # "OK" \/ p < FrameEnd(d.f)
    <3>1. frame_fed(d, p) = paid
      BY <2>4, Zenon DEF frame_fed, paid
    <3>2. Framed(paid)
      BY <2>3, Zenon DEF Framed
    <3> QED BY <2>2, <2>3, <3>1, <3>2, Zenon DEF Fed
  <2>5. CASE paid.err = "OK" /\ ~(p < FrameEnd(d.f))
    <3>1. Kept(paid) /\ Typed(paid) /\ Shape(paid) /\ Conn(paid) /\ paid.tx <= TX /\ ~paid.fault
      BY <2>2, <2>5, Zenon DEF Good, Kept, Typed
    <3>2. Shape(q) /\ Same(q, paid, {"fh"}) /\ q.fh = 0
      BY <3>1, Zenon DEF Shape, Same, Fields
    <3> HIDE DEF q
    <3>3. /\ q.err = "OK" /\ q.tx = d.tx /\ q.f = d.f /\ q.s = paid.s /\ q.pos = p /\ q.eof = d.eof
          /\ q.fault = paid.fault /\ q.rx = paid.rx
      BY <2>2, <2>3, <2>5, <3>2, Zenon DEF Same, Fields
    <3>4. Typed(q)
      <4>1. Same(q, paid, Untyped)
        BY <3>2, Zenon DEF Same, Untyped
      <4> QED BY <3>1, <3>2, <4>1, TypedSame, Zenon
    <3>5. Good(q, 0)
      <4>1. Same(q, paid, Neutral)
        BY <3>2, Zenon DEF Same, Neutral, Untyped
      <4>2. q.eof # "no" => ~q.rx
        BY <2>3, <3>1, <3>3, Zenon DEF Conn
      <4>3. q.tx <= TX /\ ~q.fault
        BY <1>1, <3>1, <3>3
      <4> QED BY <2>2, <2>5, <3>4, <4>1, <4>2, <4>3, NeutralKeeps, Zenon
    <3>6. d.f.t = "DATA" => p = d.f.len
      <4>1. d.f.len \in Nat
        BY FrameTyped, Zenon DEF Good, Kept, Typed
      <4> QED BY <2>5, <4>1 DEF FrameEnd
    <3>7. EndDone(e, q)
      BY <1>1, <3>3, <3>5, <3>6, FrameEndKeeps, Zenon
    <3>8. frame_fed(d, p) = z
      <4>1. Live(q, q.f.sid) = Live(paid, d.f.sid)
        BY <3>3 DEF Live
      <4> QED BY <1>3, <2>5, <4>1, Zenon DEF frame_fed, paid, q, Cleared
    <3> HIDE DEF e
    <3>9. /\ Good(e, 0) /\ e.eof = d.eof /\ Named(e, q) /\ e.fh = 0
          /\ (e.err = "OK" => e.fs = 0 /\ e.cpend < CREDIT)
      BY <3>2, <3>3, <3>7, Zenon DEF EndDone
    <3>10. Good(z, 0) /\ Same(z, e, {"f", "pos", "dat"}) /\ (z.err = "OK" => Framed(z) /\ z.fh = 0)
      BY <3>9, ClearedIs, Zenon
    <3> HIDE DEF z
    <3>11. z.eof = e.eof /\ z.s = e.s
      BY <3>10, Zenon DEF Same, Fields
    <3>12. Named(z, d)
      BY <2>2, <3>3, <3>9, <3>11, Zenon DEF Named
    <3> QED BY <3>8, <3>9, <3>10, <3>11, <3>12 DEF Fed
  <2> QED BY <2>4, <2>5, Zenon
<1> QED BY <1>2, <1>3, Zenon

-----------------------------------------------------------------------------
(* An empty queue has room for every read *)

LEMMA SumAtMost ==
    ASSUME NEW S, IsFiniteSet(S), NEW f, NEW B \in Nat, \A x \in S : f[x] \in Nat /\ f[x] <= B
    PROVE  SumFunctionOnSet(f, S) \in Nat /\ SumFunctionOnSet(f, S) <= B * Cardinality(S)
<1> DEFINE F(s) == SumFunctionOnSet(f, s)
           Bad == {n \in Nat : \E s \in SUBSET S : Cardinality(s) = n /\ ~(F(s) <= B * n)}
<1>1. \A s \in SUBSET S : IsFiniteSet(s) /\ Cardinality(s) \in Nat
  BY FS_Subset, FS_CardinalityType, Zenon
<1>2. ASSUME NEW s \in SUBSET S PROVE F(s) \in Nat
  <2>1. IsFiniteSet(s) /\ \A x \in s : f[x] \in Nat
    BY <1>1, Zenon
  <2> QED BY <2>1, SumNat, Zenon
<1>3. Bad = {}
  <2> SUFFICES ASSUME Bad # {} PROVE FALSE
    BY Zenon
  <2>1. PICK n \in Bad : \A m \in Bad : n <= m
    BY LeastNatural, Zenon
  <2>2. PICK s \in SUBSET S : Cardinality(s) = n /\ ~(F(s) <= B * n)
    BY <2>1, Zenon
  <2> DEFINE p == First(s)
             t == s \ {p}
  <2>3. IsFiniteSet(s)
    BY <1>1, Zenon
  <2>4. F(s) = IF s = {} THEN 0 ELSE f[p] + F(t)
    BY <2>3, SumStep, Zenon
  <2>5. s # {} /\ p \in s
    <3>1. n \in Nat /\ B * n \in Nat
      BY <2>1
    <3>2. s # {}
      <4> HIDE DEF F
      <4> QED BY <2>2, <2>4, <3>1
    <3> QED BY <3>2, FirstIn, Zenon
  <2>6. t \in SUBSET S /\ Cardinality(t) \in Nat /\ Cardinality(t) = n - 1 /\ n \in Nat
    BY <1>1, <2>2, <2>3, <2>5, RemoveOne, Zenon
  <2>7. F(t) <= B * (n - 1)
    <3> DEFINE m == n - 1
    <3>1. m \in Nat /\ ~(n <= m)
      BY <2>6
    <3>2. m \notin Bad
      BY <2>1, <3>1, Zenon
    <3> HIDE DEF F, t
    <3> QED BY <2>6, <3>1, <3>2, Zenon
  <2>8. F(t) \in Nat /\ F(s) \in Nat /\ f[p] \in Nat /\ f[p] <= B
    BY <1>2, <2>5, <2>6, Zenon
  <2>9. B * n = B * (n - 1) + B /\ B * (n - 1) \in Int
    BY <2>6
  <2> DEFINE a == B * n  z == B * (n - 1)
  <2>10. a = z + B /\ z \in Int /\ ~(F(s) <= a) /\ F(t) <= z /\ F(s) = f[p] + F(t)
    BY <2>2, <2>4, <2>5, <2>7, <2>9, Zenon
  <2> HIDE DEF F, t, a, z, p
  <2> QED BY <2>8, <2>10
<1>4. F(S) <= B * Cardinality(S)
  <2>1. Cardinality(S) \in Nat /\ Cardinality(S) \notin Bad
    BY <1>1, <1>3, Zenon
  <2> QED BY <2>1, Zenon
<1> QED BY <1>2, <1>4, Zenon

LEMMA OwedTyped ==
    ASSUME NEW d, Typed(d), NEW k \in Slots
    PROVE  LET s == d.s[k]
           IN  /\ Owed(d)[k] \in Nat
               /\ Owed(d)[k] = IF s.id # 0 /\ s.err = "OK" THEN s.pend + 2 * s.ready ELSE 0
               /\ s.pend \in Nat /\ s.ready \in Nat
<1> DEFINE s == d.s[k]
<1>1. s \in SlotType
  BY SlotTyped, Zenon
<1>2. Owed(d)[k] = IF s.id # 0 /\ s.err = "OK" THEN s.pend + 2 * s.ready ELSE 0
  BY Zenon DEF Owed
<1> HIDE DEF s
<1>3. s.pend \in Nat /\ s.ready \in Nat
  BY <1>1, Zenon DEF SlotType
<1> QED BY <1>2, <1>3 DEF s

\* What a stream may still turn into credit is at most two windows.
LEMMA OwedAtMost ==
    ASSUME NEW d, Good(d, 0), d.err = "OK", NEW k \in Slots
    PROVE  Owed(d)[k] <= 2 * W
<1> DEFINE s == d.s[k]  x == Part(d, k)  st == d.g.st[s.id]  o == Owed(d)[k]
<1>1. Typed(d) /\ Conn(d) /\ SlotOK(d, k) /\ Simple(d)
  BY Zenon DEF Good, Kept, Typed
<1>2. /\ o \in Nat /\ o = (IF s.id # 0 /\ s.err = "OK" THEN s.pend + 2 * s.ready ELSE 0)
      /\ s.pend \in Nat /\ s.ready \in Nat
  BY <1>1, OwedTyped, Zenon
<1>3. W \in Nat
  BY Consts, Zenon
<1>4. s \in SlotType
  BY <1>1, SlotTyped, Zenon
<1>5. x.taken \in Nat /\ x.len \in Nat /\ x.taken <= x.len
  <2>1. x.taken \in Nat /\ x.len \in Nat
    BY <1>1, PartTyped, Zenon
  <2>2. CASE d.fs = k
    <3>1. d.dat = FrameData(d.f, d.pos) /\ d.pos <= d.f.len
      BY <1>1, <2>2, Consts, Zenon DEF Conn, Taking
    <3>2. d.pos \in Nat /\ d.f \in Frames \cup {NoFrame} /\ d.dat \in Nat
      BY <1>1, Zenon DEF Typed, Simple
    <3>3. d.f.len \in Nat
      BY <3>2, FrameTyped, Zenon
    <3>4. FrameData(d.f, d.pos) <= d.pos
      BY <3>1, <3>2, FrameDataGrows
    <3>5. x.taken = d.dat /\ x.len = d.f.len
      BY <2>2, Zenon DEF Part
    <3> QED BY <2>1, <3>1, <3>2, <3>3, <3>4, <3>5
  <2>3. CASE d.fs # k
    <3>1. x = Idle0
      BY <2>3, Zenon DEF Part
    <3> QED BY <3>1 DEF Idle0
  <2> QED BY <2>1, <2>2, <2>3, Zenon
<1>6. s.id # 0 => Counting(s, st, x)
  BY <1>1, Zenon DEF SlotOK
<1> HIDE DEF s, x, st, o
<1>7. CASE s.id # 0 /\ s.err = "OK"
  <2>1. s.pend + Rest(s) + x.len - x.taken <= W /\ s.ready <= Rest(s)
    BY <1>6, <1>7, Zenon DEF Counting
  <2>2. Rest(s) \in Int
    BY <1>4 DEF Rest, SlotType
  <2>3. o = s.pend + 2 * s.ready
    BY <1>2, <1>7, Zenon
  <2> DEFINE p == s.pend  y == s.ready  R == Rest(s)  a == x.len  b == x.taken
  <2>4. /\ p \in Nat /\ y \in Nat /\ R \in Int /\ a \in Nat /\ b \in Nat /\ b <= a
        /\ p + R + a - b <= W /\ y <= R /\ o = p + 2 * y
    BY <1>2, <1>5, <2>1, <2>2, <2>3, Zenon
  <2> HIDE DEF p, y, R, a, b
  <2>5. o <= 2 * W
    BY <1>3, <2>4
  <2> QED BY <2>5, Zenon DEF o
<1>8. CASE ~(s.id # 0 /\ s.err = "OK")
  BY <1>2, <1>3, <1>8 DEF o
<1> QED BY <1>7, <1>8, Zenon

LEMMA EmptyRoom ==
    ASSUME NEW d, Good(d, 0), d.err = "OK", d.tx = 0
    PROVE  Potential(d) <= Room
<1> DEFINE o == SumFunctionOnSet(Owed(d), Slots)
<1>1. Typed(d) /\ Simple(d)
  BY Zenon DEF Good, Kept, Typed
<1>2. o \in Nat /\ o <= 2 * W * Cardinality(Slots)
  <2>1. IsFiniteSet(Slots) /\ 2 * W \in Nat
    BY Consts
  <2>2. \A k \in Slots : Owed(d)[k] \in Nat /\ Owed(d)[k] <= 2 * W
    BY <1>1, OwedTyped, OwedAtMost, Zenon
  <2> HIDE DEF Slots
  <2> QED BY <2>1, <2>2, SumAtMost, Zenon
<1>3. Cardinality(Slots) = N /\ N \in Nat /\ W \in Nat /\ CREDIT \in Nat
  BY Consts, FS_Interval
<1>4. d.cpend \in Nat
  BY <1>1, Zenon DEF Simple
<1>5. Capped(d.cpend) \in Nat /\ Capped(d.cpend) <= CREDIT
  BY <1>4, CappedIs, Zenon
<1> DEFINE cc == Capped(d.cpend)
<1>6. Potential(d) = CREDIT * 0 + o + cc
  BY Zenon DEF Potential
<1>7. Room = 2 * N * W + CREDIT
  BY Zenon DEF Room
<1> HIDE DEF o, cc, CREDIT, Room, Potential
<1>8. 2 * W * N = 2 * N * W /\ 2 * N * W \in Nat /\ CREDIT * 0 = 0
  BY <1>3
<1> DEFINE z == 2 * N * W
<1>9. o <= z /\ z \in Nat /\ Room = z + CREDIT /\ Potential(d) = o + cc /\ cc \in Nat /\ cc <= CREDIT
  <2>1. o <= z
    BY <1>2, <1>3, <1>8, Zenon
  <2> QED BY <1>2, <1>3, <1>5, <1>6, <1>7, <1>8, <2>1 DEF cc
<1> HIDE DEF z
<1> QED BY <1>2, <1>3, <1>9

\* There is room for one more frame, whatever reads have queued.
LEMMA RoomForOne ==
    ASSUME NEW d, Typed(d), Potential(d) <= Room
    PROVE  d.tx < TX
<1> DEFINE o == SumFunctionOnSet(Owed(d), Slots)  cc == Capped(d.cpend)  z == CREDIT * d.tx
<1>1. d.tx \in Nat /\ d.cpend \in Nat
  BY Zenon DEF Typed, Simple
<1>2. o \in Nat
  <2>1. IsFiniteSet(Slots) /\ \A k \in Slots : Owed(d)[k] \in Nat
    BY Consts, OwedTyped, Zenon
  <2> HIDE DEF Slots
  <2> QED BY <2>1, SumNat, Zenon
<1>3. cc \in Nat /\ z \in Nat /\ Room \in Nat
  BY <1>1, CappedIs, Frames1, RoomIs, Zenon
<1>4. z + o + cc <= Room
  BY Zenon DEF Potential
<1>5. z <= Room
  <2> HIDE DEF o, cc, z, Room
  <2> QED BY <1>2, <1>3, <1>4
<1> QED BY <1>1, <1>5, RoomSuffices, Zenon

-----------------------------------------------------------------------------
(* A stream is closed *)

\* The application is told to repeat only what the server did not process.
LEMMA RefusedIs ==
    ASSUME NEW d, Kept(d), NEW k \in Slots
    PROVE  Refused(d, k) = d
<1> DEFINE s == d.s[k]  id == s.id  st == d.g.st[id]  e == Refused(d, k)
<1>1. CASE s.err # "RETRY"
  BY <1>1, Zenon DEF Refused
<1>2. CASE s.err = "RETRY"
  <2>1. id \in Ids /\ st.unproc /\ st.retry /\ Typed(d)
    BY <1>2, Zenon DEF Kept
  <2>2. st \in StreamType /\ Shape(d) /\ PastTyped(d.g)
    BY <2>1, StreamTyped, Zenon DEF Typed
  <2> DEFINE u == [st EXCEPT !.retry = st.retry /\ st.unproc]
  <2>3. u = st
    <3> HIDE DEF st
    <3> QED BY <2>1, <2>2, Zenon DEF StreamType
  <2> DEFINE h == [d.g.st EXCEPT ![id] = u]
  <2>4. h = d.g.st
    <3> HIDE DEF u, st
    <3>1. d.g.st \in [Ids -> StreamType]
      BY <2>2, Zenon DEF PastTyped
    <3> QED BY <2>1, <2>3, <3>1, Zenon DEF st
  <2> DEFINE z == [d.g EXCEPT !.st = h]
  <2>5. z = d.g
    <3> HIDE DEF h
    <3> QED BY <2>2, <2>4, Zenon DEF PastTyped, Past
  <2>6. e = [d EXCEPT !.g = z]
    BY <1>2, <2>2, Zenon DEF Refused, Shape, Fields, PastTyped, Past
  <2> HIDE DEF z, e
  <2>7. e = d
    BY <2>2, <2>5, <2>6, Zenon DEF Shape, Fields
  <2> QED BY <2>7, Zenon DEF e
<1> QED BY <1>1, <1>2, Zenon

\* The slot is free again, and a block under way on it is only decoded.
Freed(d, k) == [d EXCEPT !.s[k] = Slot0, !.b.s = IF @ = k THEN 0 ELSE @]
FreedFrom(e, d, k) ==
    /\ Typed(e) /\ Same(e, d, {"s", "b"}) /\ e.s[k] = Slot0
    /\ \A j \in Slots : j # k => e.s[j] = d.s[j]
    /\ (e.b.in <=> d.b.in) /\ (e.b.es <=> d.b.es) /\ (e.b.trailer <=> d.b.trailer)
    /\ e.b.sid = d.b.sid /\ e.b.pre = d.b.pre /\ e.b.s = IF d.b.s = k THEN 0 ELSE d.b.s
LEMMA FreedIs ==
    ASSUME NEW d, Typed(d), NEW k \in Slots
    PROVE  FreedFrom(Freed(d, k), d, k)
<1> DEFINE b == d.b
           n == IF b.s = k THEN 0 ELSE b.s
           a == [b EXCEPT !.s = n]
           e == Freed(d, k)
           m == [d.s EXCEPT ![k] = Slot0]
<1>1. Shape(d) /\ d.s \in [Slots -> SlotType] /\ b \in BlockType
  BY Zenon DEF Typed
<1>2. e = [d EXCEPT !.s = m, !.b = a]
  BY <1>1, Zenon DEF Freed, Shape, Fields
<1> HIDE DEF b, Representations
<1>3. b.s \in 0..N
  BY <1>1, Zenon DEF BlockType
<1>4. n \in 0..N
  BY <1>3, Consts
<1> HIDE DEF n
<1>5. /\ a \in BlockType /\ (a.in <=> b.in) /\ (a.es <=> b.es) /\ (a.trailer <=> b.trailer)
      /\ a.sid = b.sid /\ a.pre = b.pre /\ a.s = n
  BY <1>1, <1>4, Zenon DEF BlockType
<1>6. m \in [Slots -> SlotType] /\ m[k] = Slot0 /\ \A j \in Slots : j # k => m[j] = d.s[j]
  <2> HIDE DEF Slots, Slot0
  <2> QED BY <1>1, Slot0Typed, Zenon
<1> HIDE DEF a, m, e
<1>7. Shape(e) /\ Same(e, d, {"s", "b"}) /\ e.s = m /\ e.b = a
  BY <1>1, <1>2, Zenon DEF Shape, Same, Fields
<1>8. Typed(e)
  <2>1. /\ e.fault = d.fault /\ e.goaway = d.goaway /\ e.rx = d.rx /\ e.p_win = d.p_win
        /\ e.next_id = d.next_id /\ e.tx = d.tx /\ e.cpend = d.cpend /\ e.last_id = d.last_id
        /\ e.pos = d.pos /\ e.dat = d.dat /\ e.cwin = d.cwin /\ e.crwin = d.crwin /\ e.fs = d.fs
        /\ e.g = d.g /\ e.enc = d.enc /\ e.f = d.f
    BY <1>7, Zenon DEF Same, Fields
  <2>2. Simple(e)
    BY <2>1, Zenon DEF Typed, Simple
  <2> HIDE DEF Simple
  <2> QED BY <1>5, <1>6, <1>7, <2>1, <2>2, Zenon DEF Typed
<1>9. FreedFrom(e, d, k)
  BY <1>5, <1>6, <1>7, <1>8, Zenon DEF FreedFrom, b, n
<1> QED BY <1>9, Zenon DEF e

\* A slot is also freed on a connection that failed.
LEMMA FreedKept ==
    ASSUME NEW d, Kept(d), d.err # "OK", NEW k \in Slots
    PROVE  LET e == Freed(d, k) IN Good(e, 0) /\ Same(e, d, {"s", "b"})
<1> DEFINE e == Freed(d, k)
<1>1. Typed(d) /\ d.g.wire /\ ~d.fault /\ d.tx <= TX
  BY Zenon DEF Kept
<1>2. FreedFrom(e, d, k)
  BY <1>1, FreedIs, Zenon
<1> HIDE DEF e
<1>3. /\ Typed(e) /\ Same(e, d, {"s", "b"}) /\ e.s[k] = Slot0
      /\ \A j \in Slots : j # k => e.s[j] = d.s[j]
  BY <1>2, Zenon DEF FreedFrom
<1>4. e.g = d.g /\ e.err = d.err /\ e.fault = d.fault /\ e.tx = d.tx
  BY <1>3, Zenon DEF Same, Fields
<1>5. ASSUME NEW j \in Slots, e.s[j].err = "RETRY"
      PROVE  e.s[j].id \in Ids /\ e.g.st[e.s[j].id].unproc
  <2>1. j # k
    BY <1>3, <1>5 DEF Slot0
  <2>2. e.s[j] = d.s[j]
    BY <1>3, <2>1, Zenon
  <2> QED BY <1>4, <1>5, <2>2, Zenon DEF Kept
<1>6. \A i \in Ids : e.g.st[i].whole /\ e.g.st[i].retry
  BY <1>4, Zenon DEF Kept
<1>7. Kept(e)
  BY <1>1, <1>3, <1>4, <1>5, <1>6, Zenon DEF Kept
<1> QED BY <1>3, <1>4, <1>7, Zenon DEF Good, e
LEMMA ReleaseFailed ==
    ASSUME NEW d, Kept(d), d.err # "OK", NEW k \in Slots, NEW w
    PROVE  LET e == h2_release(d, k, w) IN Good(e, 0) /\ Same(e, d, {"s", "b"})
<1>1. h2_release(d, k, w) = Freed(d, k)
  BY Zenon DEF h2_release, Freed
<1> QED BY <1>1, FreedKept, Zenon

\* The stream k of d ends for good, and the connection owes what the slot still holds.
Ended0(u, st) ==
    /\ u.whole /\ u.retry /\ (u.unproc <=> st.unproc)
    /\ u.ph = "reset" \/ (u.ph = "ended" /\ u.es)
ResetFrom(r, d, k) ==
    /\ Typed(r) /\ Same(r, d, {"g", "tx", "err", "fault"}) /\ PastSame(r, d, {"st", "wire"})
    /\ r.g.wire /\ ~r.fault /\ r.tx < TX /\ (r.err = "OK" \/ r.err = "IO")
    /\ Ended0(r.g.st[d.s[k].id], d.g.st[d.s[k].id])
    /\ \A i \in Ids : i # d.s[k].id => r.g.st[i] = d.g.st[i]
LEMMA ResetIs ==
    ASSUME NEW d, Good(d, 0), d.err = "OK", NEW k \in Slots, d.s[k].id # 0, NEW w \in BOOLEAN,
           Has(d.s[k], "RST") \/ BothEnds(d.s[k]) => d.tx < TX
    PROVE  LET room == IF TX - d.tx < 2 THEN h2_flush(d, w) ELSE d
           IN  ResetFrom(IF Has(d.s[k], "RST") \/ BothEnds(d.s[k]) THEN d ELSE rst_stream(room, k), d, k)
<1> DEFINE room == IF TX - d.tx < 2 THEN h2_flush(d, w) ELSE d
           s == d.s[k]  id == s.id  st == d.g.st[id]
           r == rst_stream(room, k)
<1>1. Kept(d) /\ Typed(d) /\ SlotOK(d, k) /\ d.g.wire /\ ~d.fault /\ d.tx <= TX
  BY Zenon DEF Good, Kept
<1>2. id \in Ids /\ Closing(s, st, Part(d, k).es \/ Ending(d, k))
  BY <1>1, Zenon DEF SlotOK
<1>3. st.whole /\ st.retry
  BY <1>1, <1>2, Zenon DEF Kept
<1>4. d.tx \in Nat /\ TX \in Nat /\ TX >= 4
  BY <1>1, Consts DEF Typed, Simple
<1>5. CASE Has(s, "RST") \/ BothEnds(s)
  <2>1. st.ph = "reset" \/ (st.ph = "ended" /\ st.es)
    <3> HIDE DEF s, st
    <3>1. BothEnds(s) => Has(s, "SENT_END") /\ Has(s, "RECV_END")
      BY Zenon DEF BothEnds, Has
    <3> QED BY <1>2, <1>5, <3>1, Zenon DEF Closing
  <2>2. Ended0(st, st)
    BY <1>3, <2>1, Zenon DEF Ended0
  <2>3. ResetFrom(d, d, k)
    BY <1>1, <1>5, <2>2, Zenon DEF ResetFrom, Same, PastSame
  <2> QED BY <1>5, <2>3, Zenon
<1>6. CASE ~(Has(s, "RST") \/ BothEnds(s))
  <2>1. /\ Typed(room) /\ Same(room, d, {"tx", "err"}) /\ room.tx \in Nat /\ room.tx + 1 < TX
        /\ (room.err = "OK" \/ room.err = "IO")
    <3>1. CASE TX - d.tx < 2
      <4>1. Typed(h2_flush(d, w)) /\ Same(h2_flush(d, w), d, {"tx", "err"}) /\ h2_flush(d, w).tx = 0
            /\ h2_flush(d, w).err = IF d.tx # 0 /\ ~w /\ d.err = "OK" THEN "IO" ELSE d.err
        BY <1>1, FlushDoes, Zenon
      <4> QED BY <1>4, <3>1, <4>1
    <3>2. CASE ~(TX - d.tx < 2)
      <4>1. Same(d, d, {"tx", "err"})
        BY Zenon DEF Same
      <4> QED BY <1>1, <1>4, <3>2, <4>1
    <3> QED BY <3>1, <3>2, Zenon
  <2> HIDE DEF room
  <2>2. room.s = d.s /\ room.g = d.g /\ room.fault = d.fault
    BY <2>1, Zenon DEF Same, Fields
  <2> DEFINE u == [room.g.st[room.s[k].id] EXCEPT !.ph = "reset"]
  <2>3. /\ Typed(r) /\ Same(r, room, {"g", "fault", "tx"}) /\ PastSame(r, room, {"st", "wire"})
        /\ r.tx = room.tx + 1 /\ (r.fault <=> room.fault \/ room.tx = TX)
        /\ (r.g.wire <=> room.g.wire /\ room.g.st[room.s[k].id].ph \in {"open", "ended"})
        /\ StreamBecomes(r, room, room.s[k].id, u)
    BY <1>2, <2>1, <2>2, RstStreamDoes, Zenon
  <2>4. u = [st EXCEPT !.ph = "reset"] /\ room.s[k].id = id
    BY <2>2, Zenon
  <2>5. st \in StreamType
    BY <1>1, <1>2, StreamTyped, Zenon
  <2>6. st.ph \in {"open", "ended"}
    <3> HIDE DEF s, st
    <3> QED BY <1>2, <1>6, Zenon DEF Closing
  <2> HIDE DEF u, r
  <2>7. u \in StreamType /\ Ended0(u, st)
    <3> HIDE DEF st
    <3> QED BY <1>3, <2>4, <2>5, Zenon DEF StreamType, Ended0
  <2>8. r.g.st[id] = u /\ \A i \in Ids : i # id => r.g.st[i] = d.g.st[i]
    <3>1. StreamBecomes(r, room, id, u)
      BY <2>3, <2>4, Zenon
    <3>2. r.g.st[id] = u /\ \A i \in Ids : i # id => r.g.st[i] = room.g.st[i]
      BY <1>2, <2>1, <2>7, <3>1, StreamChanged
    <3> QED BY <2>2, <3>2, Zenon
  <2>9. Same(r, d, {"g", "tx", "err", "fault"}) /\ PastSame(r, d, {"st", "wire"}) /\ r.err = room.err
    BY <2>1, <2>2, <2>3 DEF Same, PastSame, Fields
  <2>10. ~r.fault /\ r.tx < TX
    BY <1>1, <1>4, <2>1, <2>2, <2>3
  <2>11. r.g.wire
    BY <1>1, <2>2, <2>3, <2>6, Zenon
  <2>12. ResetFrom(r, d, k)
    BY <2>1, <2>3, <2>7, <2>8, <2>9, <2>10, <2>11, Zenon DEF ResetFrom
  <2> QED BY <1>6, <2>12, Zenon DEF r, room
<1> QED BY <1>5, <1>6, Zenon

Left(d, k) == d.s[k].rlen - d.s[k].hdr + (IF d.fs = k THEN d.f.len - d.dat ELSE 0)
LEMMA LeftIs ==
    ASSUME NEW d, Good(d, 0), d.err = "OK", NEW k \in Slots, d.s[k].id # 0
    PROVE  Left(d, k) \in Nat /\ Left(d, k) = Unread(d, k) + Coming(d, k)
<1> DEFINE s == d.s[k]
<1>1. Typed(d) /\ Conn(d) /\ SlotOK(d, k) /\ Simple(d) /\ s \in SlotType
  BY SlotTyped, Zenon DEF Good, Kept, Typed
<1>2. s.hdr <= s.rlen
  BY <1>1, Zenon DEF SlotOK, Counting
<1>3. s.rlen \in Nat /\ s.hdr \in Nat
  BY <1>1, Zenon DEF SlotType
<1>4. CASE d.fs = k
  <2>1. d.dat = FrameData(d.f, d.pos) /\ d.pos <= d.f.len
    BY <1>1, <1>4, Consts, Zenon DEF Conn, Taking
  <2>2. d.pos \in Nat /\ d.f \in Frames \cup {NoFrame} /\ d.dat \in Nat
    BY <1>1, Zenon DEF Typed, Simple
  <2>3. d.f.len \in Nat
    BY <2>2, FrameTyped, Zenon
  <2>4. FrameData(d.f, d.pos) <= d.pos
    BY <2>1, <2>2, <2>3, FrameDataGrows
  <2>5. d.f.len - d.dat \in Nat
    BY <2>1, <2>2, <2>3, <2>4
  <2>6. Left(d, k) = (s.rlen - s.hdr) + (d.f.len - d.dat)
    BY <1>4, Zenon DEF Left
  <2>7. Unread(d, k) = s.rlen - s.hdr /\ Coming(d, k) = d.f.len - d.dat
    BY <1>4, Zenon DEF Unread, Coming
  <2> QED BY <1>2, <1>3, <2>5, <2>6, <2>7
<1>5. CASE d.fs # k
  <2>1. Left(d, k) = (s.rlen - s.hdr) + 0
    BY <1>5, Zenon DEF Left
  <2>2. Unread(d, k) = s.rlen - s.hdr /\ Coming(d, k) = 0
    BY <1>5, Zenon DEF Unread, Coming
  <2> QED BY <1>2, <1>3, <2>1, <2>2
<1> QED BY <1>4, <1>5, Zenon

OwesFrom(o, r, d, k) ==
    /\ Typed(o) /\ Same(o, r, {"cpend", "fs"}) /\ o.cpend = r.cpend + Left(d, k)
    /\ o.fs = IF d.fs = k THEN 0 ELSE d.fs
LEMMA OwesIs ==
    ASSUME NEW d, Good(d, 0), d.err = "OK", NEW k \in Slots, d.s[k].id # 0, NEW r, ResetFrom(r, d, k)
    PROVE  OwesFrom([r EXCEPT !.cpend = @ + d.s[k].rlen - d.s[k].hdr
                                          + (IF d.fs = k THEN d.f.len - d.dat ELSE 0),
                              !.fs = IF @ = k THEN 0 ELSE @], r, d, k)
<1> DEFINE s == d.s[k]  m == IF d.fs = k THEN d.f.len - d.dat ELSE 0
           f == IF d.fs = k THEN 0 ELSE d.fs
           n == r.cpend + s.rlen - s.hdr + m
           o == [r EXCEPT !.cpend = @ + s.rlen - s.hdr + m, !.fs = IF @ = k THEN 0 ELSE @]
<1>1. Typed(r) /\ Shape(r) /\ Simple(r) /\ r.fs = d.fs /\ r.cpend = d.cpend
  BY Zenon DEF ResetFrom, Typed, Same, Fields
<1>2. o = [r EXCEPT !.cpend = n, !.fs = f]
  BY <1>1, Zenon DEF Shape, Fields
<1>3. Typed(d) /\ s \in SlotType /\ Simple(d)
  BY SlotTyped, Zenon DEF Good, Kept, Typed
<1>4. n = r.cpend + Left(d, k) /\ n \in Nat
  <2>1. s.rlen \in Nat /\ s.hdr \in Nat /\ r.cpend \in Nat
    BY <1>1, <1>3, Zenon DEF SlotType, Simple
  <2>2. Left(d, k) = s.rlen - s.hdr + m /\ Left(d, k) \in Nat
    BY LeftIs, Zenon DEF Left
  <2>3. m \in Int
    <3>1. d.f.len \in Nat /\ d.dat \in Nat
      BY <1>3, FrameTyped, Zenon DEF Typed, Simple
    <3> QED BY <3>1
  <2> HIDE DEF m, s
  <2> QED BY <2>1, <2>2, <2>3
<1>5. f \in 0..N
  BY <1>3, Consts DEF Simple
<1> HIDE DEF n, f, o
<1>6. Shape(o) /\ Same(o, r, {"cpend", "fs"}) /\ o.cpend = n /\ o.fs = f
  BY <1>1, <1>2, Zenon DEF Shape, Same, Fields
<1>7. Typed(o)
  <2>1. Same(o, r, Scalars)
    BY <1>6, Zenon DEF Same, Scalars, Fields
  <2>2. Simple(o)
    <3>1. /\ o.fault = r.fault /\ o.goaway = r.goaway /\ o.rx = r.rx /\ o.p_win = r.p_win
          /\ o.next_id = r.next_id /\ o.tx = r.tx /\ o.last_id = r.last_id
          /\ o.pos = r.pos /\ o.dat = r.dat /\ o.cwin = r.cwin /\ o.crwin = r.crwin
      BY <1>6, Zenon DEF Same, Fields
    <3> QED BY <1>1, <1>4, <1>5, <1>6, <3>1, Zenon DEF Simple
  <2> QED BY <1>1, <1>6, <2>1, <2>2, TypedAfter, Zenon
<1>8. OwesFrom(o, r, d, k)
  BY <1>4, <1>6, <1>7, Zenon DEF OwesFrom, f
<1> QED BY <1>8, Zenon DEF o

Released(e, d, k) ==
    /\ Typed(e) /\ Same(e, d, {"g", "tx", "err", "fault", "cpend", "crwin", "fs", "s", "b"})
    /\ PastSame(e, d, {"st", "wire"}) /\ e.g.wire /\ ~e.fault /\ e.tx = 0
    /\ e.crwin + e.cpend = d.crwin + d.cpend + Left(d, k) /\ e.cpend < CREDIT
    /\ e.fs = IF d.fs = k THEN 0 ELSE d.fs
    /\ Ended0(e.g.st[d.s[k].id], d.g.st[d.s[k].id])
    /\ \A i \in Ids : i # d.s[k].id => e.g.st[i] = d.g.st[i]
    /\ e.s[k] = Slot0 /\ \A j \in Slots : j # k => e.s[j] = d.s[j]
    /\ (e.b.in <=> d.b.in) /\ (e.b.es <=> d.b.es) /\ (e.b.trailer <=> d.b.trailer)
    /\ e.b.sid = d.b.sid /\ e.b.pre = d.b.pre /\ e.b.s = IF d.b.s = k THEN 0 ELSE d.b.s
LEMMA ReleasedIs ==
    ASSUME NEW d, Good(d, 0), d.err = "OK", NEW k \in Slots, d.s[k].id # 0, NEW w \in BOOLEAN,
           Has(d.s[k], "RST") \/ BothEnds(d.s[k]) => d.tx < TX
    PROVE  Released(h2_release(d, k, w), d, k)
<1> DEFINE room == IF TX - d.tx < 2 THEN h2_flush(d, w) ELSE d
           r == IF Has(d.s[k], "RST") \/ BothEnds(d.s[k]) THEN d ELSE rst_stream(room, k)
           o == [r EXCEPT !.cpend = @ + d.s[k].rlen - d.s[k].hdr
                                          + (IF d.fs = k THEN d.f.len - d.dat ELSE 0),
                          !.fs = IF @ = k THEN 0 ELSE @]
           q == h2_credit(o, 0)
           v == h2_flush(q, w)
           e == Freed(v, k)
<1>1. h2_release(d, k, w) = e
  BY DEF h2_release, Freed
<1>2. ResetFrom(r, d, k)
  BY ResetIs, Zenon
<1> HIDE DEF r
<1>3. OwesFrom(o, r, d, k)
  BY <1>2, OwesIs, Zenon
<1> HIDE DEF o
<1>4. /\ Typed(o) /\ o.tx = r.tx /\ o.fault = r.fault /\ o.err = r.err /\ o.crwin = r.crwin /\ o.g = r.g
      /\ o.s = r.s /\ o.b = r.b /\ o.cpend = r.cpend + Left(d, k) /\ Same(o, r, {"cpend", "fs"})
      /\ o.fs = IF d.fs = k THEN 0 ELSE d.fs
  BY <1>3, Zenon DEF OwesFrom, Same, Fields
<1>5. o.tx < TX /\ ~o.fault
  BY <1>2, <1>4, Zenon DEF ResetFrom
<1>6. /\ Typed(q) /\ Same(q, o, {"fault", "tx", "crwin", "cpend"}) /\ ~q.fault
      /\ q.crwin + q.cpend = o.crwin + o.cpend /\ q.cpend < CREDIT
  BY <1>4, <1>5, CreditZero, Zenon
<1> HIDE DEF q
<1>7. Typed(v) /\ Same(v, q, {"tx", "err"}) /\ v.tx = 0
  BY <1>6, FlushDoes, Zenon
<1> HIDE DEF v
<1>8. FreedFrom(e, v, k)
  BY <1>7, FreedIs, Zenon
<1> HIDE DEF e
<1>9. Same(v, d, {"g", "tx", "err", "fault", "cpend", "crwin", "fs"})
  <2>1. Same(r, d, {"g", "tx", "err", "fault"})
    BY <1>2, Zenon DEF ResetFrom
  <2> QED BY <1>4, <1>6, <1>7, <2>1 DEF Same
<1>10. v.s = d.s /\ v.b = d.b
  BY <1>9, Zenon DEF Same, Fields
<1>11. /\ v.g = r.g /\ v.fs = o.fs /\ v.crwin = q.crwin /\ v.cpend = q.cpend /\ v.fault = q.fault
  BY <1>4, <1>6, <1>7, Zenon DEF Same, Fields
<1>12. /\ e.g = v.g /\ e.fs = v.fs /\ e.crwin = v.crwin /\ e.cpend = v.cpend /\ e.fault = v.fault /\ e.tx = v.tx
  BY <1>8, Zenon DEF FreedFrom, Same, Fields
<1>13. Same(e, d, {"g", "tx", "err", "fault", "cpend", "crwin", "fs", "s", "b"})
  BY <1>8, <1>9, Zenon DEF FreedFrom, Same
<1>14. e.crwin + e.cpend = d.crwin + d.cpend + Left(d, k)
  <2>1. r.crwin = d.crwin /\ r.cpend = d.cpend
    BY <1>2, Zenon DEF ResetFrom, Same, Fields
  <2>2. d.crwin \in Int /\ d.cpend \in Int /\ Left(d, k) \in Int
    BY LeftIs DEF Good, Kept, Typed, Simple
  <2> HIDE DEF Left
  <2> QED BY <1>4, <1>6, <1>11, <1>12, <2>1, <2>2
<1>15. /\ PastSame(e, d, {"st", "wire"}) /\ e.g.wire
       /\ Ended0(e.g.st[d.s[k].id], d.g.st[d.s[k].id])
       /\ \A i \in Ids : i # d.s[k].id => e.g.st[i] = d.g.st[i]
  BY <1>2, <1>11, <1>12 DEF ResetFrom, PastSame
<1>16. /\ Typed(e) /\ e.s[k] = Slot0 /\ \A j \in Slots : j # k => e.s[j] = d.s[j]
  BY <1>8, <1>10, Zenon DEF FreedFrom
<1>17. /\ (e.b.in <=> d.b.in) /\ (e.b.es <=> d.b.es) /\ (e.b.trailer <=> d.b.trailer)
       /\ e.b.sid = d.b.sid /\ e.b.pre = d.b.pre /\ e.b.s = IF d.b.s = k THEN 0 ELSE d.b.s
  BY <1>8, <1>10, Zenon DEF FreedFrom
<1>18. ~e.fault /\ e.tx = 0 /\ e.cpend < CREDIT /\ e.fs = IF d.fs = k THEN 0 ELSE d.fs
  BY <1>4, <1>6, <1>7, <1>11, <1>12, Zenon
<1>19. Released(e, d, k)
  BY <1>13, <1>14, <1>15, <1>16, <1>17, <1>18, Zenon DEF Released
<1> QED BY <1>1, <1>19, Zenon

LEMMA ReleaseGood ==
    ASSUME NEW d, Good(d, 0), d.err = "OK", NEW k \in Slots, d.s[k].id # 0, NEW e, Released(e, d, k)
    PROVE  Good(e, 0)
<1> DEFINE id == d.s[k].id
<1>1. /\ Typed(d) /\ Told(d) /\ d.s \in [Slots -> SlotType] /\ Simple(d)
      /\ Kept(d) /\ Conn(d) /\ TX \in Nat /\ InBlock(d) /\ SlotOK(d, k)
  BY Consts, Zenon DEF Good, Kept, Typed, Conn
<1>2. /\ Typed(e) /\ Same(e, d, {"g", "tx", "err", "fault", "cpend", "crwin", "fs", "s", "b"})
      /\ PastSame(e, d, {"st", "wire"}) /\ e.g.wire /\ ~e.fault /\ e.tx = 0
      /\ e.crwin + e.cpend = d.crwin + d.cpend + Left(d, k) /\ e.cpend < CREDIT
      /\ e.fs = IF d.fs = k THEN 0 ELSE d.fs
  BY Zenon DEF Released
<1>3. /\ Ended0(e.g.st[id], d.g.st[id])
      /\ \A i \in Ids : i # id => e.g.st[i] = d.g.st[i]
      /\ e.s[k] = Slot0 /\ \A j \in Slots : j # k => e.s[j] = d.s[j]
  BY Zenon DEF Released
<1>4. /\ (e.b.in <=> d.b.in) /\ (e.b.es <=> d.b.es) /\ (e.b.trailer <=> d.b.trailer)
      /\ e.b.sid = d.b.sid /\ e.b.pre = d.b.pre /\ e.b.s = IF d.b.s = k THEN 0 ELSE d.b.s
  BY Zenon DEF Released
<1>5. /\ e.f = d.f /\ e.p_win = d.p_win /\ e.eof = d.eof /\ e.rx = d.rx /\ e.pos = d.pos /\ e.dat = d.dat
      /\ e.next_id = d.next_id /\ e.enc = d.enc /\ e.goaway = d.goaway /\ e.last_id = d.last_id
  BY <1>2, Zenon DEF Same, Fields
<1>6. e.g.believed = d.g.believed /\ e.g.low = d.g.low /\ e.g.extra = d.g.extra
  BY <1>2, Zenon DEF PastSame, Past
<1>7. id \in Ids /\ id < d.next_id
  BY <1>1, Zenon DEF SlotOK
<1>8. \A i \in Ids : (e.g.st[i].unproc <=> d.g.st[i].unproc) /\ e.g.st[i].whole /\ e.g.st[i].retry
  <2> TAKE i \in Ids
  <2>1. d.g.st[i].whole /\ d.g.st[i].retry
    BY <1>1, Zenon DEF Kept
  <2>2. CASE i = id
    BY <1>3, <2>2, Zenon DEF Ended0
  <2>3. CASE i # id
    BY <1>3, <2>1, <2>3, Zenon
  <2> QED BY <2>2, <2>3, Zenon
<1>9. Slot0.id = 0 /\ Slot0.err = "OK" /\ Slot0.rlen = 0 /\ Slot0.hdr = 0 /\ Slot0.pend = 0
  BY Zenon DEF Slot0
<1>10. Kept(e)
  <2>1. ASSUME NEW j \in Slots, e.s[j].err = "RETRY"
        PROVE  e.s[j].id \in Ids /\ e.g.st[e.s[j].id].unproc
    <3>1. j # k
      BY <1>3, <1>9, <2>1, Zenon
    <3>2. d.s[j].id \in Ids /\ d.g.st[d.s[j].id].unproc
      BY <1>1, <1>3, <2>1, <3>1, Zenon DEF Kept
    <3> QED BY <1>3, <1>8, <3>1, <3>2, Zenon
  <2>2. e.tx <= TX
    BY <1>1, <1>2
  <2> QED BY <1>2, <1>8, <2>1, <2>2, Zenon DEF Kept
<1>11. ASSUME NEW j \in Slots, j # k, d.s[j].id # 0
       PROVE  d.s[j].id # id
  BY <1>1, <1>7, <1>11, Zenon DEF Conn, Distinct
<1>12. ASSUME NEW j \in Slots, j # k
       PROVE  Part(e, j) = Part(d, j) /\ Ending(e, j) = Ending(d, j)
  <2>1. (e.fs = j) <=> (d.fs = j)
    BY <1>2, <1>12, Consts, Zenon
  <2>2. Part(e, j) = Part(d, j)
    BY <1>5, <2>1, Zenon DEF Part
  <2>3. (e.b.s = j) <=> (d.b.s = j)
    BY <1>4, <1>12, Consts, Zenon
  <2>4. (e.b.s = j /\ e.b.es) <=> (d.b.s = j /\ d.b.es)
    BY <1>4, <2>3, Zenon
  <2> QED BY <2>2, <2>4, Zenon DEF Ending
<1>13. Distinct(e) /\ Fresh(e) /\ Concluded(e)
  <2>1. Distinct(e)
    <3>1. ASSUME NEW i \in Slots, NEW j \in Slots, e.s[i].id # 0, e.s[i].id = e.s[j].id
          PROVE  i = j
      <4>1. i # k /\ j # k
        BY <1>3, <1>9, <3>1, Zenon
      <4> QED BY <1>1, <1>3, <3>1, <4>1 DEF Conn, Distinct
    <3> QED BY <3>1, Zenon DEF Distinct
  <2>2. Fresh(e)
    <3>1. ASSUME NEW i \in Ids, i >= e.next_id PROVE e.g.st[i] = d.g.st[i]
      <4>1. i \in Nat /\ d.next_id \in Nat /\ id \in Nat
        BY <1>1, <1>7, Consts, Zenon DEF Simple
      <4>2. i # id
        BY <1>5, <1>7, <3>1, <4>1
      <4> QED BY <1>3, <4>2, Zenon
    <3> QED BY <1>1, <1>5, <3>1, Zenon DEF Conn, Fresh
  <2>3. Concluded(e)
    <3>1. ASSUME NEW i \in Ids
          PROVE  \/ e.g.st[i].ph \in {"idle", "reset"}
                 \/ e.g.st[i].ph = "ended" /\ e.g.st[i].es
                 \/ \E j \in Slots : e.s[j].id = i
      <4>1. CASE i = id
        BY <1>3, <4>1, Zenon DEF Ended0
      <4>2. CASE i # id
        <5>1. \/ d.g.st[i].ph \in {"idle", "reset"}
              \/ d.g.st[i].ph = "ended" /\ d.g.st[i].es
              \/ \E j \in Slots : d.s[j].id = i
          BY <1>1, Zenon DEF Conn, Concluded
        <5>2. (\E j \in Slots : d.s[j].id = i) => \E j \in Slots : e.s[j].id = i
          BY <1>3, <4>2, Zenon
        <5> QED BY <1>3, <4>2, <5>1, <5>2, Zenon
      <4> QED BY <4>1, <4>2, Zenon
    <3> QED BY <3>1, Zenon DEF Concluded
  <2> QED BY <2>1, <2>2, <2>3, Zenon
<1>14. Sum(e)
  <2>1. ASSUME NEW j \in Slots, j # k
        PROVE  Unread(e, j) + Coming(e, j) = Unread(d, j) + Coming(d, j)
    <3>1. (e.fs = j) <=> (d.fs = j)
      BY <1>2, <2>1, Consts, Zenon
    <3>2. Coming(e, j) = Coming(d, j)
      BY <1>5, <3>1, Zenon DEF Coming
    <3>3. Unread(e, j) = Unread(d, j)
      BY <1>3, <2>1, Zenon DEF Unread
    <3> QED BY <3>2, <3>3, Zenon
  <2>2. /\ Held(d) \in Int
        /\ Held(e) = Held(d) - (Unread(d, k) + Coming(d, k)) + (Unread(e, k) + Coming(e, k))
    BY <1>1, <1>2, <2>1, HeldChange, Zenon
  <2>3. Unread(e, k) = 0
    BY <1>3, <1>9 DEF Unread
  <2>4. Coming(e, k) = 0
    <3>1. e.fs # k
      BY <1>2, Consts, Zenon
    <3> QED BY <3>1, Zenon DEF Coming
  <2>5. Left(d, k) \in Nat /\ Left(d, k) = Unread(d, k) + Coming(d, k)
    BY LeftIs, Zenon
  <2>6. d.crwin + d.cpend + Held(d) = CONN_WIN + d.g.extra
    BY <1>1, Zenon DEF Conn, Sum
  <2>7. d.crwin \in Int /\ d.cpend \in Int /\ e.crwin \in Int /\ e.cpend \in Int
    BY <1>1, <1>2 DEF Typed, Simple
  <2> DEFINE a == Held(d)  z == Held(e)  l == Left(d, k)  y == Unread(d, k) + Coming(d, k)
             x == CONN_WIN + d.g.extra  p == e.crwin + e.cpend  t == d.crwin + d.cpend
  <2>8. z = a - l + (0 + 0) /\ a \in Int /\ l \in Nat /\ p = t + l /\ t + a = x /\ t \in Int
    BY <1>2, <2>2, <2>3, <2>4, <2>5, <2>6, <2>7
  <2>9. p + z = x
    <3> HIDE DEF a, z, l, y, x, p, t
    <3> QED BY <2>8
  <2> HIDE DEF Left, Held, CONN_WIN
  <2> QED BY <1>6, <2>9, Zenon DEF Sum
<1>15. Taking(e)
  <2> SUFFICES ASSUME e.fs # 0 PROVE Taking(e)
    BY Zenon DEF Taking
  <2>1. d.fs # k /\ e.fs = d.fs /\ d.fs \in Slots
    BY <1>1, <1>2, Consts DEF Simple
  <2>2. e.s[e.fs] = d.s[d.fs]
    BY <1>3, <2>1, Zenon
  <2>3. Taking(d) /\ d.fs # 0
    BY <1>1, <2>1, Consts, Zenon DEF Conn
  <2>4. d.s[d.fs].id = d.f.sid /\ d.f.sid # 0
    BY <2>3, Zenon DEF Taking
  <2>5. d.f.sid \in Ids /\ d.f.sid # id
    <3>1. SlotOK(d, d.fs)
      BY <2>1, Zenon DEF Good
    <3>2. d.f.sid \in Ids
      BY <2>4, <3>1, Zenon DEF SlotOK
    <3> QED BY <1>11, <2>1, <2>4, <3>2, Zenon
  <2>6. e.g.st[d.f.sid] = d.g.st[d.f.sid]
    BY <1>3, <2>5, Zenon
  <2> QED BY <1>5, <2>1, <2>2, <2>3, <2>6, Zenon DEF Taking
<1>16. InBlock(e)
  <2>1. e.b.in => e.f.t \in {"none", "HEADERS", "CONT"}
    BY <1>1, <1>4, <1>5, Zenon DEF InBlock
  <2>2. CASE e.b.s = 0
    BY <2>1, <2>2, Zenon DEF InBlock
  <2>3. CASE e.b.s # 0
    <3> DEFINE j == d.b.s  s == d.s[j]
    <3>1. j # k /\ e.b.s = j /\ j # 0
      BY <1>4, <2>3, Zenon
    <3>2. /\ d.b.in /\ s.id = d.b.sid /\ s.id # 0 /\ ~Has(s, "RST") /\ ~Has(s, "RECV_END")
          /\ (d.b.trailer <=> Has(s, "FINAL")) /\ s.hdr <= d.b.pre /\ (d.b.es <=> d.g.st[s.id].es)
      BY <1>1, <3>1, Zenon DEF InBlock
    <3>3. j \in Slots
      <4> DEFINE b == d.b
      <4>1. b \in BlockType
        BY <1>1, Zenon DEF Typed
      <4> HIDE DEF b, Representations
      <4>2. b.s \in 0..N
        BY <4>1, Zenon DEF BlockType
      <4> QED BY <3>1, <4>2, Consts DEF b
    <3>4. e.s[j] = s
      BY <1>3, <3>1, <3>3, Zenon
    <3>5. SlotOK(d, j)
      BY <3>3, Zenon DEF Good
    <3>6. s.id \in Ids /\ s.id # id
      BY <1>11, <3>1, <3>2, <3>3, <3>5, Zenon DEF SlotOK
    <3>7. e.g.st[s.id] = d.g.st[s.id]
      BY <1>3, <3>6, Zenon
    <3> HIDE DEF s, j
    <3> QED BY <1>4, <2>1, <3>1, <3>2, <3>4, <3>7, Zenon DEF InBlock
  <2> QED BY <2>2, <2>3, Zenon
<1>17. Told(e)
  BY <1>1, <1>5, <1>8, Zenon DEF Told
<1>18. Encoding(e) /\ (e.eof # "no" => ~e.rx)
  BY <1>1, <1>5, <1>6, Zenon DEF Conn, Encoding
<1>19. \A j \in Slots : e.s[j].id = 0 => e.s[j] = Slot0
  <2>1. ASSUME NEW j \in Slots, e.s[j].id = 0 PROVE e.s[j] = Slot0
    <3>1. CASE j = k
      BY <1>3, <3>1, Zenon
    <3>2. CASE j # k
      BY <1>1, <1>3, <2>1, <3>2, Zenon DEF Conn
    <3> QED BY <3>1, <3>2, Zenon
  <2> QED BY <2>1, Zenon
<1>20. Conn(e)
  BY <1>13, <1>14, <1>15, <1>16, <1>17, <1>18, <1>19, Zenon DEF Conn
<1>21. Owing(e, 0)
  <2>1. ASSUME NEW j \in Slots PROVE Paid(e.s[j])
    <3>1. CASE j = k
      BY <1>3, <1>9, <3>1, Consts DEF Paid
    <3>2. CASE j # k
      <4>1. Paid(d.s[j])
        BY Consts, Zenon DEF Good, Owing
      <4> QED BY <1>3, <3>2, <4>1, Zenon
    <3> QED BY <3>1, <3>2, Zenon
  <2> QED BY <1>2, <2>1, Zenon DEF Owing
<1>22. ASSUME NEW j \in Slots PROVE SlotOK(e, j)
  <2>1. CASE j = k
    BY <1>3, <1>9, <2>1, Zenon DEF SlotOK
  <2>2. CASE j # k /\ d.s[j].id = 0
    BY <1>3, <2>2, Zenon DEF SlotOK
  <2>3. CASE j # k /\ d.s[j].id # 0
    <3>1. SlotOK(d, j)
      BY Zenon DEF Good
    <3>2. d.s[j].id \in Ids /\ d.s[j].id # id
      BY <1>11, <2>3, <3>1, Zenon DEF SlotOK
    <3>3. e.g.st[d.s[j].id] = d.g.st[d.s[j].id] /\ e.s[j] = d.s[j]
      BY <1>3, <2>3, <3>2, Zenon
    <3>4. Part(e, j) = Part(d, j) /\ Ending(e, j) = Ending(d, j)
      BY <1>12, <2>3, Zenon
    <3> QED BY <1>5, <3>1, <3>3, <3>4, Zenon DEF SlotOK
  <2> QED BY <2>1, <2>2, <2>3, Zenon
<1> QED BY <1>10, <1>20, <1>21, <1>22, Zenon DEF Good

\* What h2_release leaves is good, flushed, and another stream's slot is untouched.
ReleaseDone(e, d, k) ==
    /\ Good(e, 0) /\ e.eof = d.eof /\ e.rx = d.rx /\ e.fh = d.fh
    /\ e.err = "OK" => d.err = "OK" /\ e.tx = 0 /\ (Framed(d) => Framed(e))
LEMMA ReleaseKeeps ==
    ASSUME NEW d, Good(d, 0), NEW k \in Slots, d.err = "OK" => d.s[k].id # 0, NEW w \in BOOLEAN,
           d.err = "OK" /\ (Has(d.s[k], "RST") \/ BothEnds(d.s[k])) => d.tx < TX
    PROVE  ReleaseDone(h2_release(d, k, w), d, k)
<1> DEFINE e == h2_release(d, k, w)
<1>1. CASE d.err # "OK"
  <2>1. Good(e, 0) /\ Same(e, d, {"s", "b"})
    BY <1>1, ReleaseFailed, Zenon DEF Good
  <2> HIDE DEF e
  <2>2. e.err = d.err /\ e.eof = d.eof /\ e.rx = d.rx /\ e.fh = d.fh
    BY <2>1, Zenon DEF Same, Fields
  <2>3. ReleaseDone(e, d, k)
    BY <1>1, <2>1, <2>2, Zenon DEF ReleaseDone
  <2> QED BY <2>3, Zenon DEF e
<1>2. CASE d.err = "OK"
  <2>1. Released(e, d, k)
    BY <1>2, ReleasedIs, Zenon
  <2> HIDE DEF e
  <2>2. Good(e, 0)
    BY <1>2, <2>1, ReleaseGood, Zenon
  <2>3. /\ e.eof = d.eof /\ e.rx = d.rx /\ e.fh = d.fh /\ e.f = d.f /\ e.pos = d.pos /\ e.dat = d.dat
        /\ e.tx = 0 /\ (d.fs = 0 => e.fs = 0)
    <3>1. /\ Same(e, d, {"g", "tx", "err", "fault", "cpend", "crwin", "fs", "s", "b"})
          /\ e.tx = 0 /\ e.fs = IF d.fs = k THEN 0 ELSE d.fs
      BY <2>1, Zenon DEF Released
    <3> QED BY <3>1, Zenon DEF Same, Fields
  <2>4. Framed(d) => Framed(e)
    BY <2>3, Zenon DEF Framed
  <2>5. ReleaseDone(e, d, k)
    BY <1>2, <2>2, <2>3, <2>4, Zenon DEF ReleaseDone
  <2> QED BY <2>5, Zenon DEF e
<1> QED BY <1>1, <1>2, Zenon

-----------------------------------------------------------------------------
(* The application reads a response and sends a body *)

\* A call of the application changes one slot, its stream, and counters of the connection.
OwnFields == {"s", "g", "cpend", "tx", "cwin", "idle"}
StreamStep(e, d, k, t, u) ==
    /\ Typed(e) /\ Same(e, d, OwnFields) /\ PastSame(e, d, {"st", "wire"}) /\ e.g.wire /\ e.tx <= TX
    /\ e.s[k] = t /\ \A j \in Slots : j # k => e.s[j] = d.s[j]
    /\ e.g.st[d.s[k].id] = u /\ \A i \in Ids : i # d.s[k].id => e.g.st[i] = d.g.st[i]
SlotStep(t, s, u, st) ==
    /\ t \in SlotType /\ s \in SlotType
    /\ t.id = s.id /\ t.err = s.err /\ t.hdr <= s.hdr
    /\ (Has(t, "RST") <=> Has(s, "RST")) /\ (Has(t, "RECV_END") <=> Has(s, "RECV_END"))
    /\ (Has(t, "FINAL") <=> Has(s, "FINAL"))
    /\ u.whole /\ u.retry /\ (u.unproc <=> st.unproc) /\ (u.es <=> st.es)
LEMMA StreamStepKeeps ==
    ASSUME NEW d, Good(d, 0), d.err = "OK", NEW k \in Slots, d.s[k].id # 0, NEW e, NEW t, NEW u,
           StreamStep(e, d, k, t, u), SlotStep(t, d.s[k], u, d.g.st[d.s[k].id]),
           Closing(t, u, Part(d, k).es \/ Ending(d, k)), Counting(t, u, Part(d, k)),
           Granted(t, u, d.p_win), e.cpend + Rest(t) = d.cpend + Rest(d.s[k]),
           NEW y \in {0, k}, y = 0 => Paid(t) /\ e.cpend = d.cpend
    PROVE  Good(e, y)
<1> DEFINE s == d.s[k]  id == s.id  st == d.g.st[id]
<1>1. /\ Kept(d) /\ Typed(d) /\ Conn(d) /\ Owing(d, 0) /\ SlotOK(d, k) /\ Simple(d) /\ ~d.fault
      /\ InBlock(d) /\ Taking(d) /\ Told(d)
  BY Zenon DEF Good, Kept, Typed, Conn
<1>2. id \in Ids /\ id < d.next_id
  BY <1>1, Zenon DEF SlotOK
<1>3. /\ Typed(e) /\ Same(e, d, OwnFields) /\ PastSame(e, d, {"st", "wire"}) /\ e.g.wire /\ e.tx <= TX
      /\ e.s[k] = t /\ \A j \in Slots : j # k => e.s[j] = d.s[j]
      /\ e.g.st[id] = u /\ \A i \in Ids : i # id => e.g.st[i] = d.g.st[i]
  BY Zenon DEF StreamStep
<1>4. /\ e.err = d.err /\ e.eof = d.eof /\ e.goaway = d.goaway /\ e.last_id = d.last_id
      /\ e.next_id = d.next_id /\ e.p_win = d.p_win /\ e.rx = d.rx /\ e.f = d.f /\ e.fs = d.fs
      /\ e.b = d.b /\ e.enc = d.enc /\ e.dat = d.dat /\ e.pos = d.pos /\ e.fault = d.fault
      /\ e.crwin = d.crwin
  BY <1>3, Zenon DEF Same, Fields, OwnFields
<1>5. e.g.believed = d.g.believed /\ e.g.low = d.g.low /\ e.g.extra = d.g.extra
  BY <1>3, Zenon DEF PastSame, Past
<1>6. /\ t \in SlotType /\ s \in SlotType
      /\ t.id = id /\ t.err = s.err /\ t.hdr <= s.hdr
      /\ (Has(t, "RST") <=> Has(s, "RST")) /\ (Has(t, "RECV_END") <=> Has(s, "RECV_END"))
      /\ (Has(t, "FINAL") <=> Has(s, "FINAL"))
      /\ u.whole /\ u.retry /\ (u.unproc <=> st.unproc) /\ (u.es <=> st.es)
  BY Zenon DEF SlotStep
<1>7. \A j \in Slots : Part(e, j) = Part(d, j) /\ Ending(e, j) = Ending(d, j)
  BY <1>4, Zenon DEF Part, Ending
<1>8. Aside(e, d, k)
  BY <1>3, <1>4, <1>5, <1>6, <1>7, Zenon DEF Aside
<1>9. SlotOK(e, k)
  <2>1. e.g.st[e.s[k].id] = u /\ e.s[k] = t
    BY <1>3, <1>6, Zenon
  <2>2. Part(e, k) = Part(d, k) /\ Ending(e, k) = Ending(d, k)
    BY <1>7, Zenon
  <2> QED BY <1>2, <1>4, <1>6, <2>1, <2>2, Zenon DEF SlotOK
<1>10. Books(e, k) = Books(d, k)
  <2>1. e.g.extra \in Int /\ d.crwin \in Int /\ d.cpend \in Int /\ e.cpend \in Int
    BY <1>1, <1>3, <1>5 DEF Typed, Simple, PastTyped
  <2>2. Rest(t) \in Int /\ Rest(s) \in Int
    BY <1>6 DEF Rest, SlotType
  <2>3. Part(d, k).len \in Int /\ Part(d, k).taken \in Int
    BY <1>1, PartTyped
  <2> DEFINE x == Part(d, k)  a == Rest(t)  b == Rest(s)  g == d.g.extra
  <2>4. /\ Books(e, k) = d.crwin + e.cpend + a + x.len - x.taken - g
        /\ Books(d, k) = d.crwin + d.cpend + b + x.len - x.taken - g
    BY <1>3, <1>4, <1>5, <1>7, Zenon DEF Books
  <2>5. e.cpend + a = d.cpend + b
    BY Zenon
  <2> DEFINE l == x.len  m == x.taken
  <2>6. /\ Books(e, k) = d.crwin + e.cpend + a + l - m - g
        /\ Books(d, k) = d.crwin + d.cpend + b + l - m - g
        /\ a \in Int /\ b \in Int /\ l \in Int /\ m \in Int /\ g \in Int
    BY <1>5, <2>1, <2>2, <2>3, <2>4, Zenon
  <2> HIDE DEF x, a, b, g, l, m
  <2> QED BY <2>1, <2>5, <2>6
<1>11. Taking(e)
  <2> SUFFICES ASSUME e.fs # 0 PROVE Taking(e)
    BY Zenon DEF Taking
  <2>1. d.fs \in Slots /\ d.fs # 0 /\ e.fs = d.fs
    BY <1>1, <1>4, Consts DEF Simple
  <2>2. /\ d.f.t = "DATA" /\ d.s[d.fs].id = d.f.sid /\ d.f.sid # 0
        /\ Has(d.s[d.fs], "FINAL") /\ ~Has(d.s[d.fs], "RST") /\ ~Has(d.s[d.fs], "RECV_END")
        /\ (d.f.es => d.g.st[d.f.sid].es)
        /\ d.dat = FrameData(d.f, d.pos) /\ d.pos <= d.f.len
    BY <1>1, <2>1, Zenon DEF Taking
  <2>3. CASE d.fs = k
    <3>1. /\ e.s[k].id = d.f.sid /\ Has(e.s[k], "FINAL") /\ ~Has(e.s[k], "RST") /\ ~Has(e.s[k], "RECV_END")
          /\ (d.f.es => e.g.st[d.f.sid].es)
      BY <1>3, <1>6, <2>2, <2>3, Zenon
    <3> QED BY <1>4, <2>1, <2>2, <2>3, <3>1, Zenon DEF Taking
  <2>4. CASE d.fs # k
    <3>1. SlotOK(d, d.fs)
      BY <2>1, Zenon DEF Good
    <3>2. d.f.sid \in Ids /\ d.f.sid # id
      <4>1. d.s[d.fs].id # id
        BY <1>1, <2>1, <2>2, <2>4, Zenon DEF Conn, Distinct
      <4>2. d.s[d.fs].id \in Ids
        BY <2>2, <3>1, Zenon DEF SlotOK
      <4> QED BY <2>2, <4>1, <4>2, Zenon
    <3>3. e.s[d.fs] = d.s[d.fs] /\ e.g.st[d.f.sid] = d.g.st[d.f.sid]
      BY <1>3, <2>1, <2>4, <3>2, Zenon
    <3> QED BY <1>4, <2>1, <2>2, <3>3, Zenon DEF Taking
  <2> QED BY <2>3, <2>4, Zenon
<1>12. InBlock(e)
  <2>1. e.b.in => e.f.t \in {"none", "HEADERS", "CONT"}
    BY <1>1, <1>4, Zenon DEF InBlock
  <2>2. CASE d.b.s = 0
    BY <1>4, <2>1, <2>2, Zenon DEF InBlock
  <2>3. CASE d.b.s # 0
    <3> DEFINE j == d.b.s  z == d.s[j]  v == e.s[j]
    <3>1. /\ d.b.in /\ z.id = d.b.sid /\ z.id # 0 /\ ~Has(z, "RST") /\ ~Has(z, "RECV_END")
          /\ (d.b.trailer <=> Has(z, "FINAL")) /\ z.hdr <= d.b.pre /\ (d.b.es <=> d.g.st[z.id].es)
      BY <1>1, <2>3, Zenon DEF InBlock
    <3>2. j \in Slots /\ d.b.pre \in Nat
      <4> DEFINE b == d.b
      <4>1. b \in BlockType
        BY <1>1, Zenon DEF Typed
      <4> HIDE DEF b, Representations
      <4>2. b.s \in 0..N /\ b.pre \in Nat
        BY <4>1, Zenon DEF BlockType
      <4>3. d.b.s \in 0..N /\ d.b.pre \in Nat
        BY <4>2, Zenon DEF b
      <4> QED BY <2>3, <4>3, Consts
    <3>3. /\ v.id = d.b.sid /\ v.id # 0 /\ ~Has(v, "RST") /\ ~Has(v, "RECV_END")
          /\ (d.b.trailer <=> Has(v, "FINAL")) /\ v.hdr <= d.b.pre /\ (d.b.es <=> e.g.st[v.id].es)
      <4>1. CASE j = k
        <5>1. s.hdr \in Nat /\ t.hdr \in Nat
          BY <1>6, Zenon DEF SlotType
        <5>2. v = t /\ z = s
          BY <1>3, <4>1, Zenon
        <5>3. t.hdr <= d.b.pre
          BY <1>6, <3>1, <3>2, <5>1, <5>2
        <5> QED BY <1>3, <1>6, <3>1, <5>2, <5>3, Zenon
      <4>2. CASE j # k
        <5>1. SlotOK(d, j)
          BY <3>2, Zenon DEF Good
        <5>2. z.id \in Ids /\ z.id # id
          <6>1. z.id # id
            BY <1>1, <3>1, <3>2, <4>2, Zenon DEF Conn, Distinct
          <6> QED BY <3>1, <5>1, <6>1, Zenon DEF SlotOK
        <5>3. v = z /\ e.g.st[z.id] = d.g.st[z.id]
          BY <1>3, <3>2, <4>2, <5>2, Zenon
        <5> QED BY <3>1, <5>3, Zenon
      <4> QED BY <4>1, <4>2, Zenon
    <3> HIDE DEF v, j
    <3> QED BY <1>4, <2>1, <3>1, <3>3, Zenon DEF InBlock, v, j
  <2> QED BY <2>2, <2>3, Zenon
<1>13. Told(e)
  <2>1. \A i \in Ids : d.g.st[i].unproc => e.g.st[i].unproc
    BY <1>3, <1>6, Zenon
  <2> QED BY <1>1, <1>4, <2>1, Zenon DEF Told
<1>14. k # y => Paid(e.s[k])
  BY <1>3, Consts, Zenon
<1>15. y = 0 /\ e.f.t # "DATA" => e.cpend < CREDIT
  BY <1>1, <1>4, Zenon DEF Owing
<1>16. e.s[k].err = "RETRY" => u.unproc
  BY <1>1, <1>3, <1>6, Zenon DEF Kept
<1>17. d.s[k].id # 0 /\ 0 \in {0, k, y}
  BY Zenon
<1>18. LET v == e.g.st[d.s[k].id]
       IN  /\ v.whole /\ v.retry /\ (d.g.st[d.s[k].id].unproc => v.unproc)
           /\ e.s[k].err = "RETRY" => v.unproc
  BY <1>3, <1>6, <1>16, Zenon
<1>19. e.err = "OK" =>
          /\ SlotOK(e, k) /\ (k # y => Paid(e.s[k])) /\ Books(e, k) = Books(d, k)
          /\ (y = 0 /\ e.f.t # "DATA" => e.cpend < CREDIT)
          /\ Taking(e) /\ InBlock(e) /\ Told(e)
  BY <1>9, <1>10, <1>11, <1>12, <1>13, <1>14, <1>15, Zenon
<1>20. e.g.wire /\ ~e.fault /\ e.tx <= TX
  BY <1>1, <1>3, <1>4, Zenon
<1>21. Typed(e) /\ Good(d, 0) /\ d.err = "OK"
  BY <1>3, Zenon
<1> HIDE DEF s, id, st
<1> QED BY <1>8, <1>17, <1>18, <1>19, <1>20, <1>21, OneSlot, Zenon

\* What the model writes in one step of a call: one slot, one stream, and counters.
OwnWrite(e, d, k, t, u) ==
    /\ Shape(e) /\ Same(e, d, OwnFields) /\ e.s = [d.s EXCEPT ![k] = t]
    /\ e.g = [x \in Past |-> e.g[x]] /\ PastSame(e, d, {"st", "wire"}) /\ e.g.wire = TRUE
    /\ e.g.st = [d.g.st EXCEPT ![d.s[k].id] = u]
    /\ e.tx \in Nat /\ e.tx <= TX /\ e.cpend \in Nat /\ e.cwin \in Int
LEMMA OwnWriteIs ==
    ASSUME NEW d, Typed(d), NEW k \in Slots, d.s[k].id \in Ids, NEW t \in SlotType, NEW u \in StreamType,
           NEW e, OwnWrite(e, d, k, t, u)
    PROVE  StreamStep(e, d, k, t, u)
<1> DEFINE id == d.s[k].id  g == d.g  h == e.g
<1>1. /\ Shape(e) /\ Same(e, d, OwnFields) /\ e.s = [d.s EXCEPT ![k] = t]
      /\ h = [x \in Past |-> h[x]] /\ PastSame(e, d, {"st", "wire"}) /\ h.wire = TRUE
      /\ h.st = [g.st EXCEPT ![id] = u]
      /\ e.tx \in Nat /\ e.tx <= TX /\ e.cpend \in Nat /\ e.cwin \in Int
  BY Zenon DEF OwnWrite
<1>2. e.s \in [Slots -> SlotType] /\ e.s[k] = t /\ \A j \in Slots : j # k => e.s[j] = d.s[j]
  <2> DEFINE a == d.s  b == e.s
  <2>1. a \in [Slots -> SlotType] /\ b = [a EXCEPT ![k] = t]
    BY <1>1, Zenon DEF Typed
  <2> HIDE DEF a, b, id
  <2>2. b \in [Slots -> SlotType] /\ b[k] = t /\ \A j \in Slots : j # k => b[j] = a[j]
    <3> HIDE DEF SlotType
    <3> QED BY <2>1, Zenon
  <2> QED BY <2>2, Zenon DEF a, b
<1>3. PastTyped(g)
  BY Zenon DEF Typed
<1>4. h.st \in [Ids -> StreamType] /\ h.st[id] = u /\ \A i \in Ids : i # id => h.st[i] = g.st[i]
  <2> DEFINE a == g.st  b == h.st
  <2>1. a \in [Ids -> StreamType] /\ b = [a EXCEPT ![id] = u]
    BY <1>1, <1>3, Zenon DEF PastTyped
  <2> HIDE DEF a, b, id
  <2>2. b \in [Ids -> StreamType] /\ b[id] = u /\ \A i \in Ids : i # id => b[i] = a[i]
    <3> HIDE DEF StreamType
    <3> QED BY <2>1, Zenon DEF id
  <2> QED BY <2>2, Zenon DEF a, b
<1>5. PastTyped(h)
  <2>1. h.believed = g.believed /\ h.low = g.low /\ h.extra = g.extra
    BY <1>1, Zenon DEF PastSame, Past
  <2> HIDE DEF g, h, id
  <2> QED BY <1>1, <1>3, <1>4, <2>1, Zenon DEF PastTyped
<1>6. Simple(e)
  <2>1. Simple(d)
    BY Zenon DEF Typed
  <2>2. /\ e.fault = d.fault /\ e.goaway = d.goaway /\ e.rx = d.rx /\ e.p_win = d.p_win
        /\ e.next_id = d.next_id /\ e.last_id = d.last_id /\ e.pos = d.pos /\ e.dat = d.dat
        /\ e.crwin = d.crwin /\ e.fs = d.fs
    BY <1>1, Zenon DEF Same, Fields, OwnFields
  <2> QED BY <1>1, <2>1, <2>2, Zenon DEF Simple
<1>7. Typed(e)
  <2>1. e.b = d.b /\ e.enc = d.enc /\ e.f = d.f
    BY <1>1, Zenon DEF Same, Fields, OwnFields
  <2>2. d.b \in BlockType /\ d.enc \in [cur : Nat, pending : BOOLEAN] /\ d.f \in Frames \cup {NoFrame}
    BY Zenon DEF Typed
  <2> HIDE DEF id, g
  <2> QED BY <1>1, <1>2, <1>5, <1>6, <2>1, <2>2, Zenon DEF Typed
<1> QED BY <1>1, <1>2, <1>4, <1>7, Zenon DEF StreamStep

LEMMA ReadSlotIs ==
    ASSUME NEW s \in SlotType, NEW n \in Nat, n <= s.ready, s.ready <= s.rlen
    PROVE  LET t == [s EXCEPT !.rlen = @ - n, !.ready = @ - n, !.pend = @ + n]
           IN  /\ t \in SlotType /\ t.rlen = s.rlen - n /\ t.ready = s.ready - n /\ t.pend = s.pend + n
               /\ t.id = s.id /\ t.err = s.err /\ t.hdr = s.hdr /\ t.fl = s.fl /\ t.got = s.got
               /\ t.cl = s.cl /\ t.swin = s.swin /\ t.rwin = s.rwin
<1> DEFINE a == s.rlen - n  b == s.ready - n  c0 == s.pend + n
           t == [s EXCEPT !.rlen = a, !.ready = b, !.pend = c0]
<1>1. a \in Nat /\ b \in Nat /\ c0 \in Nat
  BY DEF SlotType
<1>2. t = [s EXCEPT !.rlen = @ - n, !.ready = @ - n, !.pend = @ + n]
  BY Zenon
<1> HIDE DEF a, b, c0
<1>3. /\ t \in SlotType /\ t.rlen = a /\ t.ready = b /\ t.pend = c0
      /\ t.id = s.id /\ t.err = s.err /\ t.hdr = s.hdr /\ t.fl = s.fl /\ t.got = s.got
      /\ t.cl = s.cl /\ t.swin = s.swin /\ t.rwin = s.rwin
  BY <1>1, Zenon DEF SlotType
<1> HIDE DEF t
<1> QED BY <1>2, <1>3, Zenon DEF a, b, c0
LEMMA ReadStreamIs ==
    ASSUME NEW st \in StreamType, NEW n \in Nat
    PROVE  LET u == [st EXCEPT !.read = @ + n]
           IN  /\ u \in StreamType /\ u.read = st.read + n /\ u.ph = st.ph /\ u.sent = st.sent
               /\ u.wu = st.wu /\ u.dat = st.dat /\ u.whole = st.whole /\ u.retry = st.retry
               /\ (u.es <=> st.es) /\ (u.unproc <=> st.unproc)
BY DEF StreamType

ReadStep(d, k, n) ==
    [d EXCEPT !.s[k] = [d.s[k] EXCEPT !.rlen = @ - n, !.ready = @ - n, !.pend = @ + n],
              !.cpend = @ + n, !.g.st[d.s[k].id].read = @ + n]
LEMMA ReadStepWrites ==
    ASSUME NEW d, Good(d, 0), NEW k \in Slots, d.s[k].id \in Ids, NEW n \in Nat
    PROVE  LET s == d.s[k]  st == d.g.st[s.id]  e == ReadStep(d, k, n)
           IN  /\ OwnWrite(e, d, k, [s EXCEPT !.rlen = @ - n, !.ready = @ - n, !.pend = @ + n],
                           [st EXCEPT !.read = @ + n])
               /\ e.cpend = d.cpend + n /\ e.tx = d.tx
<1> DEFINE s == d.s[k]  id == s.id  st == d.g.st[id]  e == ReadStep(d, k, n)
           t == [s EXCEPT !.rlen = @ - n, !.ready = @ - n, !.pend = @ + n]
           u == [st EXCEPT !.read = @ + n]
           v == [d.s EXCEPT ![k] = t]
           h == [d.g EXCEPT !.st = [d.g.st EXCEPT ![id] = u]]
<1>1. /\ Kept(d) /\ Typed(d) /\ Shape(d) /\ Simple(d) /\ d.s \in [Slots -> SlotType] /\ PastTyped(d.g)
      /\ d.g.wire /\ d.tx <= TX
  BY Zenon DEF Good, Kept, Typed
<1>2. s \in SlotType /\ st \in StreamType
  BY <1>1, SlotTyped, StreamTyped, Zenon
<1>3. e = [d EXCEPT !.s = v, !.cpend = d.cpend + n, !.g = h]
  BY <1>1, Zenon DEF ReadStep, Shape, Fields, PastTyped, Past
<1> HIDE DEF v, h, e
<1>4. Shape(e) /\ Same(e, d, {"s", "cpend", "g"}) /\ e.s = v /\ e.cpend = d.cpend + n /\ e.g = h
  BY <1>1, <1>3, Zenon DEF Shape, Same, Fields
<1>5. Same(e, d, OwnFields) /\ e.tx = d.tx /\ e.cwin = d.cwin
  BY <1>4, Zenon DEF Same, Fields, OwnFields
<1>6. /\ h = [x \in Past |-> h[x]] /\ (\A x \in Past \ {"st", "wire"} : h[x] = d.g[x]) /\ h.wire = TRUE
      /\ h.st = [d.g.st EXCEPT ![id] = u]
  <2> DEFINE g == d.g  f == [d.g.st EXCEPT ![id] = u]
  <2>1. h = [g EXCEPT !.st = f] /\ PastTyped(g) /\ g.wire
    BY <1>1, Zenon DEF h
  <2> HIDE DEF g, f
  <2>2. h = [x \in Past |-> h[x]] /\ (\A x \in Past \ {"st", "wire"} : h[x] = g[x]) /\ h.wire = TRUE /\ h.st = f
    BY <2>1, Zenon DEF PastTyped, Past
  <2> QED BY <2>2, Zenon DEF g, f
<1>7. e.tx \in Nat /\ e.cpend \in Nat /\ e.cwin \in Int
  BY <1>1, <1>4, <1>5 DEF Simple
<1>8. OwnWrite(e, d, k, t, u)
  BY <1>1, <1>4, <1>5, <1>6, <1>7, Zenon DEF OwnWrite, PastSame, v
<1> HIDE DEF t, u
<1> QED BY <1>4, <1>5, <1>8, Zenon DEF e, t, u

\* What the queue may grow to, with one slot apart.
Share(d, k) == CREDIT * d.tx + Owed(d)[k] + Capped(d.cpend)
LEMMA ShareIs ==
    ASSUME NEW d, Typed(d), NEW k \in Slots
    PROVE  Share(d, k) \in Nat /\ Share(d, k) <= Potential(d) /\ Potential(d) \in Nat
<1> DEFINE F == Owed(d)  o == SumFunctionOnSet(F, Slots)  q == SumFunctionOnSet(F, Slots \ {k})
           z == CREDIT * d.tx  cc == Capped(d.cpend)  p == F[k]
<1>1. d.tx \in Nat /\ d.cpend \in Nat
  BY Zenon DEF Typed, Simple
<1>2. z \in Nat /\ cc \in Nat
  BY <1>1, Frames1, CappedIs, Zenon
<1>3. \A j \in Slots : F[j] \in Nat
  BY OwedTyped, Zenon
<1>4. IsFiniteSet(Slots) /\ IsFiniteSet(Slots \ {k})
  BY Consts, FS_Subset, Zenon
<1>5. Share(d, k) = z + p + cc /\ Potential(d) = z + o + cc
  BY Zenon DEF Share, Potential
<1> HIDE DEF F, Slots, z, cc
<1>6. o = p + q /\ p \in Nat
  BY <1>3, <1>4, SumSplit
<1>7. q \in Nat
  BY <1>3, <1>4, SumNat, Zenon
<1> HIDE DEF o, q, p
<1> QED BY <1>2, <1>5, <1>6, <1>7

LEMMA PotentialFalls ==
    ASSUME NEW d, Typed(d), NEW k \in Slots, NEW e, Typed(e), \A j \in Slots : j # k => e.s[j] = d.s[j],
           Share(e, k) <= Share(d, k)
    PROVE  Potential(e) <= Potential(d)
<1> DEFINE F == Owed(d)  G == Owed(e)  a == SumFunctionOnSet(F, Slots)  b == SumFunctionOnSet(G, Slots)
           z == CREDIT * d.tx  cc == Capped(d.cpend)  y == CREDIT * e.tx  ce == Capped(e.cpend)
           p == F[k]  q == G[k]
<1>1. d.tx \in Nat /\ d.cpend \in Nat /\ e.tx \in Nat /\ e.cpend \in Nat
  BY Zenon DEF Typed, Simple
<1>2. z \in Nat /\ cc \in Nat /\ y \in Nat /\ ce \in Nat
  BY <1>1, Frames1, CappedIs, Zenon
<1>3. \A j \in Slots : F[j] \in Int /\ G[j] \in Int
  <2>1. \A j \in Slots : F[j] \in Nat /\ G[j] \in Nat
    BY OwedTyped, Zenon
  <2> HIDE DEF F, G
  <2> QED BY <2>1
<1>4. \A j \in Slots \ {k} : G[j] = F[j]
  BY Zenon DEF Owed
<1>5. y + q + ce <= z + p + cc
  BY Zenon DEF Share
<1>6. Potential(d) = z + a + cc /\ Potential(e) = y + b + ce
  BY Zenon DEF Potential
<1> HIDE DEF F, G, z, cc, y, ce
<1>7. a \in Int /\ b = a - p + q /\ p \in Int /\ q \in Int
  BY <1>3, <1>4, OneTerm, Zenon
<1> HIDE DEF a, b, p, q
<1> QED BY <1>2, <1>5, <1>6, <1>7

\* Octets the application takes become credit: no more than they were worth before.
LEMMA ReadTakes ==
    ASSUME NEW d, Good(d, 0), d.err = "OK", NEW k \in Slots, d.s[k].id # 0, d.s[k].err = "OK",
           d.s[k].ready # 0, NEW n \in Nat, n <= d.s[k].ready
    PROVE  LET r == ReadStep(d, k, n)
           IN  /\ Good(r, k) /\ Same(r, d, OwnFields) /\ Named(r, d) /\ r.s[k].id # 0 /\ r.err = "OK"
               /\ r.s[k].err = "OK" /\ Potential(r) <= Potential(d)
<1> DEFINE s == d.s[k]  id == s.id  st == d.g.st[id]  r == ReadStep(d, k, n)  x == Part(d, k)
           t == [s EXCEPT !.rlen = @ - n, !.ready = @ - n, !.pend = @ + n]
           u == [st EXCEPT !.read = @ + n]
<1>1. Kept(d) /\ Typed(d) /\ SlotOK(d, k) /\ Simple(d)
  BY Zenon DEF Good, Kept, Typed
<1>2. /\ id \in Ids /\ Closing(s, st, x.es \/ Ending(d, k)) /\ Counting(s, st, x)
      /\ Granted(s, st, d.p_win)
  BY <1>1, Zenon DEF SlotOK
<1>3. s \in SlotType /\ st \in StreamType
  BY <1>1, <1>2, SlotTyped, StreamTyped, Zenon
<1>4. /\ s.rlen \in Nat /\ s.hdr \in Nat /\ s.ready \in Nat /\ s.pend \in Nat /\ s.rwin \in Int
      /\ s.got \in Nat /\ st.dat \in Nat /\ st.read \in Nat /\ s.ready <= s.rlen
  <2> HIDE DEF s, st, x
  <2>1. s.rlen \in Nat /\ s.hdr \in Nat /\ s.ready \in Nat /\ s.pend \in Nat /\ s.rwin \in Int /\ s.got \in Nat
    BY <1>3, Zenon DEF SlotType
  <2>2. st.dat \in Nat /\ st.read \in Nat
    BY <1>3, Zenon DEF StreamType
  <2>3. s.ready <= Rest(s) /\ s.hdr <= s.rlen
    BY <1>2, Zenon DEF Counting, s
  <2> QED BY <2>1, <2>2, <2>3 DEF Rest
<1>5. /\ t \in SlotType /\ t.rlen = s.rlen - n /\ t.ready = s.ready - n /\ t.pend = s.pend + n
      /\ t.id = s.id /\ t.err = s.err /\ t.hdr = s.hdr /\ t.fl = s.fl /\ t.got = s.got
      /\ t.cl = s.cl /\ t.swin = s.swin /\ t.rwin = s.rwin
  <2> HIDE DEF s
  <2> QED BY <1>3, <1>4, ReadSlotIs, Zenon DEF s
<1>6. /\ u \in StreamType /\ u.read = st.read + n /\ u.ph = st.ph /\ u.sent = st.sent
      /\ u.wu = st.wu /\ u.dat = st.dat /\ u.whole = st.whole /\ u.retry = st.retry
      /\ (u.es <=> st.es) /\ (u.unproc <=> st.unproc)
  <2> HIDE DEF st
  <2> QED BY <1>3, ReadStreamIs, Zenon
<1>7. OwnWrite(r, d, k, t, u) /\ r.cpend = d.cpend + n /\ r.tx = d.tx
  BY <1>2, ReadStepWrites, Zenon
<1>8. x.len \in Int /\ x.taken \in Int /\ x.whole \in Int
  BY <1>1, PartTyped
<1>9. st.whole /\ st.retry
  BY <1>1, <1>2, Zenon DEF Kept
<1>10. s.err = "OK" /\ s.ready # 0
  BY Zenon
<1> HIDE DEF s, st, x, t, u, r, id
<1>11. StreamStep(r, d, k, t, u)
  <2>1. d.s[k].id \in Ids
    BY <1>2, Zenon DEF id, s
  <2> QED BY <1>1, <1>5, <1>6, <1>7, <2>1, OwnWriteIs, Zenon
<1>12. \A flag : Has(t, flag) <=> Has(s, flag)
  BY <1>5, Zenon DEF Has
<1>13. Has(s, "FINAL")
  <2>1. ~Has(s, "FINAL") => s.rlen = 0
    BY <1>2, <1>10, Zenon DEF Counting
  <2> QED BY <1>4, <1>10, <2>1
<1>14. Closing(t, u, x.es \/ Ending(d, k))
  <2>1. BothEnds(t) <=> BothEnds(s)
    BY <1>5, Zenon DEF BothEnds
  <2> QED BY <1>2, <1>5, <1>6, <1>12, <2>1, Zenon DEF Closing
<1>15. Rest(t) = Rest(s) - n /\ Rest(s) \in Int
  BY <1>4, <1>5 DEF Rest
<1>16. Counting(t, u, x)
  <2> DEFINE p == s.pend  R == Rest(s)  a == x.len  b == x.taken  w == s.rwin  y == s.ready  q == st.read
             v == x.whole  h == s.hdr  l == s.rlen
  <2>1. /\ ~Has(s, "RST") /\ ~Has(s, "RECV_END") => w + p + R + a - b = W
        /\ p + R + a - b <= W /\ h <= MAX_LIST /\ y <= R /\ (~x.on => y = R)
        /\ st.dat = q + R + v - b /\ s.got = st.dat - v
        /\ (Has(s, "RECV_END") /\ ClChecked(s) => s.got = s.cl)
    BY <1>2, <1>10, Zenon DEF Counting
  <2>2. ClChecked(t) <=> ClChecked(s)
    BY <1>12, Zenon DEF ClChecked
  <2>3. /\ t.pend = p + n /\ Rest(t) = R - n /\ t.ready = y - n /\ u.read = q + n /\ t.rwin = w
        /\ t.hdr = h /\ t.rlen = l - n
    BY <1>5, <1>6, <1>15, Zenon
  <2>4. /\ p \in Nat /\ R \in Int /\ a \in Int /\ b \in Int /\ w \in Int /\ y \in Nat /\ q \in Nat
        /\ v \in Int /\ h \in Nat /\ l \in Nat /\ W \in Nat /\ R = l - h
    BY <1>4, <1>8, <1>15, Consts, Zenon DEF Rest
  <2> HIDE DEF p, R, a, b, w, y, q, v, h, l
  <2>5. /\ h <= l - n /\ w + (p + n) + (R - n) + a - b = w + p + R + a - b
        /\ (p + n) + (R - n) + a - b = p + R + a - b
        /\ y - n <= R - n /\ (y = R => y - n = R - n) /\ (q + n) + (R - n) + v - b = q + R + v - b
    <3>1. n <= y
      BY Zenon DEF y, s
    <3> QED BY <2>1, <2>4, <3>1
  <2>6. /\ t.hdr <= t.rlen
        /\ ~Has(t, "RST") /\ ~Has(t, "RECV_END") => t.rwin + t.pend + Rest(t) + a - b = W
        /\ t.pend + Rest(t) + a - b <= W /\ t.hdr <= MAX_LIST
        /\ t.ready <= Rest(t) /\ (~x.on => t.ready = Rest(t))
    BY <1>12, <2>1, <2>3, <2>5, Zenon
  <2>7. /\ u.dat = u.read + Rest(t) + v - b /\ t.got = u.dat - v
        /\ (Has(t, "RECV_END") /\ ClChecked(t) => t.got = t.cl)
    BY <1>5, <1>6, <1>12, <2>1, <2>2, <2>3, <2>5, Zenon
  <2>8. Has(t, "FINAL")
    BY <1>12, <1>13, Zenon
  <2> HIDE DEF Rest, ClChecked, Has
  <2> QED BY <2>6, <2>7, <2>8, Zenon DEF Counting, a, b, v
<1>17. Granted(t, u, d.p_win)
  BY <1>2, <1>5, <1>6, Zenon DEF Granted
<1>18. SlotStep(t, s, u, st)
  <2>1. t.hdr <= s.hdr
    BY <1>4, <1>5
  <2> QED BY <1>3, <1>5, <1>6, <1>9, <1>12, <2>1, Zenon DEF SlotStep
<1>19. r.cpend + Rest(t) = d.cpend + Rest(s)
  <2>1. d.cpend \in Nat
    BY <1>1, Zenon DEF Simple
  <2> QED BY <1>7, <1>15, <2>1
<1>20. Good(r, k)
  <2>1. /\ SlotStep(t, d.s[k], u, d.g.st[d.s[k].id])
        /\ Closing(t, u, Part(d, k).es \/ Ending(d, k)) /\ Counting(t, u, Part(d, k))
        /\ r.cpend + Rest(t) = d.cpend + Rest(d.s[k])
    BY <1>14, <1>16, <1>18, <1>19, Zenon DEF s, st, x, id
  <2>2. k \in {0, k} /\ k # 0
    BY Consts, Zenon
  <2> QED BY <1>11, <1>17, <2>1, <2>2, StreamStepKeeps, Zenon
<1>21. /\ Typed(r) /\ Same(r, d, OwnFields) /\ r.s[k] = t /\ \A j \in Slots : j # k => r.s[j] = d.s[j]
  BY <1>11, Zenon DEF StreamStep
<1>22. r.err = "OK" /\ Named(r, d) /\ r.s[k].id # 0 /\ r.s[k].err = "OK"
  <2>1. t.id = d.s[k].id /\ t.err = "OK"
    BY <1>5, <1>10, Zenon DEF s
  <2> QED BY <1>21, <2>1, Zenon DEF Same, Fields, OwnFields, Named
<1>23. Potential(r) <= Potential(d)
  <2>1. /\ Owed(r)[k] = t.pend + 2 * t.ready
        /\ Owed(d)[k] = s.pend + 2 * s.ready
    BY <1>5, <1>10, <1>21, <1>22, Zenon DEF Owed, s
  <2>2. Capped(d.cpend + n) <= Capped(d.cpend) + n /\ Capped(d.cpend) \in Nat /\ Capped(r.cpend) \in Nat
    <3>1. d.cpend \in Nat /\ r.cpend \in Nat
      BY <1>1, <1>7 DEF Simple
    <3> QED BY <3>1, CappedGrows, CappedIs, Zenon
  <2>3. CREDIT * d.tx \in Nat
    BY <1>1, Frames1, Zenon DEF Simple
  <2> DEFINE z == CREDIT * d.tx  a == Capped(d.cpend)  b == Capped(r.cpend)  p == s.pend  y == s.ready
  <2>4. Share(r, k) = z + ((p + n) + 2 * (y - n)) + b /\ Share(d, k) = z + (p + 2 * y) + a
    BY <1>5, <1>7, <2>1, Zenon DEF Share
  <2>5. b <= a + n /\ z \in Nat /\ a \in Nat /\ b \in Nat /\ p \in Nat /\ y \in Nat
    BY <1>4, <1>7, <2>2, <2>3, Zenon
  <2> HIDE DEF z, a, b, p, y
  <2>6. Share(r, k) <= Share(d, k)
    BY <2>4, <2>5
  <2> QED BY <1>1, <1>21, <2>6, PotentialFalls, Zenon
<1> HIDE DEF OwnFields
<1> QED BY <1>20, <1>21, <1>22, <1>23, Zenon DEF r

\* brisk_h2_read: the queue keeps its room whatever the reads return.
ReadDone(e, d) ==
    /\ Good(e, 0) /\ Named(e, d) /\ e.err = "OK" /\ e.eof = d.eof /\ e.rx = d.rx /\ e.fh = d.fh
    /\ Framed(d) => Framed(e)
    /\ Potential(e) <= Room
LEMMA ReadCredits ==
    ASSUME NEW d, Good(d, 0), d.err = "OK", NEW k \in Slots, d.s[k].id # 0, d.s[k].err = "OK",
           d.s[k].ready # 0, NEW n \in Nat, n <= d.s[k].ready, Potential(d) <= Room
    PROVE  ReadDone(h2_credit(ReadStep(d, k, n), k), d)
<1> DEFINE r == ReadStep(d, k, n)  e == h2_credit(r, k)
<1>1. /\ Good(r, k) /\ Same(r, d, OwnFields) /\ Named(r, d) /\ r.s[k].id # 0 /\ r.err = "OK"
      /\ r.s[k].err = "OK" /\ Potential(r) <= Potential(d)
  BY ReadTakes, Zenon
<1> HIDE DEF r
<1>2. Typed(r) /\ Typed(d) /\ Simple(r) /\ r.s[k] \in SlotType
  BY <1>1, SlotTyped, Zenon DEF Good, Kept, Typed
<1>3. Share(r, k) \in Nat /\ Share(r, k) <= Potential(r) /\ Potential(r) \in Nat /\ Potential(d) \in Nat
  BY <1>2, ShareIs, Zenon
<1>4. Room \in Nat
  BY RoomIs, Zenon
<1>5. Share(r, k) <= Room /\ Potential(r) <= Room
  BY <1>1, <1>3, <1>4
<1> DEFINE z == CREDIT * r.tx  cc == Capped(r.cpend)  p == r.s[k].pend  y == r.s[k].ready
<1>6. z \in Nat /\ cc \in Nat /\ p \in Nat /\ y \in Nat
  <2>1. z \in Nat /\ cc \in Nat
    BY <1>2, Frames1, CappedIs, Zenon DEF Simple
  <2> QED BY <1>2, <2>1, Zenon DEF SlotType
<1>7. Share(r, k) = z + (p + 2 * y) + cc
  BY <1>1, Zenon DEF Share, Owed
<1>8. Ample(r.tx, r.s[k].pend + Capped(r.cpend))
  <2>1. z + (p + cc) <= Room
    <3> HIDE DEF z, cc, p, y
    <3> QED BY <1>4, <1>5, <1>6, <1>7
  <2> QED BY <2>1, Zenon DEF Ample
<1>9. Credited(e, r, k)
  BY <1>1, <1>8, CreditKeeps, Zenon
<1> HIDE DEF e
<1>10. /\ Good(e, 0) /\ Same(e, r, {"s", "fault", "tx", "crwin", "cpend"}) /\ Named(e, r)
       /\ SlotBecomes(e, r, k, CreditedSlot(r.s[k]))
       /\ CREDIT * e.tx + e.s[k].pend + Capped(e.cpend) <= z + p + cc
  BY <1>9, Zenon DEF Credited
<1>11. LET t == CreditedSlot(r.s[k])
       IN  t \in SlotType /\ t.id = r.s[k].id /\ t.ready = r.s[k].ready /\ t.err = r.s[k].err
  <2> DEFINE s == r.s[k]
  <2>1. s \in SlotType
    BY <1>2, Zenon
  <2> HIDE DEF s
  <2> QED BY <2>1, CreditedSlotIs, Zenon DEF s
<1> DEFINE t == CreditedSlot(r.s[k])
<1>12. e.s[k] = t /\ \A j \in Slots : j # k => e.s[j] = r.s[j]
  <2> HIDE DEF t
  <2>1. t \in SlotType /\ SlotBecomes(e, r, k, t)
    BY <1>10, <1>11, Zenon DEF t
  <2> QED BY <1>2, <2>1, SlotChanged
<1>13. Share(e, k) = CREDIT * e.tx + (e.s[k].pend + 2 * y) + Capped(e.cpend)
  BY <1>1, <1>11, <1>12, Zenon DEF Share, Owed
<1>14. Typed(e) /\ Simple(e) /\ e.s[k] \in SlotType
  BY <1>10, SlotTyped, Zenon DEF Good, Kept, Typed
<1>15. Share(e, k) <= Share(r, k)
  <2> DEFINE a == CREDIT * e.tx  b == Capped(e.cpend)  q == e.s[k].pend
  <2>1. a \in Nat /\ b \in Nat /\ q \in Nat
    <3>1. a \in Nat /\ b \in Nat
      BY <1>14, Frames1, CappedIs, Zenon DEF Simple
    <3> QED BY <1>14, <3>1, Zenon DEF SlotType
  <2>2. a + q + b <= z + p + cc /\ Share(e, k) = a + (q + 2 * y) + b
    BY <1>10, <1>13, Zenon
  <2> HIDE DEF a, b, q, z, p, cc, y
  <2> QED BY <1>6, <1>7, <2>1, <2>2
<1>16. Potential(e) <= Potential(r)
  BY <1>2, <1>12, <1>14, <1>15, PotentialFalls, Zenon
<1>17. Potential(e) <= Room
  <2>1. Potential(e) \in Nat
    BY <1>14, ShareIs, Zenon
  <2> QED BY <1>3, <1>4, <1>5, <1>16, <2>1
<1>18. /\ r.eof = d.eof /\ r.rx = d.rx /\ r.fh = d.fh /\ r.f = d.f /\ r.pos = d.pos /\ r.dat = d.dat
       /\ r.fs = d.fs
  BY <1>1, Zenon DEF Same, Fields, OwnFields
<1>19. /\ e.eof = r.eof /\ e.rx = r.rx /\ e.fh = r.fh /\ e.f = r.f /\ e.pos = r.pos /\ e.dat = r.dat
       /\ e.fs = r.fs /\ e.err = r.err
  BY <1>10, Zenon DEF Same, Fields
<1>20. Named(e, d)
  BY <1>1, <1>10, Zenon DEF Named
<1>21. Framed(d) => Framed(e)
  BY <1>18, <1>19, Zenon DEF Framed
<1>22. ReadDone(e, d)
  BY <1>1, <1>10, <1>17, <1>18, <1>19, <1>20, <1>21, Zenon DEF ReadDone
<1> QED BY <1>22, Zenon DEF e, r

\* The end of a body is told only when everything was read.
WholeTold(d, k) ==
    LET s == d.s[k]  st == d.g.st[s.id]
    IN  st.whole /\ st.es /\ st.read = st.dat /\ (ClChecked(s) => st.read = s.cl)
LEMMA ReadWhole ==
    ASSUME NEW d, Good(d, 0), d.err = "OK", NEW k \in Slots, d.s[k].id # 0, d.s[k].err = "OK",
           d.s[k].ready = 0, Has(d.s[k], "RECV_END")
    PROVE  WholeTold(d, k)
<1> DEFINE s == d.s[k]  id == s.id  st == d.g.st[id]  x == Part(d, k)
<1>1. Kept(d) /\ Typed(d) /\ SlotOK(d, k) /\ Taking(d)
  BY Zenon DEF Good, Kept, Conn
<1>2. id \in Ids /\ Closing(s, st, x.es \/ Ending(d, k)) /\ Counting(s, st, x)
  BY <1>1, Zenon DEF SlotOK
<1>3. x = Idle0
  <2>1. d.fs # k
    BY <1>1, Consts, Zenon DEF Taking
  <2> QED BY <2>1, Zenon DEF Part
<1>4. st.whole
  BY <1>1, <1>2, Zenon DEF Kept
<1>5. s \in SlotType /\ st \in StreamType
  BY <1>1, <1>2, SlotTyped, StreamTyped, Zenon
<1>6. s.err = "OK" /\ s.ready = 0 /\ Has(s, "RECV_END")
  BY Zenon
<1> HIDE DEF s, st, x, id
<1>7. /\ st.es /\ Rest(s) = 0 /\ st.dat = st.read + Rest(s) + 0 - 0 /\ s.got = st.dat - 0
      /\ (ClChecked(s) => s.got = s.cl)
  <2>1. st.es
    BY <1>2, <1>6, Zenon DEF Closing
  <2>2. x.whole = 0 /\ x.taken = 0 /\ ~x.on
    BY <1>3, Zenon DEF Idle0
  <2> QED BY <1>2, <1>6, <2>1, <2>2, Zenon DEF Counting
<1>8. st.read \in Nat /\ st.dat \in Nat
  BY <1>5, Zenon DEF StreamType
<1>9. st.read = st.dat /\ s.got = st.dat
  BY <1>7, <1>8
<1>10. ClChecked(s) => st.read = s.cl
  BY <1>7, <1>9, Zenon
<1> QED BY <1>4, <1>7, <1>9, <1>10, Zenon DEF WholeTold, s, st, id

LEMMA ReadEndIs ==
    ASSUME NEW d, Typed(d), NEW k \in Slots, d.s[k].id \in Ids, WholeTold(d, k)
    PROVE  LET s == d.s[k]
           IN  [d EXCEPT !.g.st[s.id].whole = @ /\ d.g.st[s.id].es /\ d.g.st[s.id].read = d.g.st[s.id].dat
                                            /\ (ClChecked(s) => d.g.st[s.id].read = s.cl)] = d
<1> DEFINE s == d.s[k]  id == s.id  st == d.g.st[id]
           told == st.whole /\ st.es /\ st.read = st.dat /\ (ClChecked(s) => st.read = s.cl)
           e == [d EXCEPT !.g.st[id].whole = @ /\ d.g.st[id].es /\ d.g.st[id].read = d.g.st[id].dat
                                            /\ (ClChecked(s) => d.g.st[id].read = s.cl)]
           u == [st EXCEPT !.whole = told]
           h == [d.g.st EXCEPT ![id] = u]
           z == [d.g EXCEPT !.st = h]
<1>1. st \in StreamType /\ Shape(d) /\ PastTyped(d.g)
  BY StreamTyped, Zenon DEF Typed
<1>2. told = TRUE /\ st.whole
  BY Zenon DEF WholeTold
<1>3. e = [d EXCEPT !.g = z]
  <2> HIDE DEF ClChecked
  <2> QED BY <1>1, Zenon DEF Shape, Fields, PastTyped, Past
<1> HIDE DEF told, e
<1>4. u = st
  <2> HIDE DEF st, s, id
  <2> QED BY <1>1, <1>2, Zenon DEF StreamType
<1>5. h = d.g.st
  <2> HIDE DEF u, st
  <2>1. d.g.st \in [Ids -> StreamType]
    BY <1>1, Zenon DEF PastTyped
  <2> QED BY <1>4, <2>1, Zenon DEF st
<1>6. z = d.g
  <2> HIDE DEF h
  <2> QED BY <1>1, <1>5, Zenon DEF PastTyped, Past
<1> HIDE DEF z
<1>7. e = d
  BY <1>1, <1>3, <1>6, Zenon DEF Shape, Fields
<1> QED BY <1>7, Zenon DEF e

LEMMA ReadOutKeeps ==
    ASSUME NEW d, Good(d, 0), d.err = "OK", NEW k \in Slots, d.s[k].id # 0, NEW cap \in Nat,
           Potential(d) <= Room, d.s[k].ready # 0 \/ Has(d.s[k], "RECV_END") \/ d.s[k].err # "OK"
    PROVE  ReadDone(read_out(d, k, cap), d)
<1>1. ReadDone(d, d)
  BY Zenon DEF ReadDone, Named
<1>2. Kept(d) /\ Typed(d) /\ d.s[k] \in SlotType
  BY SlotTyped, Zenon DEF Good, Kept
<1>3. CASE d.s[k].err # "OK"
  <2>1. read_out(d, k, cap) = Refused(d, k)
    BY <1>3, Zenon DEF read_out
  <2>2. Refused(d, k) = d
    BY <1>2, RefusedIs, Zenon
  <2> QED BY <1>1, <2>1, <2>2, Zenon
<1>4. CASE d.s[k].err = "OK" /\ d.s[k].ready = 0
  <2>1. WholeTold(d, k)
    BY <1>4, ReadWhole, Zenon
  <2>2. d.s[k].id \in Ids
    BY Zenon DEF Good, SlotOK
  <2>3. read_out(d, k, cap) = d
    BY <1>2, <1>4, <2>1, <2>2, ReadEndIs, Zenon DEF read_out
  <2> QED BY <1>1, <2>3, Zenon
<1>5. CASE d.s[k].err = "OK" /\ d.s[k].ready # 0
  <2> DEFINE n == IF cap < d.s[k].ready THEN cap ELSE d.s[k].ready
  <2>1. n \in Nat /\ n <= d.s[k].ready
    <3>1. d.s[k].ready \in Nat
      BY <1>2, Zenon DEF SlotType
    <3> QED BY <3>1
  <2>2. read_out(d, k, cap) = h2_credit(ReadStep(d, k, n), k)
    BY <1>5, Zenon DEF read_out, ReadStep
  <2> HIDE DEF n
  <2>3. ReadDone(h2_credit(ReadStep(d, k, n), k), d)
    BY <1>5, <2>1, ReadCredits, Zenon
  <2> QED BY <2>2, <2>3, Zenon
<1> QED BY <1>3, <1>4, <1>5, Zenon

\* A slot whose counters of received octets did not move.
LEMMA CountingSame ==
    ASSUME NEW s, NEW st, NEW x, Counting(s, st, x), NEW t, NEW u,
           Rest(t) = Rest(s), t.hdr <= t.rlen, t.hdr <= MAX_LIST,
           t.rwin = s.rwin, t.pend = s.pend, t.err = s.err, t.ready = s.ready, t.got = s.got, t.cl = s.cl,
           Has(t, "RST") <=> Has(s, "RST"), Has(t, "RECV_END") <=> Has(s, "RECV_END"),
           Has(t, "FINAL") <=> Has(s, "FINAL"), ClChecked(t) <=> ClChecked(s),
           Has(s, "FINAL") \/ t.rlen = s.rlen, u.dat = st.dat, u.read = st.read
    PROVE  Counting(t, u, x)
<1> HIDE DEF Rest, Has, ClChecked
<1> QED BY Zenon DEF Counting

\* A call that leaves the credit alone.
OwnDone(e, d) ==
    /\ Good(e, 0) /\ Named(e, d) /\ e.err = "OK" /\ e.eof = d.eof /\ e.rx = d.rx /\ e.fh = d.fh
    /\ Framed(d) => Framed(e)
LEMMA OwnStepKeeps ==
    ASSUME NEW d, Good(d, 0), d.err = "OK", NEW k \in Slots, d.s[k].id # 0,
           NEW t \in SlotType, NEW u \in StreamType, NEW e, OwnWrite(e, d, k, t, u),
           SlotStep(t, d.s[k], u, d.g.st[d.s[k].id]),
           Closing(t, u, Part(d, k).es \/ Ending(d, k)), Counting(t, u, Part(d, k)),
           Granted(t, u, d.p_win), Rest(t) = Rest(d.s[k]), t.pend = d.s[k].pend, e.cpend = d.cpend
    PROVE  OwnDone(e, d) /\ e.tx <= TX
<1>1. Typed(d) /\ SlotOK(d, k) /\ Owing(d, 0)
  BY Zenon DEF Good, Kept
<1>2. d.s[k].id \in Ids
  BY <1>1, Zenon DEF SlotOK
<1>3. StreamStep(e, d, k, t, u)
  BY <1>1, <1>2, OwnWriteIs, Zenon
<1>4. Paid(t)
  <2>1. Paid(d.s[k])
    BY <1>1, Consts, Zenon DEF Owing
  <2>2. (Has(t, "RST") <=> Has(d.s[k], "RST")) /\ (Has(t, "RECV_END") <=> Has(d.s[k], "RECV_END"))
    BY Zenon DEF SlotStep
  <2> QED BY <2>1, <2>2, Zenon DEF Paid
<1>5. Good(e, 0)
  <2>1. e.cpend + Rest(t) = d.cpend + Rest(d.s[k]) /\ 0 \in {0, k}
    BY Zenon
  <2> QED BY <1>3, <1>4, <2>1, StreamStepKeeps, Zenon
<1>6. Same(e, d, OwnFields) /\ e.s[k] = t /\ (\A j \in Slots : j # k => e.s[j] = d.s[j]) /\ e.tx <= TX
  BY <1>3, Zenon DEF StreamStep
<1>7. Named(e, d)
  <2>1. t.id = d.s[k].id
    BY Zenon DEF SlotStep
  <2> QED BY <1>6, <2>1, Zenon DEF Named
<1>8. /\ e.eof = d.eof /\ e.rx = d.rx /\ e.fh = d.fh /\ e.f = d.f /\ e.pos = d.pos /\ e.dat = d.dat
      /\ e.fs = d.fs /\ e.err = d.err
  BY <1>6, Zenon DEF Same, Fields, OwnFields
<1>9. Framed(d) => Framed(e)
  BY <1>8, Zenon DEF Framed
<1> QED BY <1>5, <1>6, <1>7, <1>8, <1>9, Zenon DEF OwnDone

\* brisk_h2_response: the parked header fields leave the ring.
RespSlot(s) == [s EXCEPT !.rlen = @ - s.hdr, !.hdr = 0, !.fl = @ \cup {"RESP"}]
LEMMA RespSlotIs ==
    ASSUME NEW s \in SlotType, s.hdr <= s.rlen
    PROVE  LET t == RespSlot(s)
           IN  /\ t \in SlotType /\ Rest(t) = Rest(s) /\ t.hdr = 0 /\ 0 <= t.rlen
               /\ t.id = s.id /\ t.err = s.err /\ t.got = s.got /\ t.pend = s.pend /\ t.ready = s.ready
               /\ t.cl = s.cl /\ t.swin = s.swin /\ t.rwin = s.rwin /\ t.fl = s.fl \cup {"RESP"}
<1> DEFINE a == s.rlen - s.hdr  f == s.fl \cup {"RESP"}  t == [s EXCEPT !.rlen = a, !.hdr = 0, !.fl = f]
<1>1. a \in Nat /\ f \in SUBSET Flags /\ Rest(s) = a
  BY DEF SlotType, Flags, Rest
<1>2. t = RespSlot(s)
  BY Zenon DEF RespSlot
<1> HIDE DEF a, f
<1>3. /\ t \in SlotType /\ t.rlen = a /\ t.hdr = 0 /\ t.fl = f
      /\ t.id = s.id /\ t.err = s.err /\ t.got = s.got /\ t.pend = s.pend /\ t.ready = s.ready
      /\ t.cl = s.cl /\ t.swin = s.swin /\ t.rwin = s.rwin
  BY <1>1, Zenon DEF SlotType
<1> HIDE DEF t
<1>4. Rest(t) = a
  BY <1>1, <1>3 DEF Rest
<1> QED BY <1>1, <1>2, <1>3, <1>4 DEF f

LEMMA ResponseKeeps ==
    ASSUME NEW d, Good(d, 0), d.err = "OK", NEW k \in Slots, d.s[k].id # 0, d.s[k].err = "OK",
           Has(d.s[k], "FINAL")
    PROVE  OwnDone(response_fields(d, k), d) /\ response_fields(d, k).tx = d.tx
<1> DEFINE s == d.s[k]  id == s.id  st == d.g.st[id]  x == Part(d, k)  t == RespSlot(s)
           e == response_fields(d, k)
<1>1. /\ Kept(d) /\ Typed(d) /\ SlotOK(d, k) /\ Simple(d) /\ Shape(d) /\ PastTyped(d.g)
      /\ d.s \in [Slots -> SlotType] /\ d.g.wire
  BY Zenon DEF Good, Kept, Typed
<1>2. /\ id \in Ids /\ Closing(s, st, x.es \/ Ending(d, k)) /\ Counting(s, st, x)
      /\ Granted(s, st, d.p_win)
  BY <1>1, Zenon DEF SlotOK
<1>3. s \in SlotType /\ st \in StreamType
  BY <1>1, <1>2, SlotTyped, StreamTyped, Zenon
<1>4. st.whole /\ st.retry
  BY <1>1, <1>2, Zenon DEF Kept
<1>5. /\ Shape(e) /\ Same(e, d, {"s"}) /\ e.s = [d.s EXCEPT ![k] = t]
  <2> DEFINE v == [d.s EXCEPT ![k] = t]
  <2>1. e = [d EXCEPT !.s = v]
    <3>1. e = [d EXCEPT !.s[k] = t]
      BY Zenon DEF response_fields, RespSlot
    <3> HIDE DEF t, e
    <3> QED BY <1>1, <3>1, Zenon DEF Shape, Fields
  <2> HIDE DEF v, e
  <2>2. Shape(e) /\ Same(e, d, {"s"}) /\ e.s = v
    BY <1>1, <2>1, Zenon DEF Shape, Same, Fields
  <2> QED BY <2>2, Zenon DEF v
<1> HIDE DEF e
<1>6. Same(e, d, OwnFields) /\ e.tx = d.tx /\ e.cpend = d.cpend /\ e.cwin = d.cwin /\ e.g = d.g
  BY <1>5, Zenon DEF Same, Fields, OwnFields
<1>7. OwnWrite(e, d, k, t, st)
  <2>1. e.g.st = [d.g.st EXCEPT ![id] = st]
    <3>1. d.g.st \in [Ids -> StreamType]
      BY <1>1, Zenon DEF PastTyped
    <3> QED BY <1>2, <1>6, <3>1, Zenon
  <2>2. PastSame(e, d, {"st", "wire"}) /\ e.g = [z \in Past |-> e.g[z]]
    BY <1>1, <1>6, Zenon DEF PastSame, PastTyped
  <2>3. e.g.wire = TRUE
    BY <1>1, <1>6, Zenon DEF PastTyped
  <2>4. e.tx \in Nat /\ e.tx <= TX /\ e.cpend \in Nat /\ e.cwin \in Int
    BY <1>1, <1>6, Zenon DEF Simple, Kept
  <2> HIDE DEF t, Past
  <2> QED BY <1>5, <1>6, <2>1, <2>2, <2>3, <2>4, Zenon DEF OwnWrite
<1>8. s.err = "OK" /\ Has(s, "FINAL")
  BY Zenon
<1> HIDE DEF s, st, x, id, t
<1>9. /\ t \in SlotType /\ Rest(t) = Rest(s) /\ t.hdr = 0 /\ 0 <= t.rlen
      /\ t.id = s.id /\ t.err = s.err /\ t.got = s.got /\ t.pend = s.pend /\ t.ready = s.ready
      /\ t.cl = s.cl /\ t.swin = s.swin /\ t.rwin = s.rwin /\ t.fl = s.fl \cup {"RESP"}
  <2>1. s.hdr <= s.rlen
    BY <1>2, Zenon DEF Counting
  <2> QED BY <1>3, <2>1, RespSlotIs, Zenon DEF t
<1>10. \A flag : flag # "RESP" => (Has(t, flag) <=> Has(s, flag))
  BY <1>9, Zenon DEF Has
<1>11. (BothEnds(t) <=> BothEnds(s)) /\ (ClChecked(t) <=> ClChecked(s))
  BY <1>9, <1>10, Zenon DEF BothEnds, ClChecked
<1>12. Closing(t, st, x.es \/ Ending(d, k))
  BY <1>2, <1>9, <1>10, <1>11, Zenon DEF Closing
<1>13. Counting(t, st, x)
  <2>1. t.hdr <= t.rlen /\ t.hdr <= MAX_LIST
    BY <1>9, Consts
  <2> HIDE DEF Rest, ClChecked, Has
  <2> QED BY <1>2, <1>8, <1>9, <1>10, <1>11, <2>1, CountingSame, Zenon
<1>14. Granted(t, st, d.p_win)
  BY <1>2, <1>9, Zenon DEF Granted
<1>15. SlotStep(t, s, st, st)
  <2>1. t.hdr <= s.hdr
    BY <1>3, <1>9 DEF SlotType
  <2> QED BY <1>3, <1>4, <1>9, <1>10, <2>1, Zenon DEF SlotStep
<1>16. OwnDone(e, d)
  <2>1. /\ SlotStep(t, d.s[k], st, d.g.st[d.s[k].id])
        /\ Closing(t, st, Part(d, k).es \/ Ending(d, k)) /\ Counting(t, st, Part(d, k))
        /\ Rest(t) = Rest(d.s[k]) /\ t.pend = d.s[k].pend
    BY <1>9, <1>12, <1>13, <1>15, Zenon DEF s, st, x, id
  <2> QED BY <1>3, <1>6, <1>7, <1>9, <1>14, <2>1, OwnStepKeeps, Zenon
<1> QED BY <1>6, <1>16, Zenon DEF e

\* brisk_h2_request: a DATA frame within what the server granted.
SentSlot(s, n, last) == [s EXCEPT !.swin = @ - n, !.fl = IF last THEN @ \cup {"SENT_END"} ELSE @]
SentStream(st, n, last) == [st EXCEPT !.sent = @ + n, !.ph = IF last THEN "ended" ELSE @]
LEMMA SentSlotIs ==
    ASSUME NEW s \in SlotType, NEW n \in Nat, NEW last \in BOOLEAN
    PROVE  LET t == SentSlot(s, n, last)
           IN  /\ t \in SlotType /\ t.swin = s.swin - n
               /\ t.rlen = s.rlen /\ t.hdr = s.hdr
               /\ t.id = s.id /\ t.err = s.err /\ t.got = s.got /\ t.pend = s.pend /\ t.ready = s.ready
               /\ t.cl = s.cl /\ t.rwin = s.rwin
               /\ t.fl = IF last THEN s.fl \cup {"SENT_END"} ELSE s.fl
<1> DEFINE a == s.swin - n  f == IF last THEN s.fl \cup {"SENT_END"} ELSE s.fl
           t == [s EXCEPT !.swin = a, !.fl = f]
<1>1. a \in Int /\ f \in SUBSET Flags
  BY DEF SlotType, Flags
<1>2. t = SentSlot(s, n, last)
  BY Zenon DEF SentSlot
<1> HIDE DEF a, f
<1>3. /\ t \in SlotType /\ t.swin = a /\ t.fl = f /\ t.rlen = s.rlen /\ t.hdr = s.hdr
      /\ t.id = s.id /\ t.err = s.err /\ t.got = s.got /\ t.pend = s.pend /\ t.ready = s.ready
      /\ t.cl = s.cl /\ t.rwin = s.rwin
  BY <1>1, Zenon DEF SlotType
<1> HIDE DEF t
<1> QED BY <1>2, <1>3, Zenon DEF f, a
LEMMA SentStreamIs ==
    ASSUME NEW st \in StreamType, NEW n \in Nat, NEW last \in BOOLEAN
    PROVE  LET u == SentStream(st, n, last)
           IN  /\ u \in StreamType /\ u.sent = st.sent + n /\ u.read = st.read
               /\ u.ph = (IF last THEN "ended" ELSE st.ph)
               /\ u.wu = st.wu /\ u.dat = st.dat /\ u.whole = st.whole /\ u.retry = st.retry
               /\ (u.es <=> st.es) /\ (u.unproc <=> st.unproc)
<1> DEFINE a == st.sent + n  p == IF last THEN "ended" ELSE st.ph
           u == [st EXCEPT !.sent = a, !.ph = p]
<1>1. a \in Nat /\ p \in {"idle", "open", "ended", "reset"}
  BY DEF StreamType
<1>2. u = SentStream(st, n, last)
  BY Zenon DEF SentStream
<1> HIDE DEF a, p
<1>3. /\ u \in StreamType /\ u.sent = a /\ u.read = st.read /\ u.ph = p
      /\ u.wu = st.wu /\ u.dat = st.dat /\ u.whole = st.whole /\ u.retry = st.retry
      /\ (u.es <=> st.es) /\ (u.unproc <=> st.unproc)
  BY <1>1, Zenon DEF StreamType
<1> HIDE DEF u
<1> QED BY <1>2, <1>3, Zenon DEF a, p

LEMMA DataSentWrites ==
    ASSUME NEW d, Good(d, 0), NEW k \in Slots, d.s[k].id \in Ids, NEW n \in Nat, NEW last \in BOOLEAN,
           d.tx + 1 + n <= TX, d.g.st[d.s[k].id].ph = "open",
           d.g.st[d.s[k].id].sent + n <= d.p_win + d.g.st[d.s[k].id].wu
    PROVE  LET s == d.s[k]  st == d.g.st[s.id]  e == DataSent(d, k, n, last)
           IN  OwnWrite(e, d, k, SentSlot(s, n, last), SentStream(st, n, last)) /\ e.cpend = d.cpend
<1> DEFINE s == d.s[k]  id == s.id  st == d.g.st[id]  e == DataSent(d, k, n, last)
           t == SentSlot(s, n, last)
           u == SentStream(st, n, last)
           v == [d.s EXCEPT ![k] = t]
           w == st.ph = "open" /\ st.sent + n <= d.p_win + st.wu
           h == [d.g EXCEPT !.st = [d.g.st EXCEPT ![id] = u], !.wire = d.g.wire /\ w]
           a == d.tx + 1 + n
           b == d.cwin - n
<1>1. /\ Kept(d) /\ Typed(d) /\ Shape(d) /\ Simple(d) /\ d.s \in [Slots -> SlotType] /\ PastTyped(d.g)
      /\ d.g.wire /\ d.tx <= TX
  BY Zenon DEF Good, Kept, Typed
<1>2. w
  BY Zenon
<1>3. e = [d EXCEPT !.tx = a, !.cwin = b, !.idle = 0, !.s = v, !.g = h]
  <2>1. e = [d EXCEPT !.tx = a, !.cwin = b, !.idle = 0, !.s[k] = t, !.g.st[id] = u, !.g.wire = @ /\ w]
    BY Zenon DEF DataSent, SentSlot, SentStream
  <2> HIDE DEF t, u, w, a, b, e, id
  <2> QED BY <1>1, <2>1, ZenonT(60) DEF Shape, Fields, PastTyped, Past
<1> HIDE DEF v, h, e
<1>4. /\ Shape(e) /\ Same(e, d, {"s", "tx", "cwin", "idle", "g"}) /\ e.s = v /\ e.g = h /\ e.tx = a /\ e.cwin = b
  <2> HIDE DEF a, b
  <2> QED BY <1>1, <1>3 DEF Shape, Same, Fields
<1>5. Same(e, d, OwnFields) /\ e.cpend = d.cpend
  BY <1>4, Zenon DEF Same, Fields, OwnFields
<1>6. /\ h = [x \in Past |-> h[x]] /\ (\A x \in Past \ {"st", "wire"} : h[x] = d.g[x]) /\ h.wire = TRUE
      /\ h.st = [d.g.st EXCEPT ![id] = u]
  <2> DEFINE g == d.g  f == [d.g.st EXCEPT ![id] = u]
  <2>1. h = [g EXCEPT !.st = f, !.wire = g.wire /\ w] /\ PastTyped(g) /\ g.wire
    BY <1>1, Zenon DEF h
  <2> HIDE DEF g, f, w
  <2>2. h = [x \in Past |-> h[x]] /\ (\A x \in Past \ {"st", "wire"} : h[x] = g[x]) /\ h.wire = TRUE /\ h.st = f
    BY <1>2, <2>1, Zenon DEF PastTyped, Past
  <2> QED BY <2>2, Zenon DEF g, f
<1>7. e.tx \in Nat /\ e.tx <= TX /\ e.cpend \in Nat /\ e.cwin \in Int
  BY <1>1, <1>4, <1>5 DEF Simple
<1>8. OwnWrite(e, d, k, t, u)
  <2> HIDE DEF t, u
  <2> QED BY <1>1, <1>4, <1>5, <1>6, <1>7, Zenon DEF OwnWrite, PastSame, v
<1> HIDE DEF t, u
<1> QED BY <1>5, <1>8, Zenon DEF e, t, u

LEMMA DataKeeps ==
    ASSUME NEW d, Good(d, 0), d.err = "OK", NEW k \in Slots, d.s[k].id # 0, d.s[k].err = "OK",
           ~Has(d.s[k], "SENT_END"), ~Has(d.s[k], "RST"),
           NEW n \in Nat, NEW last \in BOOLEAN, n <= d.s[k].swin, d.tx + 1 + n <= TX
    PROVE  OwnDone(DataSent(d, k, n, last), d)
<1> DEFINE s == d.s[k]  id == s.id  st == d.g.st[id]  x == Part(d, k)  t == SentSlot(s, n, last)
           u == SentStream(st, n, last)  e == DataSent(d, k, n, last)
<1>1. Kept(d) /\ Typed(d) /\ SlotOK(d, k) /\ Simple(d)
  BY Zenon DEF Good, Kept, Typed
<1>2. /\ id \in Ids /\ Closing(s, st, x.es \/ Ending(d, k)) /\ Counting(s, st, x)
      /\ Granted(s, st, d.p_win)
  BY <1>1, Zenon DEF SlotOK
<1>3. s \in SlotType /\ st \in StreamType
  BY <1>1, <1>2, SlotTyped, StreamTyped, Zenon
<1>4. st.whole /\ st.retry
  BY <1>1, <1>2, Zenon DEF Kept
<1>5. ~Has(s, "SENT_END") /\ ~Has(s, "RST") /\ n <= s.swin
  BY Zenon
<1>6. st.ph = "open"
  <2> HIDE DEF s, st, x
  <2> QED BY <1>2, <1>5, Zenon DEF Closing
<1>7. st.sent + n <= d.p_win + st.wu
  <2>1. d.p_win \in Nat
    BY <1>1, Zenon DEF Simple
  <2> HIDE DEF s, st, x
  <2>2. st.sent \in Nat /\ st.wu \in Nat
    BY <1>3, Zenon DEF StreamType
  <2>3. s.swin = d.p_win + st.wu - st.sent
    BY <1>2, Zenon DEF Granted
  <2> QED BY <1>5, <2>1, <2>2, <2>3
<1>8. OwnWrite(e, d, k, t, u) /\ e.cpend = d.cpend
  BY <1>2, <1>6, <1>7, DataSentWrites, Zenon
<1> HIDE DEF e, s, st, x, id, t, u
<1>9. /\ t \in SlotType /\ t.swin = s.swin - n
      /\ t.rlen = s.rlen /\ t.hdr = s.hdr
      /\ t.id = s.id /\ t.err = s.err /\ t.got = s.got /\ t.pend = s.pend /\ t.ready = s.ready
      /\ t.cl = s.cl /\ t.rwin = s.rwin
      /\ t.fl = IF last THEN s.fl \cup {"SENT_END"} ELSE s.fl
  BY <1>3, SentSlotIs, Zenon DEF t
<1>10. /\ u \in StreamType /\ u.sent = st.sent + n /\ u.read = st.read
       /\ u.ph = (IF last THEN "ended" ELSE st.ph)
       /\ u.wu = st.wu /\ u.dat = st.dat /\ u.whole = st.whole /\ u.retry = st.retry
       /\ (u.es <=> st.es) /\ (u.unproc <=> st.unproc)
  BY <1>3, SentStreamIs, Zenon DEF u
<1>11. \A flag : flag # "SENT_END" => (Has(t, flag) <=> Has(s, flag))
  BY <1>9 DEF Has
<1>12. Has(t, "SENT_END") <=> last
  BY <1>5, <1>9, Zenon DEF Has
<1>13. ClChecked(t) <=> ClChecked(s)
  BY <1>11, Zenon DEF ClChecked
<1>14. Closing(t, u, x.es \/ Ending(d, k))
  <2>1. /\ ~Has(t, "RST") /\ t.err = "OK"
        /\ (Has(t, "RECV_END") => u.es)
        /\ (~Has(t, "RECV_END") /\ u.es => x.es \/ Ending(d, k))
    <3>1. /\ s.err # "OK" => Has(s, "RST")
          /\ (Has(s, "RECV_END") => st.es)
          /\ (~Has(s, "RECV_END") /\ st.es => x.es \/ Ending(d, k))
      <4> HIDE DEF Ending
      <4> QED BY <1>2, <1>5, Zenon DEF Closing
    <3>2. s.err \in {"OK", "PROTO", "RETRY", "PEER_ALERT"}
      BY <1>3, Zenon DEF SlotType
    <3> HIDE DEF Ending, Has
    <3> QED BY <1>5, <1>9, <1>10, <1>11, <3>1, <3>2, Zenon
  <2>2. u.ph = IF Has(t, "SENT_END") THEN "ended" ELSE "open"
    BY <1>6, <1>10, <1>12, Zenon
  <2> HIDE DEF Ending, Has
  <2> QED BY <2>1, <2>2, Zenon DEF Closing
<1>15. Rest(t) = Rest(s)
  BY <1>9, Zenon DEF Rest
<1>16. Counting(t, u, x)
  <2>1. t.hdr <= t.rlen /\ (s.err = "OK" => t.hdr <= MAX_LIST)
    BY <1>2, <1>9, Zenon DEF Counting
  <2>2. s.err = "OK"
    BY Zenon DEF s
  <2> HIDE DEF Rest, ClChecked, Has
  <2> QED BY <1>2, <1>9, <1>10, <1>11, <1>13, <1>15, <2>1, <2>2, CountingSame, Zenon
<1>17. Granted(t, u, d.p_win)
  <2>1. s.swin = d.p_win + st.wu - st.sent
    BY <1>2, Zenon DEF Granted
  <2>2. d.p_win \in Nat /\ st.wu \in Nat /\ st.sent \in Nat
    BY <1>1, <1>3, Zenon DEF Simple, StreamType
  <2>3. t.swin = s.swin - n /\ u.sent = st.sent + n /\ u.wu = st.wu
    BY <1>9, <1>10, Zenon
  <2> DEFINE a == st.sent  b == st.wu  c0 == d.p_win
  <2>4. s.swin = c0 + b - a /\ c0 \in Nat /\ b \in Nat /\ a \in Nat /\ t.swin = s.swin - n /\ u.sent = a + n /\ u.wu = b
    BY <2>1, <2>2, <2>3, Zenon
  <2> HIDE DEF a, b, c0
  <2>5. t.swin = c0 + u.wu - u.sent
    BY <2>4
  <2> QED BY <2>5, Zenon DEF Granted, c0
<1>18. SlotStep(t, s, u, st)
  <2>1. t.hdr <= s.hdr
    BY <1>3, <1>9 DEF SlotType
  <2> QED BY <1>3, <1>4, <1>9, <1>10, <1>11, <2>1, Zenon DEF SlotStep
<1>19. OwnDone(e, d)
  <2>1. /\ OwnWrite(e, d, k, t, u) /\ SlotStep(t, d.s[k], u, d.g.st[d.s[k].id])
        /\ Closing(t, u, Part(d, k).es \/ Ending(d, k)) /\ Counting(t, u, Part(d, k))
        /\ Rest(t) = Rest(d.s[k]) /\ t.pend = d.s[k].pend
    BY <1>8, <1>9, <1>14, <1>15, <1>16, <1>18, Zenon DEF s, st, x, id
  <2> QED BY <1>8, <1>9, <1>10, <1>17, <2>1, OwnStepKeeps, Zenon
<1> QED BY <1>19, Zenon DEF e

-----------------------------------------------------------------------------
(* A request *)

LEMMA FreeSlotIs ==
    ASSUME Cardinality(Open) < N
    PROVE  FreeSlot \in Slots /\ c.s[FreeSlot].id = 0
<1> DEFINE T == Slots \ Open
<1>1. IsFiniteSet(Slots) /\ Cardinality(Slots) = N /\ N \in Nat /\ Slots \subseteq Nat
  <2>1. N \in Nat /\ Slots = 1..N
    BY Consts, Zenon
  <2>2. IsFiniteSet(1..N) /\ Cardinality(1..N) = N
    BY <2>1, FS_Interval
  <2> QED BY <2>1, <2>2
<1>2. Open \subseteq Slots
  BY Zenon DEF Open
<1>3. T # {}
  <2>1. Slots = Open => Cardinality(Open) = N
    BY <1>1, Zenon
  <2>2. Cardinality(Open) # N
    BY <1>1
  <2> QED BY <1>2, <2>1, <2>2, Zenon
<1>4. T \in SUBSET Nat
  BY <1>1, Zenon
<1>5. \E k \in T : \A j \in T : k <= j
  <2> HIDE DEF T
  <2> QED BY <1>3, <1>4, LeastNatural, Zenon
<1>6. FreeSlot \in T
  BY <1>5, Zenon DEF FreeSlot
<1> QED BY <1>6, Zenon DEF Open

\* The header block leaves the queue within its capacity.
LEMMA SpillFits ==
    ASSUME NEW tx \in Nat, tx <= TX, NEW n \in Nat
    PROVE  block_spill(tx, n) \in Nat /\ block_spill(tx, n) <= TX
<1>1. TX \in Nat /\ TX > 1
  BY Consts
<1>2. CASE tx + 1 + n <= TX
  BY <1>1, <1>2 DEF block_spill
<1>3. CASE ~(tx + 1 + n <= TX)
  <2> DEFINE a == n - (TX - tx - 1) - 1  m == TX - 1  q == a % m
  <2>1. a \in Nat /\ m \in Nat /\ m > 0
    BY <1>1, <1>3
  <2>2. block_spill(tx, n) = 2 + q
    BY <1>3, Zenon DEF block_spill
  <2> HIDE DEF a
  <2>3. q \in 0..(m - 1)
    <3> HIDE DEF m
    <3> QED BY <2>1
  <2> HIDE DEF q
  <2> QED BY <1>1, <2>2, <2>3
<1> QED BY <1>2, <1>3, Zenon

OpenSlot(d, head) ==
    [Slot0 EXCEPT !.id = d.next_id, !.swin = d.p_win, !.rwin = W, !.fl = IF head THEN {"HEAD"} ELSE {}]
Opened(d, k, head) == [d EXCEPT !.s[k] = OpenSlot(d, head), !.next_id = @ + 2, !.idle = 0]
OpenedFrom(e, d, k, t) ==
    /\ Kept(e) /\ Same(e, d, {"s", "next_id", "idle"}) /\ e.next_id = d.next_id + 2
    /\ e.s[k] = t /\ \A j \in Slots : j # k => e.s[j] = d.s[j]
LEMMA OpenSlotIs ==
    ASSUME NEW d, Typed(d), NEW head \in BOOLEAN
    PROVE  LET t == OpenSlot(d, head)
           IN  /\ t \in SlotType /\ t.id = d.next_id /\ t.swin = d.p_win /\ t.rwin = W /\ t.pend = 0
               /\ t.rlen = 0 /\ t.hdr = 0 /\ t.ready = 0 /\ t.got = 0 /\ t.err = "OK"
               /\ t.fl \subseteq {"HEAD"}
<1> DEFINE a == d.next_id  b == d.p_win  f == IF head THEN {"HEAD"} ELSE {}  t == OpenSlot(d, head)
<1>1. a \in Nat /\ b \in Nat /\ W \in Nat /\ f \in SUBSET Flags /\ f \subseteq {"HEAD"}
  BY Consts, Zenon DEF Typed, Simple, Flags
<1>2. t = [Slot0 EXCEPT !.id = a, !.swin = b, !.rwin = W, !.fl = f]
  BY Zenon DEF OpenSlot
<1> HIDE DEF a, b, f, t
<1>3. /\ t \in SlotType /\ t.id = a /\ t.swin = b /\ t.rwin = W /\ t.pend = 0
      /\ t.rlen = 0 /\ t.hdr = 0 /\ t.ready = 0 /\ t.got = 0 /\ t.err = "OK" /\ t.fl = f
  <2> DEFINE z == Slot0
  <2>1. z \in SlotType
    BY Slot0Typed, Zenon
  <2>2. z.pend = 0 /\ z.rlen = 0 /\ z.hdr = 0 /\ z.ready = 0 /\ z.got = 0 /\ z.err = "OK"
    BY Zenon DEF Slot0
  <2>3. t = [z EXCEPT !.id = a, !.swin = b, !.rwin = W, !.fl = f]
    BY <1>2, Zenon
  <2>4. a \in Nat /\ b \in Int /\ W \in Int /\ f \in SUBSET Flags
    BY <1>1
  <2> HIDE DEF z, Flags
  <2>5. t \in SlotType
    BY <2>1, <2>3, <2>4, Zenon DEF SlotType
  <2>6. /\ t.id = a /\ t.swin = b /\ t.rwin = W /\ t.fl = f
        /\ t.pend = z.pend /\ t.rlen = z.rlen /\ t.hdr = z.hdr /\ t.ready = z.ready /\ t.got = z.got
        /\ t.err = z.err
    BY <2>1, <2>3, Zenon DEF SlotType
  <2> QED BY <2>2, <2>5, <2>6, Zenon
<1> QED BY <1>1, <1>3, Zenon DEF a, b, t

LEMMA OpenedIs ==
    ASSUME NEW d, Kept(d), NEW k \in Slots, NEW head \in BOOLEAN
    PROVE  OpenedFrom(Opened(d, k, head), d, k, OpenSlot(d, head))
<1> DEFINE t == OpenSlot(d, head)  e == Opened(d, k, head)  v == [d.s EXCEPT ![k] = t]  n == d.next_id + 2
<1>1. Typed(d) /\ Shape(d) /\ d.s \in [Slots -> SlotType] /\ Simple(d)
  BY Zenon DEF Kept, Typed
<1>2. t \in SlotType /\ t.err = "OK"
  BY <1>1, OpenSlotIs, Zenon
<1> HIDE DEF t
<1>3. e = [d EXCEPT !.s = v, !.next_id = n, !.idle = 0]
  BY <1>1, Zenon DEF Opened, Shape, Fields, t
<1>4. v \in [Slots -> SlotType] /\ v[k] = t /\ \A j \in Slots : j # k => v[j] = d.s[j]
  <2> HIDE DEF SlotType
  <2> QED BY <1>1, <1>2, Zenon
<1>5. n \in Nat
  BY <1>1 DEF Simple
<1> HIDE DEF v, n, e
<1>6. Shape(e) /\ Same(e, d, {"s", "next_id", "idle"}) /\ e.s = v /\ e.next_id = n
  BY <1>1, <1>3, Zenon DEF Shape, Same, Fields
<1>7. /\ e.g = d.g /\ e.fault = d.fault /\ e.tx = d.tx /\ e.goaway = d.goaway /\ e.rx = d.rx
      /\ e.p_win = d.p_win /\ e.cpend = d.cpend /\ e.last_id = d.last_id /\ e.pos = d.pos
      /\ e.dat = d.dat /\ e.cwin = d.cwin /\ e.crwin = d.crwin /\ e.fs = d.fs
  BY <1>6, Zenon DEF Same, Fields
<1>8. Simple(e)
  BY <1>1, <1>5, <1>6, <1>7, Zenon DEF Simple
<1>9. Typed(e)
  <2>1. Same(e, d, Scalars \cup {"s", "g"})
    BY <1>6, Zenon DEF Same, Scalars
  <2>2. PastTyped(e.g)
    BY <1>1, <1>7, Zenon DEF Typed
  <2>3. e.s \in [Slots -> SlotType]
    BY <1>4, <1>6, Zenon
  <2> QED BY <1>1, <1>6, <1>8, <2>1, <2>2, <2>3, TypedWith, Zenon
<1>10. Kept(e)
  <2>1. ASSUME NEW j \in Slots, e.s[j].err = "RETRY"
        PROVE  e.s[j].id \in Ids /\ e.g.st[e.s[j].id].unproc
    <3>1. j # k
      BY <1>2, <1>4, <1>6, <2>1, Zenon
    <3>2. e.s[j] = d.s[j]
      BY <1>4, <1>6, <3>1, Zenon
    <3> QED BY <1>7, <2>1, <3>2, Zenon DEF Kept
  <2>2. e.g.wire /\ ~e.fault /\ e.tx <= TX /\ \A i \in Ids : e.g.st[i].whole /\ e.g.st[i].retry
    BY <1>7, Zenon DEF Kept
  <2> QED BY <1>9, <2>1, <2>2, Zenon DEF Kept
<1>11. OpenedFrom(e, d, k, t)
  BY <1>4, <1>6, <1>10, Zenon DEF OpenedFrom, n
<1> QED BY <1>11, Zenon DEF e, t

\* A new stream: its slot, its history and the encoder's view of the table limit.
NewSlot(t, d, id) ==
    /\ t \in SlotType /\ t.id = id /\ t.swin = d.p_win /\ t.rwin = W /\ t.pend = 0 /\ t.rlen = 0
    /\ t.hdr = 0 /\ t.ready = 0 /\ t.got = 0 /\ t.err = "OK" /\ t.fl \subseteq {"HEAD", "SENT_END"}
NewStream(u, t, st) ==
    /\ u \in StreamType /\ u.whole /\ u.retry /\ (u.unproc <=> st.unproc) /\ ~u.es
    /\ u.dat = 0 /\ u.read = 0 /\ u.sent = 0 /\ u.wu = 0
    /\ u.ph = IF Has(t, "SENT_END") THEN "ended" ELSE "open"
Asked(e, d, k, t, u) ==
    /\ Typed(e) /\ Same(e, d, {"s", "next_id", "idle", "tx", "enc", "g"})
    /\ PastSame(e, d, {"st", "wire", "believed"})
    /\ e.next_id = d.next_id + 2 /\ e.tx <= TX /\ e.g.wire
    /\ e.enc.cur = d.enc.cur /\ ~e.enc.pending
    /\ e.g.believed = IF d.enc.pending THEN 0 ELSE d.g.believed
    /\ e.s[k] = t /\ \A j \in Slots : j # k => e.s[j] = d.s[j]
    /\ e.g.st[d.next_id] = u /\ \A i \in Ids : i # d.next_id => e.g.st[i] = d.g.st[i]
RequestDone(e, d, k) ==
    /\ Good(e, 0) /\ e.err = "OK" /\ e.eof = d.eof /\ e.rx = d.rx /\ e.fh = d.fh
    /\ Framed(d) => Framed(e)
    /\ e.s[k].id # 0
LEMMA AskedKeeps ==
    ASSUME NEW d, Good(d, 0), d.err = "OK", NEW k \in Slots, d.s[k].id = 0, d.next_id \in Ids,
           NEW t, NEW u, NEW e, Asked(e, d, k, t, u), NewSlot(t, d, d.next_id),
           NewStream(u, t, d.g.st[d.next_id])
    PROVE  RequestDone(e, d, k)
<1> DEFINE id == d.next_id  st == d.g.st[id]
<1>1. /\ Kept(d) /\ Typed(d) /\ Conn(d) /\ Owing(d, 0) /\ Simple(d) /\ ~d.fault
      /\ InBlock(d) /\ Taking(d) /\ Told(d)
  BY Zenon DEF Good, Kept, Typed, Conn
<1>2. id \in Ids /\ id \in Nat /\ id # 0
  BY Consts, Zenon
<1>3. /\ Typed(e) /\ Same(e, d, {"s", "next_id", "idle", "tx", "enc", "g"})
      /\ PastSame(e, d, {"st", "wire", "believed"})
      /\ e.next_id = id + 2 /\ e.tx <= TX /\ e.g.wire
      /\ e.enc.cur = d.enc.cur /\ ~e.enc.pending
      /\ e.g.believed = IF d.enc.pending THEN 0 ELSE d.g.believed
  BY Zenon DEF Asked
<1>4. /\ e.s[k] = t /\ \A j \in Slots : j # k => e.s[j] = d.s[j]
      /\ e.g.st[id] = u /\ \A i \in Ids : i # id => e.g.st[i] = d.g.st[i]
  BY Zenon DEF Asked
<1>5. /\ t \in SlotType /\ t.id = id /\ t.swin = d.p_win /\ t.rwin = W /\ t.pend = 0 /\ t.rlen = 0
      /\ t.hdr = 0 /\ t.ready = 0 /\ t.got = 0 /\ t.err = "OK" /\ t.fl \subseteq {"HEAD", "SENT_END"}
  BY Zenon DEF NewSlot
<1>6. /\ u \in StreamType /\ u.whole /\ u.retry /\ (u.unproc <=> st.unproc) /\ ~u.es
      /\ u.dat = 0 /\ u.read = 0 /\ u.sent = 0 /\ u.wu = 0
      /\ u.ph = IF Has(t, "SENT_END") THEN "ended" ELSE "open"
  BY Zenon DEF NewStream
<1>7. /\ e.err = d.err /\ e.eof = d.eof /\ e.goaway = d.goaway /\ e.last_id = d.last_id
      /\ e.p_win = d.p_win /\ e.rx = d.rx /\ e.f = d.f /\ e.fs = d.fs /\ e.fh = d.fh
      /\ e.b = d.b /\ e.dat = d.dat /\ e.pos = d.pos /\ e.fault = d.fault
      /\ e.crwin = d.crwin /\ e.cpend = d.cpend
  BY <1>3, Zenon DEF Same, Fields
<1>8. e.g.low = d.g.low /\ e.g.extra = d.g.extra
  BY <1>3, Zenon DEF PastSame, Past
<1>9. \A j \in Slots : Part(e, j) = Part(d, j) /\ Ending(e, j) = Ending(d, j)
  BY <1>7, Zenon DEF Part, Ending
<1>10. \A j \in Slots : d.s[j].id # 0 => j # k /\ d.s[j].id \in Ids /\ d.s[j].id # id /\ d.s[j].id < id
  <2> TAKE j \in Slots
  <2> HAVE d.s[j].id # 0
  <2>1. SlotOK(d, j)
    BY Zenon DEF Good
  <2>2. d.s[j].id \in Ids /\ d.s[j].id < id
    BY <2>1, Zenon DEF SlotOK
  <2>3. d.s[j].id \in Nat
    BY <2>2, Consts, Zenon
  <2> QED BY <1>2, <2>2, <2>3
<1>11. d.s[k] = Slot0
  BY <1>1, Zenon DEF Conn
<1>12. d.fs # k /\ d.b.s # k
  <2>1. d.fs # k
    <3>1. d.fs = k => d.s[k].id = d.f.sid /\ d.f.sid # 0
      BY <1>1, Consts, Zenon DEF Taking
    <3> QED BY <3>1, Zenon
  <2>2. d.b.s # k
    <3>1. d.b.s = k => d.s[k].id # 0
      BY <1>1, Consts, Zenon DEF InBlock
    <3> QED BY <3>1, Zenon
  <2> QED BY <2>1, <2>2, Zenon
<1>13. Part(e, k) = Idle0
  BY <1>9, <1>12, Zenon DEF Part
<1>14. ~Has(t, "RST") /\ ~Has(t, "RECV_END") /\ ~Has(t, "FINAL")
  BY <1>5, Zenon DEF Has
<1>15. SlotOK(e, k)
  <2>1. Closing(t, u, Part(e, k).es \/ Ending(e, k))
    <3> DEFINE z == Part(e, k).es \/ Ending(e, k)
    <3> HIDE DEF z
    <3> QED BY <1>5, <1>6, <1>14, Zenon DEF Closing
  <2>2. Counting(t, u, Idle0)
    <3>1. W \in Nat /\ MAX_LIST \in Nat
      BY Consts, Zenon
    <3>2. Rest(t) = 0
      BY <1>5 DEF Rest
    <3> DEFINE z == Idle0
    <3>3. z.on = FALSE /\ z.len = 0 /\ z.taken = 0 /\ z.whole = 0
      BY Zenon DEF Idle0
    <3> HIDE DEF z, Rest, Has
    <3>4. t.rwin + t.pend + Rest(t) + z.len - z.taken = W
      BY <1>5, <3>1, <3>2, <3>3
    <3>5. t.pend + Rest(t) + z.len - z.taken <= W /\ t.hdr <= MAX_LIST /\ t.hdr <= t.rlen
      BY <1>5, <3>1, <3>2, <3>3
    <3>6. t.ready <= Rest(t) /\ t.ready = Rest(t)
      BY <1>5, <3>2
    <3>7. u.dat = u.read + Rest(t) + z.whole - z.taken /\ t.got = u.dat - z.whole
      BY <1>5, <1>6, <3>2, <3>3
    <3> QED BY <1>5, <1>14, <3>3, <3>4, <3>5, <3>6, <3>7, Zenon DEF Counting, z
  <2>3. Granted(t, u, d.p_win)
    <3>1. d.p_win \in Nat
      BY <1>1, Zenon DEF Simple
    <3> QED BY <1>5, <1>6, <3>1 DEF Granted
  <2>4. id < e.next_id
    BY <1>2, <1>3
  <2> QED BY <1>2, <1>4, <1>5, <1>7, <1>13, <2>1, <2>2, <2>3, <2>4, Zenon DEF SlotOK
<1>16. ASSUME NEW j \in Slots PROVE SlotOK(e, j)
  <2>1. CASE j = k
    BY <1>15, <2>1, Zenon
  <2>2. CASE j # k
    <3>1. e.s[j] = d.s[j]
      BY <1>4, <2>2, Zenon
    <3>2. SUFFICES ASSUME d.s[j].id # 0 PROVE SlotOK(e, j)
      BY <3>1, Zenon DEF SlotOK
    <3>3. d.s[j].id \in Ids /\ d.s[j].id # id /\ d.s[j].id < id /\ d.s[j].id \in Nat
      BY <1>10, <3>2, Consts, Zenon
    <3>4. e.g.st[d.s[j].id] = d.g.st[d.s[j].id]
      BY <1>4, <3>3, Zenon
    <3>5. SlotOK(d, j)
      BY Zenon DEF Good
    <3>6. d.s[j].id < e.next_id
      BY <1>2, <1>3, <3>3
    <3>7. Part(e, j) = Part(d, j) /\ Ending(e, j) = Ending(d, j)
      BY <1>9, Zenon
    <3> QED BY <1>7, <3>1, <3>2, <3>4, <3>5, <3>6, <3>7, Zenon DEF SlotOK
  <2> QED BY <2>1, <2>2, Zenon
<1>17. \A i \in Ids : (e.g.st[i].unproc <=> d.g.st[i].unproc) /\ e.g.st[i].whole /\ e.g.st[i].retry
  <2> TAKE i \in Ids
  <2>1. CASE i = id
    BY <1>4, <1>6, <2>1, Zenon
  <2>2. CASE i # id
    <3>1. d.g.st[i].whole /\ d.g.st[i].retry
      BY <1>1, Zenon DEF Kept
    <3> QED BY <1>4, <2>2, <3>1, Zenon
  <2> QED BY <2>1, <2>2, Zenon
<1>18. Kept(e)
  <2>1. ASSUME NEW j \in Slots, e.s[j].err = "RETRY"
        PROVE  e.s[j].id \in Ids /\ e.g.st[e.s[j].id].unproc
    <3>1. j # k
      BY <1>4, <1>5, <2>1, Zenon
    <3>2. e.s[j] = d.s[j]
      BY <1>4, <3>1, Zenon
    <3>3. d.s[j].id \in Ids /\ d.g.st[d.s[j].id].unproc
      BY <1>1, <2>1, <3>2, Zenon DEF Kept
    <3> QED BY <1>17, <3>2, <3>3, Zenon
  <2> QED BY <1>1, <1>3, <1>7, <1>17, <2>1, Zenon DEF Kept
<1>19. Distinct(e)
  <2>1. ASSUME NEW i \in Slots, NEW j \in Slots, e.s[i].id # 0, e.s[i].id = e.s[j].id
        PROVE  i = j
    <3>1. CASE i = k /\ j # k
      BY <1>4, <1>5, <1>10, <2>1, <3>1
    <3>2. CASE i # k /\ j = k
      BY <1>4, <1>5, <1>10, <2>1, <3>2, Zenon
    <3>3. CASE i # k /\ j # k
      BY <1>1, <1>4, <2>1, <3>3, Zenon DEF Conn, Distinct
    <3> QED BY <3>1, <3>2, <3>3, Zenon
  <2> QED BY <2>1, Zenon DEF Distinct
<1>20. Fresh(e)
  <2>1. e.next_id % 2 = 1
    <3>1. id % 2 = 1
      BY <1>1, Zenon DEF Conn, Fresh
    <3> QED BY <1>2, <1>3, <3>1
  <2>2. ASSUME NEW i \in Ids, i >= e.next_id
        PROVE  e.g.st[i] = [Stream0 EXCEPT !.unproc = e.g.st[i].unproc]
    <3>1. i \in Nat /\ i # id /\ i >= id
      <4>1. i \in Nat
        BY <2>2, Consts, Zenon
      <4> QED BY <1>2, <1>3, <2>2, <4>1
    <3>2. d.g.st[i] = [Stream0 EXCEPT !.unproc = d.g.st[i].unproc]
      BY <1>1, <3>1, Zenon DEF Conn, Fresh
    <3> QED BY <1>4, <3>1, <3>2, Zenon
  <2> QED BY <2>1, <2>2, Zenon DEF Fresh
<1>21. Concluded(e)
  <2>1. ASSUME NEW i \in Ids
        PROVE  \/ e.g.st[i].ph \in {"idle", "reset"}
               \/ e.g.st[i].ph = "ended" /\ e.g.st[i].es
               \/ \E j \in Slots : e.s[j].id = i
    <3>1. CASE i = id
      BY <1>4, <1>5, <3>1, Zenon
    <3>2. CASE i # id
      <4>1. \A j \in Slots : d.s[j].id = i => e.s[j].id = i
        <5>1. i # 0
          BY Consts, Zenon
        <5> QED BY <1>4, <1>10, <5>1, Zenon
      <4>2. e.g.st[i] = d.g.st[i]
        BY <1>4, <3>2, Zenon
      <4> QED BY <1>1, <4>1, <4>2, Zenon DEF Conn, Concluded
    <3> QED BY <3>1, <3>2, Zenon
  <2> QED BY <2>1, Zenon DEF Concluded
<1>22. Sum(e)
  <2>1. \A j \in Slots : Unread(e, j) + Coming(e, j) = Unread(d, j) + Coming(d, j)
    <3> TAKE j \in Slots
    <3>1. Coming(e, j) = Coming(d, j)
      BY <1>7, Zenon DEF Coming
    <3>2. Unread(e, j) = Unread(d, j)
      <4>1. CASE j = k
        <5>1. Unread(d, k) = 0
          BY <1>11 DEF Unread, Slot0
        <5>2. Unread(e, k) = 0
          BY <1>4, <1>5 DEF Unread
        <5> QED BY <4>1, <5>1, <5>2, Zenon
      <4>2. CASE j # k
        BY <1>4, <4>2, Zenon DEF Unread
      <4> QED BY <4>1, <4>2, Zenon
    <3> QED BY <3>1, <3>2, Zenon
  <2>2. Held(e) = Held(d)
    BY <1>1, <2>1, HeldSame, Zenon
  <2> QED BY <1>1, <1>7, <1>8, <2>2, Zenon DEF Conn, Sum
<1>23. Taking(e)
  <2> SUFFICES ASSUME e.fs # 0 PROVE Taking(e)
    BY Zenon DEF Taking
  <2>1. d.fs \in Slots /\ d.fs # 0
    BY <1>1, <1>7, Consts DEF Simple
  <2>2. /\ d.f.t = "DATA" /\ d.s[d.fs].id = d.f.sid /\ d.f.sid # 0
        /\ Has(d.s[d.fs], "FINAL") /\ ~Has(d.s[d.fs], "RST") /\ ~Has(d.s[d.fs], "RECV_END")
        /\ (d.f.es => d.g.st[d.f.sid].es)
        /\ d.dat = FrameData(d.f, d.pos) /\ d.pos <= d.f.len
    BY <1>1, <2>1, Zenon DEF Taking
  <2>3. e.s[d.fs] = d.s[d.fs] /\ e.g.st[d.f.sid] = d.g.st[d.f.sid]
    <3>1. d.f.sid \in Ids /\ d.f.sid # id
      BY <1>10, <2>1, <2>2, Zenon
    <3> QED BY <1>4, <1>12, <2>1, <3>1, Zenon
  <2> QED BY <1>7, <2>1, <2>2, <2>3, Zenon DEF Taking
<1>24. InBlock(e)
  <2>1. e.b.in => e.f.t \in {"none", "HEADERS", "CONT"}
    BY <1>1, <1>7, Zenon DEF InBlock
  <2>2. CASE d.b.s = 0
    BY <1>7, <2>1, <2>2, Zenon DEF InBlock
  <2>3. CASE d.b.s # 0
    <3> DEFINE j == d.b.s  z == d.s[j]  v == e.s[j]
    <3>1. /\ d.b.in /\ z.id = d.b.sid /\ z.id # 0 /\ ~Has(z, "RST") /\ ~Has(z, "RECV_END")
          /\ (d.b.trailer <=> Has(z, "FINAL")) /\ z.hdr <= d.b.pre /\ (d.b.es <=> d.g.st[z.id].es)
      BY <1>1, <2>3, Zenon DEF InBlock
    <3>2. j \in Slots
      <4> DEFINE b == d.b
      <4>1. b \in BlockType
        BY <1>1, Zenon DEF Typed
      <4> HIDE DEF b, Representations
      <4>2. b.s \in 0..N
        BY <4>1, Zenon DEF BlockType
      <4>3. d.b.s \in 0..N
        BY <4>2, Zenon DEF b
      <4> QED BY <2>3, <4>3, SlotNumbers, Zenon
    <3>3. v = z /\ e.g.st[z.id] = d.g.st[z.id]
      <4>1. z.id \in Ids /\ z.id # id /\ j # k
        BY <1>10, <3>1, <3>2, Zenon
      <4> QED BY <1>4, <3>2, <4>1, Zenon
    <3>4. /\ v.id = d.b.sid /\ v.id # 0 /\ ~Has(v, "RST") /\ ~Has(v, "RECV_END")
          /\ (d.b.trailer <=> Has(v, "FINAL")) /\ v.hdr <= d.b.pre /\ (d.b.es <=> e.g.st[v.id].es)
      BY <3>1, <3>3, Zenon
    <3> HIDE DEF v, j
    <3> QED BY <1>7, <2>1, <3>1, <3>4, Zenon DEF InBlock, v, j
  <2> QED BY <2>2, <2>3, Zenon
<1>25. Told(e)
  BY <1>1, <1>7, <1>17, Zenon DEF Told
<1>26. Encoding(e)
  BY <1>1, <1>3, <1>8, Zenon DEF Conn, Encoding
<1>27. Conn(e)
  <2>1. e.eof # "no" => ~e.rx
    BY <1>1, <1>7, Zenon DEF Conn
  <2>2. \A j \in Slots : e.s[j].id = 0 => e.s[j] = Slot0
    <3> TAKE j \in Slots
    <3>1. j = k => e.s[j].id # 0
      BY <1>2, <1>4, <1>5, Zenon
    <3> QED BY <1>1, <1>4, <3>1, Zenon DEF Conn
  <2> QED BY <1>19, <1>20, <1>21, <1>22, <1>23, <1>24, <1>25, <1>26, <2>1, <2>2, Zenon DEF Conn
<1>28. Owing(e, 0)
  <2>1. \A j \in Slots \ {0} : Paid(e.s[j])
    <3> TAKE j \in Slots \ {0}
    <3>1. CASE j = k
      BY <1>4, <1>5, <3>1, Consts DEF Paid
    <3>2. CASE j # k
      BY <1>1, <1>4, <3>2, Zenon DEF Owing
    <3> QED BY <3>1, <3>2, Zenon
  <2> QED BY <1>1, <1>7, <2>1, Zenon DEF Owing
<1>29. Good(e, 0)
  BY <1>16, <1>18, <1>27, <1>28, Zenon DEF Good
<1>30. Framed(d) => Framed(e)
  BY <1>7, Zenon DEF Framed
<1> QED BY <1>2, <1>4, <1>5, <1>7, <1>29, <1>30, Zenon DEF RequestDone

\* The slot is taken and the queue has room for the frame header, or was just flushed.
Roomy(r, d, k, t) ==
    /\ Kept(r) /\ Same(r, d, {"s", "next_id", "idle", "tx"}) /\ r.next_id = d.next_id + 2
    /\ r.s[k] = t /\ \A j \in Slots : j # k => r.s[j] = d.s[j]
AskedSlot(t, body) == [t EXCEPT !.fl = IF body = 0 THEN @ \cup {"SENT_END"} ELSE @]
LEMMA AskedSlotIs ==
    ASSUME NEW d, NEW id, NEW t, NewSlot(t, d, id), NEW body
    PROVE  NewSlot(AskedSlot(t, body), d, id)
<1> DEFINE f == IF body = 0 THEN t.fl \cup {"SENT_END"} ELSE t.fl
           v == [t EXCEPT !.fl = f]
<1>1. /\ t \in SlotType /\ t.id = id /\ t.swin = d.p_win /\ t.rwin = W /\ t.pend = 0 /\ t.rlen = 0
      /\ t.hdr = 0 /\ t.ready = 0 /\ t.got = 0 /\ t.err = "OK" /\ t.fl \subseteq {"HEAD", "SENT_END"}
  BY Zenon DEF NewSlot
<1>2. f \in SUBSET Flags /\ f \subseteq {"HEAD", "SENT_END"}
  BY <1>1, Zenon DEF Flags
<1>3. v = AskedSlot(t, body)
  BY Zenon DEF AskedSlot
<1> HIDE DEF f
<1>4. v \in SlotType
  <2> HIDE DEF Flags
  <2> QED BY <1>1, <1>2, Zenon DEF SlotType
<1>5. /\ v.id = t.id /\ v.swin = t.swin /\ v.rwin = t.rwin /\ v.pend = t.pend /\ v.rlen = t.rlen
      /\ v.hdr = t.hdr /\ v.ready = t.ready /\ v.got = t.got /\ v.err = t.err /\ v.fl = f
  BY <1>1, Zenon DEF SlotType
<1> HIDE DEF v
<1>6. NewSlot(v, d, id)
  BY <1>1, <1>2, <1>4, <1>5, Zenon DEF NewSlot
<1> QED BY <1>3, <1>6, Zenon
LEMMA OpenSlotNew ==
    ASSUME NEW d, Typed(d), NEW head \in BOOLEAN
    PROVE  NewSlot(OpenSlot(d, head), d, d.next_id)
<1> DEFINE t == OpenSlot(d, head)
<1>1. /\ t \in SlotType /\ t.id = d.next_id /\ t.swin = d.p_win /\ t.rwin = W /\ t.pend = 0
      /\ t.rlen = 0 /\ t.hdr = 0 /\ t.ready = 0 /\ t.got = 0 /\ t.err = "OK" /\ t.fl \subseteq {"HEAD"}
  BY OpenSlotIs, Zenon
<1> HIDE DEF t
<1>2. NewSlot(t, d, d.next_id)
  BY <1>1, Zenon DEF NewSlot
<1> QED BY <1>2, Zenon DEF t

LEMMA RequestBegins ==
    ASSUME NEW d, Good(d, 0), d.err = "OK", NEW k \in Slots, d.s[k].id = 0, d.next_id \in Ids,
           NEW head \in BOOLEAN, NEW r, Roomy(r, d, k, OpenSlot(d, head)),
           NEW req, req.hlen \in Nat
    PROVE  RequestDone(request_headers(r, k, req), d, k)
<1> DEFINE id == d.next_id  st == d.g.st[id]  t == AskedSlot(OpenSlot(d, head), req.body)
           ph == IF req.body = 0 THEN "ended" ELSE "open"
           u == [st EXCEPT !.ph = ph]
           update == IF r.enc.pending THEN 0 ELSE r.g.believed
           q == Wire(r, id, {"idle"}, ph)
           e == request_headers(r, k, req)
           a == block_spill(q.tx, req.hlen)
           b == [q.enc EXCEPT !.pending = FALSE]
           h == [q.g EXCEPT !.wire = q.g.wire /\ update <= r.g.low, !.believed = update]
           v == [q.s EXCEPT ![k] = AskedSlot(q.s[k], req.body)]
<1>1. /\ Kept(d) /\ Typed(d) /\ Conn(d) /\ Simple(d) /\ ~d.fault /\ d.g.wire
      /\ d.enc \in [cur : Nat, pending : BOOLEAN] /\ PastTyped(d.g)
  BY Zenon DEF Good, Kept, Typed, Conn
<1>2. /\ Kept(r) /\ Typed(r) /\ Same(r, d, {"s", "next_id", "idle", "tx"}) /\ r.next_id = d.next_id + 2
      /\ r.s[k] = OpenSlot(d, head) /\ (\A j \in Slots : j # k => r.s[j] = d.s[j])
      /\ r.tx <= TX /\ r.tx \in Nat
  BY Zenon DEF Roomy, Kept, Typed, Simple
<1>3. NewSlot(t, d, id)
  <2>1. NewSlot(OpenSlot(d, head), d, id)
    BY <1>1, OpenSlotNew, Zenon
  <2> DEFINE o == OpenSlot(d, head)
  <2> HIDE DEF st, u, q, e, a, b, h, v, o, id
  <2>2. NewSlot(AskedSlot(o, req.body), d, id)
    BY <2>1, AskedSlotIs, Zenon DEF o
  <2> QED BY <2>2, Zenon DEF o
<1>4. OpenSlot(d, head).id = id
  BY <1>1, OpenSlotIs, Zenon
<1>5. /\ r.enc = d.enc /\ r.g = d.g
  BY <1>2, Zenon DEF Same, Fields
<1>6. st \in StreamType /\ st = [Stream0 EXCEPT !.unproc = st.unproc]
  <2>1. id \in Nat /\ id >= id
    <3>1. id \in Nat
      <4> HIDE DEF st, u, q, e, a, b, h, v, t, update
      <4> QED BY Consts, Zenon
    <3> QED BY <3>1
  <2> QED BY <1>1, <2>1, StreamTyped, Zenon DEF Conn, Fresh
<1>7. /\ st.ph = "idle" /\ st.whole /\ st.retry /\ ~st.es /\ st.dat = 0 /\ st.read = 0 /\ st.sent = 0
      /\ st.wu = 0
  <2> HIDE DEF st
  <2> QED BY <1>6, Zenon DEF Stream0
<1>8. ph \in {"idle", "open", "ended", "reset"}
  BY Zenon
<1>9. /\ Typed(q) /\ Same(q, r, {"g"}) /\ PastSame(q, r, {"st", "wire"})
      /\ (q.g.wire <=> r.g.wire /\ r.g.st[id].ph \in {"idle"})
      /\ StreamBecomes(q, r, id, [r.g.st[id] EXCEPT !.ph = ph])
  <2> HIDE DEF ph, id, st
  <2>1. id \in Ids
    BY Zenon DEF id
  <2> QED BY <1>2, <1>8, <2>1, WireDoes, Zenon
<1>10. e = [q EXCEPT !.tx = a, !.enc = b, !.g = h, !.s = v]
  <2>1. e = [q EXCEPT !.tx = block_spill(@, req.hlen), !.enc.pending = FALSE,
                      !.g.wire = @ /\ update <= r.g.low, !.g.believed = update,
                      !.s[k].fl = IF req.body = 0 THEN @ \cup {"SENT_END"} ELSE @]
    BY <1>2, <1>4, Zenon DEF request_headers
  <2>2. Shape(q) /\ PastTyped(q.g)
    BY <1>9, Zenon DEF Typed
  <2> HIDE DEF update, e, q
  <2> QED BY <2>1, <2>2, ZenonT(60) DEF Shape, Fields, PastTyped, Past, AskedSlot
<1> HIDE DEF e
<1>11. /\ q.g.st[id] = u /\ (\A i \in Ids : i # id => q.g.st[i] = d.g.st[i]) /\ q.g.st \in [Ids -> StreamType]
  <2> DEFINE x == q.g.st  y == d.g.st
  <2>1. x = [y EXCEPT ![id] = u] /\ y \in [Ids -> StreamType]
    BY <1>1, <1>5, <1>9, Zenon DEF StreamBecomes, PastTyped
  <2>2. x \in [Ids -> StreamType]
    BY <1>9, Zenon DEF Typed, PastTyped
  <2> HIDE DEF x, y, u, id
  <2>3. x[id] = u /\ \A i \in Ids : i # id => x[i] = y[i]
    BY <2>1, Zenon DEF id
  <2> QED BY <2>2, <2>3, Zenon DEF x, y
<1>12. q.g.wire
  BY <1>1, <1>5, <1>7, <1>9, Zenon
<1>13. update <= r.g.low /\ update \in Nat /\ update = IF d.enc.pending THEN 0 ELSE d.g.believed
  <2>1. d.g.low \in Nat /\ d.g.believed \in Nat
    BY <1>1, Zenon DEF PastTyped
  <2>2. update = IF d.enc.pending THEN 0 ELSE d.g.believed
    BY <1>5, Zenon
  <2>3. update <= d.g.low
    <3> HIDE DEF update
    <3>1. TABLE0 \in Nat
      BY Consts
    <3>2. Encoding(d)
      BY <1>1, Zenon DEF Conn
    <3> QED BY <2>1, <2>2, <3>1, <3>2 DEF Encoding
  <2> QED BY <1>5, <2>1, <2>2, <2>3, Zenon
<1>14. /\ h = [x \in Past |-> h[x]] /\ h.wire = TRUE /\ h.believed = update
       /\ \A x \in Past \ {"wire", "believed"} : h[x] = q.g[x]
  <2> DEFINE g == q.g  w == update <= r.g.low
  <2>1. h = [g EXCEPT !.wire = g.wire /\ w, !.believed = update] /\ PastTyped(g) /\ g.wire /\ w
    BY <1>9, <1>12, <1>13, Zenon DEF Typed
  <2> HIDE DEF g, h, w, update
  <2>2. h = [x \in Past |-> h[x]] /\ h.wire = TRUE /\ h.believed = update
       /\ \A x \in Past \ {"wire", "believed"} : h[x] = g[x]
    BY <2>1, Zenon DEF PastTyped, Past
  <2> QED BY <2>2, Zenon DEF g
<1>15. b \in [cur : Nat, pending : BOOLEAN] /\ b.cur = d.enc.cur /\ ~b.pending
  <2>1. q.enc = d.enc
    BY <1>5, <1>9, Zenon DEF Same, Fields
  <2> QED BY <1>1, <2>1, Zenon
<1>16. a \in Nat /\ a <= TX
  <2>1. q.tx = r.tx
    BY <1>9, Zenon DEF Same, Fields
  <2> QED BY <1>2, <2>1, SpillFits, Zenon
<1>17. v \in [Slots -> SlotType] /\ v[k] = t /\ \A j \in Slots : j # k => v[j] = d.s[j]
  <2>1. q.s = r.s /\ r.s \in [Slots -> SlotType]
    BY <1>2, <1>9, Zenon DEF Same, Fields, Typed
  <2>2. t \in SlotType
    BY <1>3, Zenon DEF NewSlot
  <2>3. v = [r.s EXCEPT ![k] = t]
    BY <1>2, <2>1, Zenon
  <2> HIDE DEF v, t, q, SlotType
  <2> QED BY <1>2, <2>1, <2>2, <2>3, Zenon
<1> HIDE DEF a, b, h, v, q, update, t, u, ph
<1>18. Shape(e) /\ Same(e, q, {"tx", "enc", "g", "s"}) /\ e.tx = a /\ e.enc = b /\ e.g = h /\ e.s = v
  <2>1. Shape(q)
    BY <1>9, Zenon DEF Typed
  <2> QED BY <1>10, <2>1, Zenon DEF Shape, Same, Fields
<1>19. Same(e, d, {"s", "next_id", "idle", "tx", "enc", "g"}) /\ e.next_id = d.next_id + 2
  <2>1. Same(e, d, {"s", "next_id", "idle", "tx", "enc", "g"})
    BY <1>2, <1>9, <1>18, Zenon DEF Same
  <2>2. e.next_id = r.next_id
    BY <1>9, <1>18, Zenon DEF Same, Fields
  <2> QED BY <1>2, <2>1, <2>2, Zenon
<1>20. PastSame(e, d, {"st", "wire", "believed"})
  BY <1>5, <1>9, <1>14, <1>18, Zenon DEF PastSame
<1>21. h.st = q.g.st /\ h.low = q.g.low /\ h.extra = q.g.extra
  BY <1>14, Zenon DEF Past
<1>22. Typed(e)
  <2>1. PastTyped(q.g) /\ q.b \in BlockType /\ q.f \in Frames \cup {NoFrame} /\ Simple(q)
    BY <1>9, Zenon DEF Typed
  <2>2. PastTyped(h)
    BY <1>11, <1>13, <1>14, <1>21, <2>1, Zenon DEF PastTyped
  <2>3. /\ e.b = q.b /\ e.f = q.f
        /\ e.fault = q.fault /\ e.goaway = q.goaway /\ e.rx = q.rx /\ e.p_win = q.p_win
        /\ e.next_id = q.next_id /\ e.cpend = q.cpend /\ e.last_id = q.last_id /\ e.pos = q.pos
        /\ e.dat = q.dat /\ e.cwin = q.cwin /\ e.crwin = q.crwin /\ e.fs = q.fs
    BY <1>18, Zenon DEF Same, Fields
  <2>4. Simple(e)
    BY <1>16, <1>18, <2>1, <2>3, Zenon DEF Simple
  <2> QED BY <1>15, <1>17, <1>18, <2>1, <2>2, <2>3, <2>4, Zenon DEF Typed
<1>23. Asked(e, d, k, t, u)
  <2>1. e.g.wire /\ e.tx <= TX /\ e.enc.cur = d.enc.cur /\ ~e.enc.pending
    BY <1>14, <1>15, <1>16, <1>18, Zenon
  <2>2. e.g.believed = IF d.enc.pending THEN 0 ELSE d.g.believed
    BY <1>13, <1>14, <1>18, Zenon
  <2>3. e.s[k] = t /\ \A j \in Slots : j # k => e.s[j] = d.s[j]
    BY <1>17, <1>18, Zenon
  <2>4. e.g.st[id] = u /\ \A i \in Ids : i # id => e.g.st[i] = d.g.st[i]
    BY <1>11, <1>18, <1>21, Zenon
  <2> QED BY <1>19, <1>20, <1>22, <2>1, <2>2, <2>3, <2>4, Zenon DEF Asked
<1>24. NewStream(u, t, st)
  <2>1. /\ u \in StreamType /\ u.ph = ph /\ u.whole /\ u.retry /\ (u.unproc <=> st.unproc) /\ ~u.es
        /\ u.dat = 0 /\ u.read = 0 /\ u.sent = 0 /\ u.wu = 0
    <3> DEFINE z == ph
    <3>1. u = [st EXCEPT !.ph = z] /\ z \in {"idle", "open", "ended", "reset"}
      BY <1>8, Zenon DEF u
    <3> HIDE DEF z, st
    <3>2. u \in StreamType /\ u.ph = z
      BY <1>6, <3>1, Zenon DEF StreamType
    <3>3. /\ u.whole = st.whole /\ u.retry = st.retry /\ u.unproc = st.unproc /\ u.es = st.es
          /\ u.dat = st.dat /\ u.read = st.read /\ u.sent = st.sent /\ u.wu = st.wu
      BY <1>6, <3>1, Zenon DEF StreamType
    <3> QED BY <1>7, <3>2, <3>3, Zenon DEF z
  <2>2. Has(t, "SENT_END") <=> req.body = 0
    <3> DEFINE o == OpenSlot(d, head)
    <3>1. o.fl \subseteq {"HEAD"} /\ o \in SlotType
      BY <1>1, OpenSlotIs, Zenon
    <3>2. t = [o EXCEPT !.fl = IF req.body = 0 THEN o.fl \cup {"SENT_END"} ELSE o.fl]
      BY Zenon DEF t, AskedSlot
    <3> HIDE DEF o
    <3>3. t.fl = IF req.body = 0 THEN o.fl \cup {"SENT_END"} ELSE o.fl
      BY <3>1, <3>2, Zenon DEF SlotType
    <3> QED BY <3>1, <3>3 DEF Has
  <2>3. u.ph = IF Has(t, "SENT_END") THEN "ended" ELSE "open"
    BY <2>1, <2>2, Zenon DEF ph
  <2> HIDE DEF st
  <2> QED BY <2>1, <2>3, Zenon DEF NewStream
<1>25. RequestDone(e, d, k)
  <2>1. NewSlot(t, d, d.next_id) /\ NewStream(u, t, d.g.st[d.next_id])
    BY <1>3, <1>24, Zenon
  <2> HIDE DEF id, st
  <2> QED BY <1>23, <2>1, AskedKeeps, Zenon
<1> QED BY <1>25, Zenon DEF e

-----------------------------------------------------------------------------
(* The calls *)

LEMMA SettledIs ==
    ASSUME NEW d, NEW cl, Settled(d, cl)
    PROVE  /\ Good(d, 0) /\ Kept(d) /\ Typed(d) /\ cl \in CallType /\ d.tx \in Nat
           /\ cl.op \in {"response", "read", "window", "body"} => cl.k \in Slots
           /\ d.err = "OK" =>
                 /\ cl.op \in {"response", "read", "window", "body"} => d.s[cl.k].id # 0
                 /\ Framed(d) /\ Queue(d, cl.op, cl.k)
BY Zenon DEF Settled, Good, Kept, Typed, Simple
LEMMA CallIs ==
    ASSUME NEW cl \in CallType
    PROVE  /\ cl.k \in 0..N /\ cl.left \in Nat /\ cl.cap \in Nat
           /\ cl.op \in {"none", "closed", "start", "response", "read", "window", "body"}
           /\ \A op \in {"none", "closed", "start", "response", "read", "window", "body"} :
                 LET z == [cl EXCEPT !.op = op]
                 IN  z \in CallType /\ z.op = op /\ z.k = cl.k
           /\ \A n \in Nat :
                 LET z == [cl EXCEPT !.left = n]
                 IN  z \in CallType /\ z.op = cl.op /\ z.k = cl.k
BY Zenon DEF CallType
LEMMA NoCallIs ==
    /\ NoCall \in CallType /\ NoCall.op = "none" /\ NoCall.k = 0
    /\ [NoCall EXCEPT !.op = "closed"] \in CallType /\ [NoCall EXCEPT !.op = "closed"].op = "closed"
    /\ [NoCall EXCEPT !.op = "start"] \in CallType /\ [NoCall EXCEPT !.op = "start"].op = "start"
<1>1. N \in Nat
  BY Consts, Zenon
<1> QED BY <1>1 DEF NoCall, CallType

\* The call is over.
LEMMA Returned ==
    ASSUME NEW d, Good(d, 0),
           d.err = "OK" => Framed(d) /\ Potential(d) <= Room /\ (d.rx => d.fh = 0)
    PROVE  Settled(d, NoCall) /\ Settled(d, [NoCall EXCEPT !.op = "closed"])
<1>1. d.err = "OK" => Queue(d, "none", 0) /\ Queue(d, "closed", 0)
  <2> SUFFICES ASSUME d.err = "OK" PROVE Queue(d, "none", 0) /\ Queue(d, "closed", 0)
    BY Zenon
  <2> QED BY DEF Queue
<1> DEFINE a == NoCall  b == [NoCall EXCEPT !.op = "closed"]
<1>2. a \in CallType /\ a.op = "none" /\ a.k = 0 /\ b \in CallType /\ b.op = "closed" /\ b.k = 0
  BY NoCallIs, Zenon DEF NoCall
<1> HIDE DEF a, b
<1>3. Settled(d, a) /\ Settled(d, b)
  BY <1>1, <1>2, Zenon DEF Settled
<1> QED BY <1>3, Zenon DEF a, b
LEMMA ReturnedEmpty ==
    ASSUME NEW d, Good(d, 0), d.err = "OK" => Framed(d) /\ d.tx = 0 /\ (d.rx => d.fh = 0)
    PROVE  Settled(d, NoCall) /\ Settled(d, [NoCall EXCEPT !.op = "closed"])
<1>1. d.err = "OK" => Potential(d) <= Room
  BY EmptyRoom, Zenon
<1> QED BY <1>1, Returned, Zenon

\* The stream of the call is closed.
LEMMA ReturnedReleased ==
    ASSUME NEW d, Good(d, 0), NEW k \in Slots, NEW w \in BOOLEAN,
           d.err = "OK" => /\ d.s[k].id # 0 /\ Framed(d) /\ (d.rx => d.fh = 0)
                           /\ Has(d.s[k], "RST") \/ BothEnds(d.s[k]) => d.tx < TX
    PROVE  Settled(h2_release(d, k, w), NoCall)
<1> DEFINE e == h2_release(d, k, w)
<1>1. ReleaseDone(e, d, k)
  BY ReleaseKeeps, Zenon
<1> HIDE DEF e
<1>2. /\ Good(e, 0) /\ e.rx = d.rx /\ e.fh = d.fh
      /\ e.err = "OK" => d.err = "OK" /\ e.tx = 0 /\ (Framed(d) => Framed(e))
  BY <1>1, Zenon DEF ReleaseDone
<1>3. Settled(e, NoCall)
  BY <1>2, ReturnedEmpty, Zenon
<1> QED BY <1>3, Zenon DEF e

\* The queue was flushed.
LEMMA FlushedIs ==
    ASSUME NEW d, Good(d, 0), NEW w \in BOOLEAN
    PROVE  LET e == h2_flush(d, w)
           IN  /\ Good(e, 0) /\ e.tx = 0 /\ e.s = d.s /\ e.rx = d.rx /\ e.fh = d.fh /\ e.eof = d.eof
               /\ e.cwin = d.cwin /\ e.goaway_err = d.goaway_err /\ e.got_settings = d.got_settings
               /\ (Framed(d) => Framed(e))
               /\ e.err = IF d.tx # 0 /\ ~w /\ d.err = "OK" THEN "IO" ELSE d.err
<1> DEFINE e == h2_flush(d, w)
<1>1. /\ Good(e, 0) /\ Same(e, d, {"tx", "err"}) /\ e.tx = 0
      /\ e.err = IF d.tx # 0 /\ ~w /\ d.err = "OK" THEN "IO" ELSE d.err
  BY FlushKeeps, Zenon
<1> HIDE DEF e
<1>2. /\ e.s = d.s /\ e.rx = d.rx /\ e.fh = d.fh /\ e.eof = d.eof
      /\ e.cwin = d.cwin /\ e.goaway_err = d.goaway_err /\ e.got_settings = d.got_settings
      /\ e.f = d.f /\ e.pos = d.pos /\ e.dat = d.dat /\ e.fs = d.fs
  BY <1>1, Zenon DEF Same, Fields
<1>3. Framed(d) => Framed(e)
  BY <1>2, Zenon DEF Framed
<1> QED BY <1>1, <1>2, <1>3, Zenon DEF e

\* What a call does when its wait returns.
Waited(d, cl, ok) ==
    /\ Good(d, 0) /\ cl \in CallType /\ cl.op \in {"start", "response", "read", "window"}
    /\ cl.op \in {"response", "read", "window"} => cl.k \in Slots
    /\ d.err = "OK" =>
          /\ Framed(d) /\ (d.rx => d.fh = 0)
          /\ cl.op \in {"response", "read", "window"} => d.s[cl.k].id # 0
          /\ IF cl.op = "window"
             THEN Has(d.s[cl.k], "RST") \/ BothEnds(d.s[cl.k]) => d.tx < TX
             ELSE Potential(d) <= Room
    /\ ok => /\ d.err = "OK" /\ d.tx = 0
             /\ cl.op = "response" => Has(d.s[cl.k], "FINAL") \/ d.s[cl.k].err # "OK"
             /\ cl.op = "read" => \/ d.s[cl.k].ready # 0 \/ Has(d.s[cl.k], "RECV_END")
                                  \/ d.s[cl.k].err # "OK"
LEMMA ResumeKeeps ==
    ASSUME NEW d, NEW ok \in BOOLEAN, NEW w \in BOOLEAN, Waited(d, call, ok), Resume(d, ok, w)
    PROVE  Settled(c', call')
<1> DEFINE k == call.k
<1>1. /\ Good(d, 0) /\ call \in CallType /\ call.op \in {"start", "response", "read", "window"}
      /\ (call.op \in {"response", "read", "window"} => k \in Slots)
      /\ (d.err = "OK" => Framed(d) /\ (d.rx => d.fh = 0))
  BY Zenon DEF Waited
<1>2. d.err = "OK" /\ call.op \in {"response", "read", "window"} => d.s[k].id # 0
  BY Zenon DEF Waited
<1>3. d.err = "OK" /\ call.op # "window" => Potential(d) <= Room
  BY Zenon DEF Waited
<1>4. ok => d.err = "OK" /\ d.tx = 0
  BY Zenon DEF Waited
<1>5. CASE call.op = "window" /\ ok
  <2>1. c' = d /\ call' = [call EXCEPT !.op = "body"]
    BY <1>5, Zenon DEF Resume
  <2> DEFINE z == [call EXCEPT !.op = "body"]
  <2>2. z \in CallType /\ z.op = "body" /\ z.k = k
    BY <1>1, CallIs, Zenon
  <2> HIDE DEF z
  <2>3. Queue(d, "body", k)
    BY <1>1, <1>4, <1>5 DEF Queue
  <2>4. Settled(d, z)
    BY <1>1, <1>2, <1>4, <1>5, <2>2, <2>3, Zenon DEF Settled
  <2> QED BY <2>1, <2>4, Zenon DEF z
<1>6. CASE call.op = "window" /\ ~ok
  <2>1. c' = h2_release(d, k, w) /\ call' = NoCall
    BY <1>6, Zenon DEF Resume, Return
  <2>2. d.err = "OK" => (Has(d.s[k], "RST") \/ BothEnds(d.s[k]) => d.tx < TX)
    BY <1>6, Zenon DEF Waited
  <2>3. Settled(h2_release(d, k, w), NoCall)
    <3> HIDE DEF k
    <3> QED BY <1>1, <1>2, <1>6, <2>2, ReturnedReleased, Zenon
  <2> QED BY <2>1, <2>3, Zenon
<1>7. CASE call.op = "response" /\ ok
  <2>1. c' = (IF d.s[k].err # "OK" THEN Refused(d, k) ELSE response_fields(d, k)) /\ call' = NoCall
    BY <1>7, Zenon DEF Resume, Return
  <2>2. Has(d.s[k], "FINAL") \/ d.s[k].err # "OK"
    BY <1>7, Zenon DEF Waited
  <2> HIDE DEF k
  <2>3. CASE d.s[k].err # "OK"
    <3>1. Refused(d, k) = d
      BY <1>1, <1>7, RefusedIs, Zenon DEF Good
    <3>2. Settled(d, NoCall)
      BY <1>1, <1>4, <1>7, ReturnedEmpty, Zenon
    <3> QED BY <2>1, <2>3, <3>1, <3>2, Zenon
  <2>4. CASE d.s[k].err = "OK"
    <3> DEFINE e == response_fields(d, k)
    <3>1. OwnDone(e, d) /\ e.tx = d.tx
      BY <1>1, <1>2, <1>4, <1>7, <2>2, <2>4, ResponseKeeps, Zenon
    <3> HIDE DEF e
    <3>2. Good(e, 0) /\ e.rx = d.rx /\ e.fh = d.fh /\ (Framed(d) => Framed(e))
      BY <3>1, Zenon DEF OwnDone
    <3>3. Settled(e, NoCall)
      BY <1>1, <1>4, <1>7, <3>1, <3>2, ReturnedEmpty, Zenon
    <3> QED BY <2>1, <2>4, <3>3, Zenon DEF e
  <2> QED BY <2>3, <2>4, Zenon
<1>8. CASE call.op = "read" /\ ok
  <2> DEFINE e == read_out(d, k, call.cap)
  <2>1. c' = e /\ call' = NoCall
    BY <1>8, Zenon DEF Resume, Return
  <2>2. d.s[k].ready # 0 \/ Has(d.s[k], "RECV_END") \/ d.s[k].err # "OK"
    BY <1>8, Zenon DEF Waited
  <2>3. call.cap \in Nat
    BY <1>1, CallIs, Zenon
  <2>4. ReadDone(e, d)
    <3> DEFINE cap == call.cap
    <3> HIDE DEF k, cap
    <3> QED BY <1>1, <1>2, <1>3, <1>4, <1>8, <2>2, <2>3, ReadOutKeeps, Zenon DEF cap
  <2> HIDE DEF e
  <2>5. Good(e, 0) /\ e.rx = d.rx /\ e.fh = d.fh /\ (Framed(d) => Framed(e)) /\ Potential(e) <= Room
    BY <2>4, Zenon DEF ReadDone
  <2>6. Settled(e, NoCall)
    BY <1>1, <1>4, <1>8, <2>5, Returned, Zenon
  <2> QED BY <2>1, <2>6, Zenon
<1>9. CASE call.op = "start" /\ ~ok
  <2>1. c' = d /\ call' = [NoCall EXCEPT !.op = "closed"]
    BY <1>9, Zenon DEF Resume
  <2>2. Settled(d, [NoCall EXCEPT !.op = "closed"])
    BY <1>1, <1>3, <1>9, Returned, Zenon
  <2> QED BY <2>1, <2>2, Zenon
<1>10. CASE (call.op = "start" /\ ok) \/ (call.op \in {"response", "read"} /\ ~ok)
  <2>1. c' = d /\ call' = NoCall
    BY <1>10, Zenon DEF Resume, Return
  <2>2. Settled(d, NoCall)
    BY <1>1, <1>3, <1>10, Returned, Zenon
  <2> QED BY <2>1, <2>2, Zenon
<1> QED BY <1>1, <1>5, <1>6, <1>7, <1>8, <1>9, <1>10, Zenon

\* One turn of the loop that sends a body.
LEMMA LeastIs ==
    ASSUME NEW S, NEW n, n = least(S), \E z \in S : \A v \in S : z <= v
    PROVE  n \in S /\ \A v \in S : n <= v
BY Zenon DEF least

LEMMA BodyDoneKeeps ==
    ASSUME Settled(c, call), call.op = "body", NEW w \in BOOLEAN, BodyDone(w)
    PROVE  Settled(c', call')
<1> DEFINE k == call.k  d == h2_flush(c, w)
<1>1. /\ Good(c, 0) /\ c.err = "OK" /\ k \in Slots /\ c.s[k].id # 0 /\ Framed(c) /\ Queue(c, "body", k)
  BY Zenon DEF Settled
<1>2. c.rx => c.fh = 0
  BY <1>1, Zenon DEF Queue
<1>3. /\ Good(d, 0) /\ d.tx = 0 /\ d.s = c.s /\ d.rx = c.rx /\ d.fh = c.fh /\ (Framed(c) => Framed(d))
  BY <1>1, FlushedIs, Zenon
<1>4. (IF d.err # "OK" \/ d.s[k].err # "OK" THEN c' = h2_release(Refused(d, k), k, w) ELSE c' = d)
      /\ call' = NoCall
  BY Zenon DEF BodyDone, Return
<1> HIDE DEF d, k
<1>5. Refused(d, k) = d
  BY <1>1, <1>3, RefusedIs, Zenon DEF Good
<1>6. Settled(d, NoCall)
  BY <1>1, <1>2, <1>3, ReturnedEmpty, Zenon
<1>7. Settled(h2_release(d, k, w), NoCall)
  <2>1. d.tx < TX
    BY <1>3, Consts
  <2>2. d.s[k].id # 0
    BY <1>1, <1>3, Zenon
  <2> QED BY <1>1, <1>2, <1>3, <2>1, <2>2, ReturnedReleased, Zenon
<1> QED BY <1>4, <1>5, <1>6, <1>7, Zenon

LEMMA BodyKeeps ==
    ASSUME Settled(c, call), NEW w \in BOOLEAN, Body(w)
    PROVE  Settled(c', call')
<1> DEFINE k == call.k  s == c.s[k]  room == TX - c.tx  n == least({call.left, room - 1, s.swin, c.cwin})
           f == h2_flush(c, w)
<1>1. call.op = "body"
  BY Zenon DEF Body
<1>2. /\ Good(c, 0) /\ c.err = "OK" /\ k \in Slots /\ s.id # 0 /\ Framed(c) /\ Queue(c, "body", k)
      /\ call \in CallType /\ Typed(c) /\ Simple(c)
  BY <1>1, Zenon DEF Settled, Good, Kept, Typed
<1>3. c.rx => c.fh = 0
  BY <1>2, Zenon DEF Queue
<1>4. /\ Good(f, 0) /\ f.tx = 0 /\ f.s = c.s /\ f.rx = c.rx /\ f.fh = c.fh /\ (Framed(c) => Framed(f))
      /\ f.err = IF c.tx # 0 /\ ~w /\ c.err = "OK" THEN "IO" ELSE c.err
  BY <1>2, FlushedIs, Zenon
<1>5. CASE call.left = 0 \/ BodyStopped(s)
  <2>1. BodyDone(w)
    BY <1>5, Zenon DEF Body
  <2> QED BY <1>1, <2>1, BodyDoneKeeps, Zenon
<1>6. CASE ~(call.left = 0 \/ BodyStopped(s)) /\ room < 2 /\ w
  <2>1. c' = f /\ call' = call
    BY <1>6, Zenon DEF Body
  <2>2. Queue(f, "body", k)
    BY <1>3, <1>4 DEF Queue
  <2> HIDE DEF f
  <2>3. Settled(f, call)
    BY <1>1, <1>2, <1>4, <1>6, <2>2, Zenon DEF Settled
  <2> QED BY <2>1, <2>3, Zenon
<1>7. CASE ~(call.left = 0 \/ BodyStopped(s)) /\ room < 2 /\ ~w
  <2>1. c' = h2_release(f, k, w) /\ call' = NoCall
    BY <1>7, Zenon DEF Body, Return
  <2>2. Settled(h2_release(f, k, w), NoCall)
    <3>1. f.tx < TX /\ f.s[k].id # 0
      BY <1>2, <1>4, Consts
    <3> HIDE DEF f, k
    <3> QED BY <1>2, <1>3, <1>4, <3>1, ReturnedReleased, Zenon
  <2> QED BY <2>1, <2>2, Zenon
<1>8. CASE ~(call.left = 0 \/ BodyStopped(s)) /\ ~(room < 2) /\ (s.swin <= 0 \/ c.cwin <= 0)
  <2> DEFINE z == [call EXCEPT !.op = "window"]
  <2>1. call' = z /\ c' = c
    BY <1>8, Zenon DEF Body
  <2>2. c.tx < TX
    <3>1. c.tx \in Nat /\ TX \in Nat
      BY <1>2, Consts, Zenon DEF Simple
    <3> QED BY <1>8, <3>1
  <2>3. Queue(c, "window", k)
    BY <1>3, <2>2, Consts DEF Queue
  <2>4. z \in CallType /\ z.op = "window" /\ z.k = k
    BY <1>2, CallIs, Zenon
  <2> HIDE DEF z
  <2>5. Settled(c, z)
    BY <1>2, <2>3, <2>4, Zenon DEF Settled
  <2> QED BY <2>1, <2>5, Zenon
<1>9. CASE ~(call.left = 0 \/ BodyStopped(s)) /\ ~(room < 2) /\ ~(s.swin <= 0 \/ c.cwin <= 0)
  <2> DEFINE last == n = call.left  e == DataSent(c, k, n, last)  z == [call EXCEPT !.left = @ - n]
  <2>1. c' = e /\ call' = z
    BY <1>9, Zenon DEF Body
  <2>2. s \in SlotType
    BY <1>2, SlotTyped, Zenon
  <2>3. call.left \in Nat /\ s.swin \in Int /\ c.cwin \in Int /\ room \in Int
    <3>1. call.left \in Nat
      BY <1>2, CallIs, Zenon
    <3>2. s.swin \in Int
      BY <2>2, Zenon DEF SlotType
    <3> QED BY <1>2, <3>1, <3>2, Consts DEF Simple
  <2>4. n \in {call.left, room - 1, s.swin, c.cwin} /\ n <= call.left /\ n <= room - 1 /\ n <= s.swin
    <3> DEFINE a == call.left  b == room - 1  x == s.swin  y == c.cwin
    <3>1. a \in Int /\ b \in Int /\ x \in Int /\ y \in Int
      BY <2>3
    <3>2. n = least({a, b, x, y})
      BY Zenon
    <3> DEFINE S == {a, b, x, y}
    <3> HIDE DEF a, b, x, y, n
    <3>3. \E m \in S : \A v \in S : m <= v
      BY <3>1
    <3>4. n = least(S)
      BY <3>2, Zenon
    <3>5. n \in S /\ \A v \in S : n <= v
      <4> HIDE DEF S
      <4> QED BY <3>3, <3>4, LeastIs, Zenon
    <3>6. n \in {a, b, x, y} /\ n <= a /\ n <= b /\ n <= x /\ n <= y
      BY <3>5, Zenon
    <3> QED BY <3>6, Zenon DEF a, b, x, y
  <2>5. n \in Nat
    <3> HIDE DEF n, room
    <3> QED BY <1>9, <2>3, <2>4
  <2>6. c.tx + 1 + n <= TX
    <3>1. c.tx \in Nat /\ TX \in Nat
      BY <1>2, Consts, Zenon DEF Simple
    <3> HIDE DEF n
    <3> QED BY <2>4, <2>5, <3>1
  <2>7. s.err = "OK" /\ ~Has(s, "SENT_END") /\ ~Has(s, "RST")
    BY <1>9, Zenon DEF BodyStopped
  <2>8. OwnDone(e, c)
    <3>1. last \in BOOLEAN
      BY Zenon
    <3> HIDE DEF n, last, k
    <3> QED BY <1>2, <2>4, <2>5, <2>6, <2>7, <3>1, DataKeeps, Zenon
  <2> HIDE DEF e
  <2>9. /\ Good(e, 0) /\ Named(e, c) /\ e.err = "OK" /\ e.rx = c.rx /\ e.fh = c.fh /\ (Framed(c) => Framed(e))
    BY <2>8, Zenon DEF OwnDone
  <2>10. z \in CallType /\ z.op = "body" /\ z.k = k
    <3> DEFINE m == call.left - n
    <3>1. m \in Nat
      <4> HIDE DEF n
      <4> QED BY <2>3, <2>4, <2>5
    <3>2. z = [call EXCEPT !.left = m]
      BY Zenon
    <3> HIDE DEF n, m, z
    <3> QED BY <1>1, <1>2, <3>1, <3>2, Zenon DEF CallType
  <2>11. Queue(e, "body", k)
    BY <1>3, <2>9 DEF Queue
  <2> HIDE DEF z
  <2>12. Settled(e, z)
    BY <1>2, <2>9, <2>10, <2>11, Zenon DEF Settled, Named
  <2> QED BY <2>1, <2>12, Zenon
<1> QED BY <1>5, <1>6, <1>7, <1>8, <1>9, Zenon

\* A turn that reads octets of a frame.
LEMMA StagedKeeps ==
    ASSUME NEW e, Good(e, 0), e.eof = "no", NEW staged \in BOOLEAN
    PROVE  LET z == [e EXCEPT !.rx = staged]
           IN  /\ Good(z, 0) /\ z.rx = staged /\ z.eof = "no" /\ z.err = e.err /\ z.s = e.s
               /\ z.tx = e.tx /\ z.fh = e.fh /\ (Framed(e) => Framed(z))
<1> DEFINE z == [e EXCEPT !.rx = staged]
<1>1. Kept(e) /\ Typed(e) /\ Shape(e) /\ Simple(e) /\ e.tx <= TX /\ ~e.fault
  BY Zenon DEF Good, Kept, Typed
<1>2. Shape(z) /\ Same(z, e, {"rx"}) /\ z.rx = staged
  BY <1>1, Zenon DEF Shape, Same, Fields
<1> HIDE DEF z
<1>3. /\ z.err = e.err /\ z.eof = e.eof /\ z.goaway = e.goaway /\ z.last_id = e.last_id
      /\ z.next_id = e.next_id /\ z.p_win = e.p_win /\ z.fs = e.fs /\ z.f = e.f /\ z.pos = e.pos
      /\ z.dat = e.dat /\ z.s = e.s /\ z.fh = e.fh /\ z.tx = e.tx /\ z.fault = e.fault
      /\ z.cwin = e.cwin /\ z.crwin = e.crwin /\ z.cpend = e.cpend
  BY <1>2, Zenon DEF Same, Fields
<1>4. Simple(z)
  BY <1>1, <1>2, <1>3, Zenon DEF Simple
<1>5. Typed(z)
  <2>1. Same(z, e, Scalars)
    BY <1>2, Zenon DEF Same, Scalars
  <2> QED BY <1>1, <1>2, <1>4, <2>1, TypedAfter, Zenon
<1>6. Good(z, 0)
  <2>1. Same(z, e, Neutral)
    BY <1>2, Zenon DEF Same, Neutral
  <2>2. ~z.fault /\ z.tx <= TX /\ (z.err = "OK" => e.err = "OK" /\ (z.eof # "no" => ~z.rx))
    BY <1>1, <1>3, Zenon
  <2> QED BY <1>5, <2>1, <2>2, NeutralKeeps, Zenon
<1>7. Framed(e) => Framed(z)
  BY <1>3, Zenon DEF Framed
<1> QED BY <1>2, <1>3, <1>6, <1>7, Zenon DEF z

\* A call that waits, and the queue left for what is staged.
Awaits(cl) == cl.op \in {"start", "response", "read", "window"}
LEMMA WaitsOn ==
    ASSUME NEW d, NEW e, NEW cl, Settled(d, cl), Awaits(cl), Good(e, 0),
           e.err = "OK" => /\ d.err = "OK" /\ e.eof = "no" /\ Named(e, d) /\ Framed(e)
                           /\ (e.rx /\ e.fh = 1 => e.tx + RESERVE <= TX)
                           /\ (e.rx /\ e.fh = 9 => e.tx + 3 <= TX)
    PROVE  Settled(e, cl)
<1>1. ASSUME e.err = "OK" PROVE Queue(e, cl.op, cl.k)
  BY <1>1, Zenon DEF Queue, Awaits
<1>2. ASSUME e.err = "OK", cl.op \in {"response", "read", "window", "body"} PROVE e.s[cl.k].id # 0
  <2>1. cl.k \in Slots /\ d.s[cl.k].id # 0
    BY <1>2, Zenon DEF Settled
  <2> QED BY <1>2, <2>1, Zenon DEF Named
<1> QED BY <1>1, <1>2, Zenon DEF Settled, Awaits

LEMMA CutsAre ==
    ASSUME NEW fr \in Frames \cup {NoFrame}, NEW p \in CutsOf(fr)
    PROVE  p \in Nat /\ p <= FrameEnd(fr)
<1>1. fr.len \in Nat /\ Len(fr.v) \in Nat
  BY FrameTyped, Zenon
<1>2. FrameEnd(fr) \in Nat
  BY <1>1, Zenon DEF FrameEnd
<1>3. p \in 0..FrameEnd(fr) \/ p = FrameEnd(fr)
  BY Zenon DEF CutsOf
<1> HIDE DEF FrameEnd
<1> QED BY <1>2, <1>3

\* There is room in the queue for what a turn that reads may answer.
Prepared(d) ==
    /\ d.err = "OK" /\ d.eof = "no"
    /\ d.fh = 9 => d.tx + 3 <= TX
    /\ d.fh # 9 => d.tx + RESERVE <= TX
LEMMA FeedKeeps ==
    ASSUME NEW d, Settled(d, call), Awaits(call), Prepared(d), Feed(d), call' = call,
           plan \in DOMAIN Plans, left \in Nat
    PROVE  Settled(c', call') /\ left' \in Nat
<1>1. /\ Good(d, 0) /\ Framed(d) /\ d.err = "OK" /\ d.eof = "no" /\ Typed(d) /\ Kept(d)
      /\ d.tx \in Nat /\ d.pos \in Nat /\ d.f \in Frames \cup {NoFrame}
  BY Zenon DEF Settled, Prepared, Good, Kept, Typed, Simple
<1>2. RESERVE \in Nat /\ RESERVE >= 4 /\ TX \in Nat
  BY Consts, Zenon
<1>3. PICK staged \in BOOLEAN :
        IF d.fh = 9
        THEN /\ \E p \in CutsOf(d.f) : p > d.pos /\ c' = [frame_fed(d, p) EXCEPT !.rx = staged]
             /\ UNCHANGED left
        ELSE \/ Script.cuts /\ d.fh = 0 /\ c' = [d EXCEPT !.fh = 1, !.rx = staged] /\ UNCHANGED left
             \/ \E fr \in Script.frames \cup Script.free :
                    /\ fr \in Script.frames => left > 0
                    /\ left' = IF fr \in Script.frames THEN left - 1 ELSE left
                    /\ \E p \in CutsOf(fr) :
                            c' = [frame_fed(h2_frame_start(d, fr), p) EXCEPT !.rx = staged]
  BY Zenon DEF Feed
<1>4. ASSUME NEW e, Good(e, 0), e.eof = "no",
             e.err = "OK" => /\ Named(e, d) /\ Framed(e) /\ e.fh \in {0, 9}
                             /\ (e.fh = 9 => e.tx + 3 <= TX),
             c' = [e EXCEPT !.rx = staged]
      PROVE  Settled(c', call')
  <2> DEFINE z == [e EXCEPT !.rx = staged]
  <2>2. /\ Good(z, 0) /\ z.rx = staged /\ z.eof = "no" /\ z.err = e.err /\ z.s = e.s
        /\ z.tx = e.tx /\ z.fh = e.fh /\ (Framed(e) => Framed(z))
    BY <1>4, StagedKeeps, Zenon
  <2> HIDE DEF z
  <2>3. z.err = "OK" => /\ d.err = "OK" /\ z.eof = "no" /\ Named(z, d) /\ Framed(z)
                        /\ (z.rx /\ z.fh = 1 => z.tx + RESERVE <= TX)
                        /\ (z.rx /\ z.fh = 9 => z.tx + 3 <= TX)
    BY <1>1, <1>4, <2>2 DEF Named
  <2>4. Settled(z, call)
    BY <2>2, <2>3, WaitsOn, Zenon
  <2> QED BY <1>4, <2>4, Zenon DEF z
<1>5. CASE d.fh = 9
  <2>1. PICK p \in CutsOf(d.f) : p > d.pos /\ c' = [frame_fed(d, p) EXCEPT !.rx = staged] /\ left' = left
    BY <1>3, <1>5, Zenon
  <2>2. p \in Nat /\ p <= FrameEnd(d.f)
    BY <1>1, CutsAre, Zenon
  <2>3. d.tx + 3 <= TX
    BY <1>5, Zenon DEF Prepared
  <2> DEFINE e == frame_fed(d, p)
  <2>4. Fed(e, d)
    <3>1. d.pos <= p
      BY <1>1, <2>1, <2>2
    <3> QED BY <1>1, <1>5, <2>2, <2>3, <3>1, FedKeeps, Zenon
  <2>5. c' = [e EXCEPT !.rx = staged]
    BY <2>1, Zenon
  <2> HIDE DEF e
  <2>6. Good(e, 0) /\ e.eof = "no"
    BY <1>1, <2>4, Zenon DEF Fed
  <2>7. e.err = "OK" => /\ Named(e, d) /\ Framed(e) /\ e.fh \in {0, 9}
                        /\ (e.fh = 9 => e.tx + 3 <= TX)
    BY <2>3, <2>4, Zenon DEF Fed
  <2> QED BY <1>4, <2>1, <2>5, <2>6, <2>7, Zenon
<1>6. CASE d.fh # 9 /\ c' = [d EXCEPT !.fh = 1, !.rx = staged] /\ d.fh = 0 /\ left' = left
  <2> DEFINE e == [d EXCEPT !.fh = 1]  z == [e EXCEPT !.rx = staged]
  <2>1. Shape(d) /\ Simple(d) /\ d.tx <= TX /\ ~d.fault /\ Conn(d)
    BY <1>1, Zenon DEF Good, Kept, Typed
  <2>2. Shape(e) /\ Same(e, d, {"fh"}) /\ e.fh = 1
    BY <2>1, Zenon DEF Shape, Same, Fields
  <2>3. c' = z
    <3>1. [d EXCEPT !.fh = 1, !.rx = staged] = [[d EXCEPT !.fh = 1] EXCEPT !.rx = staged]
      BY <2>1, Zenon DEF Shape
    <3> QED BY <1>6, <3>1, Zenon
  <2> HIDE DEF e
  <2>4. /\ e.err = d.err /\ e.eof = d.eof /\ e.tx = d.tx /\ e.s = d.s /\ e.fault = d.fault
        /\ e.rx = d.rx /\ e.f = d.f /\ e.pos = d.pos /\ e.dat = d.dat /\ e.fs = d.fs
    BY <2>2, Zenon DEF Same, Fields
  <2>5. Typed(e)
    <3>1. Same(e, d, Untyped)
      BY <2>2, Zenon DEF Same, Untyped
    <3> QED BY <1>1, <2>2, <3>1, TypedSame, Zenon
  <2>6. Good(e, 0)
    <3>1. Same(e, d, Neutral)
      BY <2>2, Zenon DEF Same, Neutral, Untyped
    <3>2. ~e.fault /\ e.tx <= TX /\ (e.err = "OK" => d.err = "OK" /\ (e.eof # "no" => ~e.rx))
      BY <1>1, <2>1, <2>4, Zenon
    <3> QED BY <1>1, <2>5, <3>1, <3>2, NeutralKeeps, Zenon
  <2>7. Framed(e)
    BY <1>1, <1>6, <2>2, <2>4, Zenon DEF Framed
  <2>8. /\ Good(z, 0) /\ z.rx = staged /\ z.eof = "no" /\ z.err = e.err /\ z.s = e.s
        /\ z.tx = e.tx /\ z.fh = e.fh /\ (Framed(e) => Framed(z))
    BY <1>1, <2>4, <2>6, StagedKeeps, Zenon
  <2> HIDE DEF z
  <2>9. d.tx + RESERVE <= TX
    BY <1>6, Zenon DEF Prepared
  <2>10. z.err = "OK" => /\ d.err = "OK" /\ z.eof = "no" /\ Named(z, d) /\ Framed(z)
                         /\ (z.rx /\ z.fh = 1 => z.tx + RESERVE <= TX)
                         /\ (z.rx /\ z.fh = 9 => z.tx + 3 <= TX)
    BY <1>1, <2>2, <2>4, <2>7, <2>8, <2>9 DEF Named
  <2>11. Settled(z, call)
    BY <2>8, <2>10, WaitsOn, Zenon
  <2> QED BY <1>6, <2>3, <2>11, Zenon
<1>7. ASSUME d.fh # 9, NEW fr \in Script.frames \cup Script.free,
             fr \in Script.frames => left > 0,
             left' = IF fr \in Script.frames THEN left - 1 ELSE left,
             NEW p \in CutsOf(fr), c' = [frame_fed(h2_frame_start(d, fr), p) EXCEPT !.rx = staged]
      PROVE  Settled(c', call') /\ left' \in Nat
  <2>1. fr \in Frames
    BY PlansAssumption, Zenon DEF Script
  <2>2. left' \in Nat
    BY <1>7
  <2> DEFINE r == h2_frame_start(d, fr)  e == frame_fed(r, p)
  <2>3. Between(d)
    BY <1>1, <1>7, Zenon DEF Between, Framed
  <2>4. d.tx + RESERVE <= TX
    BY <1>7, Zenon DEF Prepared
  <2>5. StartDone(r, d, fr)
    <3>1. d.tx < TX
      BY <1>1, <1>2, <2>4
    <3> QED BY <2>1, <2>3, <3>1, FrameStartKeeps, Zenon
  <2>6. c' = [e EXCEPT !.rx = staged]
    BY <1>7, Zenon
  <2>7. p \in Nat /\ p <= FrameEnd(fr)
    BY <2>1, CutsAre, Zenon
  <2> HIDE DEF r
  <2>8. /\ Good(r, 0) /\ r.tx <= d.tx + 1 /\ r.f = fr /\ r.pos = 0 /\ r.fh = 9 /\ r.eof = d.eof
        /\ Named(r, d) /\ (r.err # "OK" => r.fs = 0)
    BY <2>5, Zenon DEF StartDone
  <2>9. r.tx \in Nat
    BY <2>8, Zenon DEF Good, Kept, Typed, Simple
  <2>10. r.tx + 3 <= TX
    BY <1>1, <1>2, <2>4, <2>8, <2>9
  <2>11. Fed(e, r)
    <3>1. r.pos <= p /\ p <= FrameEnd(r.f)
      BY <2>7, <2>8
    <3> QED BY <2>7, <2>8, <2>10, <3>1, FedKeeps, Zenon
  <2> HIDE DEF e
  <2>12. Good(e, 0) /\ e.eof = "no"
    BY <1>1, <2>8, <2>11, Zenon DEF Fed
  <2>13. e.err = "OK" => /\ Named(e, d) /\ Framed(e) /\ e.fh \in {0, 9}
                         /\ (e.fh = 9 => e.tx + 3 <= TX)
    BY <2>8, <2>10, <2>11, Zenon DEF Fed, Named
  <2> QED BY <1>4, <2>2, <2>6, <2>12, <2>13, Zenon
<1> QED BY <1>3, <1>5, <1>6, <1>7, Zenon

\* The turns of h2_wait.  A call that waits finds its stream and the room its return needs.
LEMMA WaitedEmpty ==
    ASSUME NEW d, NEW ok \in BOOLEAN, Good(d, 0), call \in CallType, Awaits(call),
           call.op \in {"response", "read", "window"} => call.k \in Slots,
           d.err = "OK" => /\ Framed(d) /\ d.tx = 0 /\ (d.rx => d.fh = 0)
                           /\ call.op \in {"response", "read", "window"} => d.s[call.k].id # 0,
           ok => d.err = "OK" /\ Cond(d)
    PROVE  Waited(d, call, ok)
<1>1. d.err = "OK" => Potential(d) <= Room
  BY EmptyRoom, Zenon
<1>2. d.err = "OK" => d.tx < TX
  BY Consts
<1>3. ok => /\ call.op = "response" => Has(d.s[call.k], "FINAL") \/ d.s[call.k].err # "OK"
            /\ call.op = "read" => \/ d.s[call.k].ready # 0 \/ Has(d.s[call.k], "RECV_END")
                                   \/ d.s[call.k].err # "OK"
  BY Zenon DEF Cond
<1> QED BY <1>1, <1>2, <1>3, Zenon DEF Waited, Awaits

LEMMA CallWaits ==
    ASSUME Settled(c, call), Waiting
    PROVE  /\ Good(c, 0) /\ call \in CallType /\ Awaits(call)
           /\ (call.op \in {"response", "read", "window"} => call.k \in Slots)
           /\ c.err = "OK" =>
                 /\ Framed(c) /\ Queue(c, call.op, call.k) /\ Conn(c)
                 /\ call.op \in {"response", "read", "window"} => c.s[call.k].id # 0
BY Zenon DEF Settled, Waiting, Awaits, Good

LEMMA FlushWaits ==
    ASSUME Settled(c, call), Waiting, NEW w \in BOOLEAN
    PROVE  LET d == h2_flush(c, w)
           IN  /\ Good(d, 0) /\ d.tx = 0 /\ d.s = c.s /\ d.rx = c.rx /\ d.fh = c.fh /\ d.eof = c.eof
               /\ (c.err = "OK" /\ (c.rx => c.fh = 0) => Waited(d, call, FALSE))
               /\ (c.err # "OK" => d.err # "OK" /\ Waited(d, call, FALSE))
               /\ (d.err = "OK" /\ (c.rx => c.fh = 0) => Settled(d, call))
<1> DEFINE d == h2_flush(c, w)
<1>1. /\ Good(c, 0) /\ call \in CallType /\ Awaits(call)
      /\ (call.op \in {"response", "read", "window"} => call.k \in Slots)
      /\ c.err = "OK" =>
            /\ Framed(c) /\ Queue(c, call.op, call.k)
            /\ call.op \in {"response", "read", "window"} => c.s[call.k].id # 0
  BY CallWaits, Zenon
<1>2. /\ Good(d, 0) /\ d.tx = 0 /\ d.s = c.s /\ d.rx = c.rx /\ d.fh = c.fh /\ d.eof = c.eof
      /\ (Framed(c) => Framed(d)) /\ d.err = IF c.tx # 0 /\ ~w /\ c.err = "OK" THEN "IO" ELSE c.err
  BY <1>1, FlushedIs, Zenon
<1> HIDE DEF d
<1>3. ASSUME c.err = "OK" => (c.rx => c.fh = 0) PROVE Waited(d, call, FALSE)
  <2>1. d.err = "OK" => /\ Framed(d) /\ d.tx = 0 /\ (d.rx => d.fh = 0)
                        /\ call.op \in {"response", "read", "window"} => d.s[call.k].id # 0
    BY <1>1, <1>2, <1>3, Zenon
  <2> QED BY <1>1, <1>2, <2>1, WaitedEmpty, Zenon
<1>4. ASSUME d.err = "OK", c.rx => c.fh = 0 PROVE Settled(d, call)
  <2>1. c.err = "OK" /\ Framed(d) /\ (d.rx => d.fh = 0)
    BY <1>1, <1>2, <1>4, Zenon
  <2>2. Queue(d, call.op, call.k)
    <3>1. Potential(d) <= Room /\ d.tx < TX
      BY <1>2, <1>4, EmptyRoom, Consts
    <3> QED BY <2>1, <3>1 DEF Queue
  <2> QED BY <1>1, <1>2, <2>1, <2>2, Zenon DEF Settled, Awaits
<1>5. c.err # "OK" => d.err # "OK"
  BY <1>2, Zenon
<1> QED BY <1>2, <1>3, <1>4, <1>5, Zenon DEF d

LEMMA WaitFailedKeeps ==
    ASSUME Settled(c, call), NEW w \in BOOLEAN, WaitFailed(w)
    PROVE  Settled(c', call')
<1> DEFINE d == h2_flush(c, w)
<1>1. Waiting /\ c.err # "OK" /\ Resume(d, FALSE, w)
  BY Zenon DEF WaitFailed
<1>2. Waited(d, call, FALSE)
  BY <1>1, FlushWaits, Zenon
<1> HIDE DEF d
<1> QED BY <1>1, <1>2, ResumeKeeps, Zenon

LEMMA WaitMetKeeps ==
    ASSUME Settled(c, call), NEW w \in BOOLEAN, WaitMet(w)
    PROVE  Settled(c', call')
<1> DEFINE d == h2_flush(c, w)  ok == c.tx = 0 \/ w
<1>1. Waiting /\ c.err = "OK" /\ c.fh = 0 /\ Cond(c) /\ Resume(d, ok, w)
  BY Zenon DEF WaitMet, Met, Flushed
<1>2. ok \in BOOLEAN
  BY Zenon
<1>3. /\ Good(c, 0) /\ call \in CallType /\ Awaits(call)
      /\ (call.op \in {"response", "read", "window"} => call.k \in Slots)
      /\ Framed(c) /\ (call.op \in {"response", "read", "window"} => c.s[call.k].id # 0)
  BY <1>1, CallWaits, Zenon
<1>4. /\ Good(d, 0) /\ d.tx = 0 /\ d.s = c.s /\ d.rx = c.rx /\ d.fh = c.fh
      /\ d.cwin = c.cwin /\ d.got_settings = c.got_settings
      /\ (Framed(c) => Framed(d)) /\ d.err = IF c.tx # 0 /\ ~w /\ c.err = "OK" THEN "IO" ELSE c.err
  BY <1>3, FlushedIs, Zenon
<1>5. ok => d.err = "OK"
  BY <1>1, <1>4, Zenon
<1>6. Waited(d, call, ok)
  <2>1. Cond(d)
    BY <1>1, <1>4, Zenon DEF Cond
  <2> HIDE DEF d, ok
  <2> QED BY <1>1, <1>2, <1>3, <1>4, <1>5, <2>1, WaitedEmpty, Zenon
<1> HIDE DEF d, ok
<1> QED BY <1>1, <1>2, <1>6, ResumeKeeps, Zenon

LEMMA WaitEndedKeeps ==
    ASSUME Settled(c, call), NEW w \in BOOLEAN, WaitEnded(w)
    PROVE  Settled(c', call')
<1>1. Waiting /\ c.err = "OK" /\ c.eof # "no" /\ Resume(c, FALSE, w)
  BY Zenon DEF WaitEnded
<1>2. /\ Good(c, 0) /\ call \in CallType /\ Awaits(call)
      /\ (call.op \in {"response", "read", "window"} => call.k \in Slots)
      /\ Framed(c) /\ Queue(c, call.op, call.k) /\ Conn(c)
      /\ (call.op \in {"response", "read", "window"} => c.s[call.k].id # 0)
  BY <1>1, CallWaits, Zenon
<1>3. ~c.rx
  BY <1>1, <1>2, Zenon DEF Conn
<1>4. IF call.op = "window"
      THEN Has(c.s[call.k], "RST") \/ BothEnds(c.s[call.k]) => c.tx < TX
      ELSE Potential(c) <= Room
  BY <1>1, <1>2, Zenon DEF Queue, Awaits
<1>5. Waited(c, call, FALSE)
  BY <1>2, <1>3, <1>4, Zenon DEF Waited, Awaits
<1> QED BY <1>1, <1>5, ResumeKeeps, Zenon

LEMMA WaitFeedKeeps ==
    ASSUME Settled(c, call), NEW w \in BOOLEAN, WaitFeed(w), plan \in DOMAIN Plans, left \in Nat
    PROVE  Settled(c', call') /\ left' \in Nat
<1> DEFINE d == h2_flush(c, w)
<1>1. /\ Waiting /\ c.err = "OK" /\ c.eof = "no" /\ c.rx
      /\ IF c.fh = 0 /\ TX - c.tx < RESERVE
         THEN left' = left /\ IF w THEN c' = d /\ call' = call ELSE Resume(d, FALSE, w)
         ELSE Feed(c) /\ call' = call
  BY Zenon DEF WaitFeed, Reading
<1>2. Good(c, 0) /\ Awaits(call) /\ Framed(c) /\ Queue(c, call.op, call.k)
  BY <1>1, CallWaits, Zenon
<1>3. CASE c.fh = 0 /\ TX - c.tx < RESERVE /\ w
  <2>1. d.err = "OK"
    BY <1>1, <1>2, <1>3, FlushedIs, Zenon
  <2>2. Settled(d, call)
    BY <1>1, <1>3, <2>1, FlushWaits, Zenon
  <2> QED BY <1>1, <1>3, <2>2, Zenon
<1>4. CASE c.fh = 0 /\ TX - c.tx < RESERVE /\ ~w
  <2>1. Waited(d, call, FALSE)
    BY <1>1, <1>4, FlushWaits, Zenon
  <2> HIDE DEF d
  <2> QED BY <1>1, <1>4, <2>1, ResumeKeeps, Zenon
<1>5. CASE ~(c.fh = 0 /\ TX - c.tx < RESERVE)
  <2>1. c.tx \in Nat /\ TX \in Nat /\ RESERVE \in Nat
    BY <1>2, Consts, Zenon DEF Good, Kept, Typed, Simple
  <2>2. c.fh \in {0, 1, 9}
    BY <1>2, Zenon DEF Framed
  <2>3. (c.fh = 9 => c.tx + 3 <= TX) /\ (c.fh = 1 => c.tx + RESERVE <= TX)
    BY <1>1, <1>2, Zenon DEF Queue
  <2>4. c.fh = 0 => c.tx + RESERVE <= TX
    BY <1>5, <2>1
  <2>5. Prepared(c)
    BY <1>1, <2>2, <2>3, <2>4, Zenon DEF Prepared
  <2> QED BY <1>1, <1>2, <1>5, <2>5, FeedKeeps, Zenon
<1> QED BY <1>3, <1>4, <1>5, Zenon

LEMMA WaitReadKeeps ==
    ASSUME Settled(c, call), NEW w \in BOOLEAN, WaitRead(w), plan \in DOMAIN Plans, left \in Nat
    PROVE  Settled(c', call') /\ left' \in Nat
<1> DEFINE d == h2_flush(c, w)
           e == [d EXCEPT !.eof = IF d.goaway_err THEN "PEER_ALERT" ELSE "IO"]
<1>1. /\ Waiting /\ c.err = "OK" /\ c.eof = "no" /\ ~c.rx
      /\ IF d.err # "OK" THEN Resume(d, FALSE, w) /\ left' = left
         ELSE \/ Feed(d) /\ call' = call
              \/ Resume(d, FALSE, w) /\ left' = left
              \/ c' = e /\ call' = call /\ left' = left
  BY Zenon DEF WaitRead, Reading
<1>2. /\ Good(d, 0) /\ d.tx = 0 /\ d.s = c.s /\ d.rx = c.rx /\ d.fh = c.fh /\ d.eof = c.eof
      /\ Waited(d, call, FALSE) /\ (d.err = "OK" => Settled(d, call))
  BY <1>1, FlushWaits, Zenon
<1>3. Awaits(call)
  BY <1>1, CallWaits, Zenon
<1> HIDE DEF d
<1>4. CASE Resume(d, FALSE, w) /\ left' = left
  BY <1>2, <1>4, ResumeKeeps, Zenon
<1>5. CASE d.err = "OK" /\ Feed(d) /\ call' = call
  <2>1. Prepared(d)
    <3>1. RESERVE \in Nat /\ TX \in Nat /\ RESERVE >= 4 /\ TX >= 4 * N + RESERVE /\ N \in Nat
      BY Consts, Zenon
    <3> QED BY <1>1, <1>2, <1>5, <3>1 DEF Prepared
  <2> QED BY <1>2, <1>3, <1>5, <2>1, FeedKeeps, Zenon
<1>6. CASE d.err = "OK" /\ c' = e /\ call' = call /\ left' = left
  <2>1. /\ Settled(d, call) /\ Kept(d) /\ Typed(d) /\ Shape(d) /\ d.tx <= TX /\ ~d.fault
    BY <1>2, <1>6, Zenon DEF Good, Kept, Typed
  <2>2. Shape(e) /\ Same(e, d, {"eof"})
    BY <2>1, Zenon DEF Shape, Same, Fields
  <2> HIDE DEF e
  <2>3. /\ e.err = d.err /\ e.rx = d.rx /\ e.tx = d.tx /\ e.fault = d.fault /\ e.s = d.s /\ e.fh = d.fh
        /\ e.f = d.f /\ e.pos = d.pos /\ e.dat = d.dat /\ e.fs = d.fs
    BY <2>2, Zenon DEF Same, Fields
  <2>4. Typed(e)
    <3>1. Same(e, d, Untyped)
      BY <2>2, Zenon DEF Same, Untyped
    <3> QED BY <2>1, <2>2, <3>1, TypedSame, Zenon
  <2>5. Good(e, 0)
    <3>1. Same(e, d, Neutral)
      BY <2>2, Zenon DEF Same, Neutral, Untyped
    <3>2. ~e.fault /\ e.tx <= TX /\ (e.err = "OK" => d.err = "OK" /\ (e.eof # "no" => ~e.rx))
      BY <1>1, <1>2, <2>1, <2>3, Zenon
    <3> QED BY <1>2, <2>4, <3>1, <3>2, NeutralKeeps, Zenon
  <2>6. Framed(e)
    <3>1. Framed(d)
      BY <1>6, <2>1, Zenon DEF Settled
    <3> QED BY <2>3, <3>1, Zenon DEF Framed
  <2>7. Queue(e, call.op, call.k)
    <3>1. Potential(e) <= Room /\ e.tx < TX
      BY <1>2, <1>6, <2>3, <2>5, EmptyRoom, Consts
    <3>2. ~e.rx
      BY <1>1, <1>2, <2>3, Zenon
    <3> QED BY <3>1, <3>2, Zenon DEF Queue
  <2>8. Settled(e, call)
    BY <1>3, <1>6, <2>1, <2>3, <2>5, <2>6, <2>7, Zenon DEF Settled, Awaits
  <2> QED BY <1>6, <2>8, Zenon
<1> QED BY <1>1, <1>4, <1>5, <1>6, Zenon

-----------------------------------------------------------------------------
(* The application *)

\* A new connection.
LEMMA SetupTyped == Typed(setup) /\ setup.s = [k \in Slots |-> Slot0] /\ setup.g = History0
<1>1. Shape(setup)
  BY Zenon DEF Shape, Fields, setup
<1>2. /\ {WIN0, TX, MAXWIN, N} \subseteq Nat /\ CONN_WIN \in Nat /\ TABLE0 \in Nat
  BY Consts, Zenon
<1>3. setup.s = [k \in Slots |-> Slot0] /\ setup.s \in [Slots -> SlotType]
  <2> HIDE DEF Slot0, SlotType
  <2> QED BY Slot0Typed, Zenon DEF setup
<1>4. setup.b \in BlockType
  <2>1. Block0 \in BlockType
    <3> DEFINE R == Representations
    <3>1. <<>> \in Seq(R)
      <4> HIDE DEF R
      <4> QED OBVIOUS
    <3> HIDE DEF R
    <3> QED BY <1>2, <3>1 DEF Block0, BlockType, R
  <2> QED BY <2>1, Zenon DEF setup
<1>5. setup.g = History0 /\ PastTyped(History0)
  <2>1. Stream0 \in StreamType
    BY Zenon DEF Stream0, StreamType
  <2>2. History0 = [x \in Past |-> History0[x]]
    BY Zenon DEF History0, Past
  <2>3. History0.st \in [Ids -> StreamType]
    <3> HIDE DEF Stream0, StreamType
    <3> QED BY <2>1, Zenon DEF History0
  <2> QED BY <1>2, <2>2, <2>3 DEF PastTyped, History0, setup
<1>6. setup.enc \in [cur : Nat, pending : BOOLEAN]
  BY <1>2, Zenon DEF setup, hpack_enc_init
<1>7. setup.f \in Frames \cup {NoFrame}
  BY Zenon DEF setup
<1>8. Simple(setup)
  BY <1>2 DEF Simple, setup
<1> QED BY <1>1, <1>3, <1>4, <1>5, <1>6, <1>7, <1>8, Zenon DEF Typed

LEMMA SetupHolds == Held(setup) = 0 /\ SumFunctionOnSet(Owed(setup), Slots) = 0
<1>1. IsFiniteSet(Slots) /\ Cardinality(Slots) \in Nat
  BY Consts, FS_CardinalityType, Zenon
<1> DEFINE h == [k \in Slots |-> Unread(setup, k) + Coming(setup, k)]  o == Owed(setup)
<1>2. \A k \in Slots : h[k] = 0 /\ o[k] = 0
  BY SetupTyped, Consts DEF Unread, Coming, Slot0, Owed, setup
<1>3. \A f : (\A k \in Slots : f[k] = 0) => SumFunctionOnSet(f, Slots) = 0
  <2> TAKE f
  <2> HAVE \A k \in Slots : f[k] = 0
  <2>1. \A k \in Slots : f[k] \in Nat /\ f[k] <= 0
    OBVIOUS
  <2> HIDE DEF Slots
  <2>2. SumFunctionOnSet(f, Slots) \in Nat /\ SumFunctionOnSet(f, Slots) <= 0 * Cardinality(Slots)
    BY <1>1, <2>1, SumAtMost, Zenon
  <2> QED BY <1>1, <2>2
<1>4. SumFunctionOnSet(h, Slots) = 0 /\ SumFunctionOnSet(o, Slots) = 0
  <2> HIDE DEF h, o, Slots
  <2> QED BY <1>2, <1>3, Zenon
<1> QED BY <1>4, Zenon DEF Held

LEMMA SetupGood ==
    /\ Good(setup, 0) /\ setup.err = "OK" /\ Framed(setup) /\ Potential(setup) <= Room
    /\ setup.rx = FALSE /\ setup.eof = "no"
<1>1. Typed(setup) /\ setup.s = [k \in Slots |-> Slot0] /\ setup.g = History0
  BY SetupTyped, Zenon
<1>2. /\ setup.err = "OK" /\ setup.eof = "no" /\ setup.rx = FALSE /\ setup.fh = 0 /\ setup.f = NoFrame
      /\ setup.pos = 0 /\ setup.dat = 0 /\ setup.fs = 0 /\ setup.tx = 2 /\ ~setup.fault
      /\ setup.b = Block0 /\ setup.enc = hpack_enc_init /\ ~setup.goaway /\ setup.next_id = 1
      /\ setup.crwin = CONN_WIN /\ setup.cpend = 0
  BY Zenon DEF setup
<1>3. /\ \A k \in Slots : setup.s[k] = Slot0
      /\ \A i \in Ids : setup.g.st[i] = Stream0
      /\ setup.g.wire /\ setup.g.extra = 0 /\ setup.g.believed = TABLE0 /\ setup.g.low = TABLE0
  BY <1>1 DEF History0
<1>4. /\ CREDIT \in Nat \ {0} /\ TX >= 8 /\ TX \in Nat /\ CONN_WIN \in Nat
  BY Consts
<1>5. Held(setup) = 0 /\ SumFunctionOnSet(Owed(setup), Slots) = 0
  BY SetupHolds, Zenon
<1> HIDE DEF setup
<1>6. Kept(setup)
  BY <1>1, <1>2, <1>3, <1>4 DEF Kept, Slot0, Stream0
<1>7. Conn(setup)
  <2>1. Distinct(setup)
    BY <1>3 DEF Distinct, Slot0
  <2>2. Fresh(setup)
    BY <1>2, <1>3 DEF Fresh, Stream0
  <2>3. Concluded(setup)
    BY <1>3 DEF Concluded, Stream0
  <2>4. Sum(setup)
    BY <1>2, <1>3, <1>4, <1>5 DEF Sum
  <2>5. Taking(setup) /\ InBlock(setup) /\ Told(setup) /\ Encoding(setup)
    BY <1>2, <1>3 DEF Taking, InBlock, Told, Encoding, Block0, NoFrame, hpack_enc_init
  <2> QED BY <1>2, <1>3, <2>1, <2>2, <2>3, <2>4, <2>5, Zenon DEF Conn
<1>8. Owing(setup, 0) /\ \A k \in Slots : SlotOK(setup, k)
  BY <1>2, <1>3, <1>4 DEF Owing, Paid, SlotOK, Slot0
<1>9. Framed(setup)
  BY <1>2, Zenon DEF Framed
<1>10. Potential(setup) <= Room
  <2>1. Capped(0) = 0
    BY <1>4 DEF Capped
  <2>2. Room \in Nat /\ Room >= 3 * CREDIT
    BY RoomIs, Zenon
  <2>3. Potential(setup) = CREDIT * 2 + 0 + 0
    BY <1>2, <1>5, <2>1, Zenon DEF Potential
  <2> HIDE DEF Room, CREDIT
  <2> QED BY <1>4, <2>2, <2>3
<1> QED BY <1>2, <1>6, <1>7, <1>8, <1>9, <1>10, Zenon DEF Good

\* The call is over, or a new one takes its place.
LEMMA Idles ==
    ASSUME NEW d, Settled(d, NoCall), NEW cl \in CallType, cl.op = "none"
    PROVE  Settled(d, cl)
<1>1. NoCall.op = "none" /\ Good(d, 0)
  BY NoCallIs, Zenon DEF Settled
<1>2. d.err = "OK" => Framed(d) /\ Queue(d, "none", NoCall.k)
  BY <1>1, Zenon DEF Settled
<1>3. d.err = "OK" => Queue(d, "none", cl.k)
  BY <1>2, Zenon DEF Queue
<1> QED BY <1>1, <1>2, <1>3, Zenon DEF Settled

\* What the state is between two calls.
LEMMA AtRest ==
    ASSUME Settled(c, call), call.op = "none"
    PROVE  /\ Good(c, 0) /\ call \in CallType
           /\ c.err = "OK" => Framed(c) /\ Potential(c) <= Room /\ (c.rx => c.fh = 0)
BY Zenon DEF Settled, Queue

\* A call that starts waiting counts the frames without progress from 0.
LEMMA WaitBegins ==
    ASSUME Settled(c, call), call.op = "none", NEW cl \in CallType,
           cl.op \in {"start", "response", "read"},
           cl.op # "start" => cl.k \in Slots /\ c.s[cl.k].id # 0
    PROVE  Settled([c EXCEPT !.idle = 0], cl)
<1> DEFINE e == [c EXCEPT !.idle = 0]
<1>1. /\ Good(c, 0) /\ Typed(c) /\ Kept(c) /\ Shape(c) /\ c.tx <= TX /\ ~c.fault
      /\ c.err = "OK" => Framed(c) /\ Potential(c) <= Room /\ (c.rx => c.fh = 0) /\ Conn(c)
  BY AtRest, Zenon DEF Good, Kept, Typed
<1>2. Shape(e) /\ Same(e, c, {"idle"})
  BY <1>1, Zenon DEF Shape, Same, Fields
<1> HIDE DEF e
<1>3. /\ e.err = c.err /\ e.eof = c.eof /\ e.rx = c.rx /\ e.tx = c.tx /\ e.fault = c.fault /\ e.s = c.s
      /\ e.fh = c.fh /\ e.f = c.f /\ e.pos = c.pos /\ e.dat = c.dat /\ e.fs = c.fs /\ e.cpend = c.cpend
  BY <1>2, Zenon DEF Same, Fields
<1>4. Typed(e)
  <2>1. Same(e, c, Untyped)
    BY <1>2, Zenon DEF Same, Untyped
  <2> QED BY <1>1, <1>2, <2>1, TypedSame, Zenon
<1>5. Good(e, 0)
  <2>1. Same(e, c, Neutral)
    BY <1>2, Zenon DEF Same, Neutral, Untyped
  <2>2. ~e.fault /\ e.tx <= TX /\ (e.err = "OK" => c.err = "OK" /\ (e.eof # "no" => ~e.rx))
    BY <1>1, <1>3, Zenon DEF Conn
  <2> QED BY <1>1, <1>4, <2>1, <2>2, NeutralKeeps, Zenon
<1>6. e.err = "OK" => Framed(e) /\ Potential(e) <= Room /\ (e.rx => e.fh = 0)
  <2>1. Framed(c) => Framed(e)
    BY <1>3, Zenon DEF Framed
  <2>2. Potential(e) = Potential(c)
    BY <1>3, Zenon DEF Potential, Owed
  <2> QED BY <1>1, <1>3, <2>1, <2>2, Zenon
<1>7. e.err = "OK" => Queue(e, cl.op, cl.k)
  BY <1>6 DEF Queue
<1>8. Settled(e, cl)
  BY <1>3, <1>5, <1>6, <1>7, Zenon DEF Settled
<1> QED BY <1>8, Zenon DEF e

LEMMA StartCallKeeps ==
    ASSUME Settled(c, call), Start
    PROVE  Settled(c', call')
<1> DEFINE cl == [NoCall EXCEPT !.op = "start"]
<1>1. call.op = "none" /\ c' = [c EXCEPT !.idle = 0] /\ call' = cl
  BY Zenon DEF Start
<1>2. cl \in CallType /\ cl.op = "start"
  BY NoCallIs, Zenon
<1> HIDE DEF cl
<1> QED BY <1>1, <1>2, WaitBegins, Zenon

LEMMA ResponseCallKeeps ==
    ASSUME Settled(c, call), NEW k \in Slots, Response(k)
    PROVE  Settled(c', call')
<1> DEFINE cl == [NoCall EXCEPT !.op = "response", !.k = k]
<1>1. call.op = "none" /\ c.s[k].id # 0 /\ c' = [c EXCEPT !.idle = 0] /\ call' = cl
  BY Zenon DEF Response
<1>2. cl \in CallType /\ cl.op = "response" /\ cl.k = k
  <2>1. k \in 0..N
    BY Consts
  <2> QED BY <2>1, Zenon DEF NoCall, CallType
<1> HIDE DEF cl
<1> QED BY <1>1, <1>2, WaitBegins, Zenon

LEMMA ReadCallKeeps ==
    ASSUME Settled(c, call), NEW k \in Slots, NEW cap \in Nat, Read(k, cap)
    PROVE  Settled(c', call')
<1> DEFINE cl == [op |-> "read", k |-> k, left |-> 0, cap |-> cap]  e == read_out(c, k, cap)
<1>1. /\ call.op = "none" /\ c.s[k].id # 0 /\ c.err = "OK"
      /\ IF c.s[k].ready = 0 /\ ~Has(c.s[k], "RECV_END") /\ c.s[k].err = "OK"
         THEN c' = [c EXCEPT !.idle = 0] /\ call' = cl
         ELSE c' = e /\ call' = call
  BY Zenon DEF Read
<1>2. CASE c.s[k].ready = 0 /\ ~Has(c.s[k], "RECV_END") /\ c.s[k].err = "OK"
  <2>1. cl \in CallType /\ cl.op = "read" /\ cl.k = k
    <3>1. k \in 0..N
      BY Consts
    <3> QED BY <3>1, Zenon DEF CallType
  <2> HIDE DEF cl
  <2> QED BY <1>1, <1>2, <2>1, WaitBegins, Zenon
<1>3. CASE c.s[k].ready # 0 \/ Has(c.s[k], "RECV_END") \/ c.s[k].err # "OK"
  <2>1. /\ Good(c, 0) /\ call \in CallType /\ Framed(c) /\ Potential(c) <= Room /\ (c.rx => c.fh = 0)
    BY <1>1, AtRest, Zenon
  <2>2. ReadDone(e, c)
    BY <1>1, <1>3, <2>1, ReadOutKeeps, Zenon
  <2> HIDE DEF e
  <2>3. Good(e, 0) /\ e.rx = c.rx /\ e.fh = c.fh /\ (Framed(c) => Framed(e)) /\ Potential(e) <= Room
    BY <2>2, Zenon DEF ReadDone
  <2>4. Settled(e, NoCall)
    BY <2>1, <2>3, Returned, Zenon
  <2>5. Settled(e, call)
    BY <1>1, <2>1, <2>4, Idles, Zenon
  <2> QED BY <1>1, <1>3, <2>5, Zenon
<1> QED BY <1>2, <1>3, Zenon

LEMMA StreamCloseKeeps ==
    ASSUME Settled(c, call), NEW k \in Slots, NEW w \in BOOLEAN, StreamClose(k, w)
    PROVE  Settled(c', call')
<1> DEFINE e == h2_release(c, k, w)
<1>1. call.op = "none" /\ c.s[k].id # 0 /\ c' = e /\ call' = call
  BY Zenon DEF StreamClose
<1>2. /\ Good(c, 0) /\ call \in CallType
      /\ c.err = "OK" => Framed(c) /\ Potential(c) <= Room /\ (c.rx => c.fh = 0)
  BY <1>1, AtRest, Zenon
<1>3. c.err = "OK" => c.tx < TX
  <2>1. Typed(c)
    BY <1>2, Zenon DEF Good, Kept
  <2> QED BY <1>2, <2>1, RoomForOne, Zenon
<1>4. Settled(e, NoCall)
  BY <1>1, <1>2, <1>3, ReturnedReleased, Zenon
<1> HIDE DEF e
<1>5. Settled(e, call)
  BY <1>1, <1>2, <1>4, Idles, Zenon
<1> QED BY <1>1, <1>5, Zenon

LEMMA CloseKeeps ==
    ASSUME Close
    PROVE  Settled(c', call')
<1>1. c' = setup /\ call' = [NoCall EXCEPT !.op = "closed"]
  BY Zenon DEF Close
<1>2. Settled(setup, [NoCall EXCEPT !.op = "closed"])
  BY SetupGood, Returned, Zenon
<1> QED BY <1>1, <1>2, Zenon

\* A request: a slot is taken, and the block sent when the queue has room for it.
LEMMA RequestKeeps ==
    ASSUME Settled(c, call), plan \in DOMAIN Plans, NEW req \in Script.reqs, NEW w \in BOOLEAN,
           ~w => c.tx > 0, Request(req, w)
    PROVE  Settled(c', call')
<1> DEFINE k == FreeSlot  t == OpenSlot(c, req.head)  o == Opened(c, k, req.head)
           r == IF TX - c.tx < 2 THEN h2_flush(o, w) ELSE o
           e == request_headers(r, k, req)
           cl == [op |-> "body", k |-> k, left |-> req.body, cap |-> 0]
<1>1. /\ call.op = "none" /\ CanRequest(req)
      /\ IF r.err # "OK" THEN Return(h2_release(r, k, w))
         ELSE IF r.tx + 1 + req.hlen > TX /\ ~w THEN Return(h2_release(h2_flush(r, w), k, w))
         ELSE c' = e /\ call' = cl
  BY Zenon DEF Request, Opened, OpenSlot
<1>2. /\ c.err = "OK" /\ c.next_id <= Script.last_id /\ Cardinality(Open) < N
  BY <1>1, Zenon DEF CanRequest
<1>3. req.body \in Nat /\ req.hlen \in Nat /\ req.head \in BOOLEAN /\ Script.last_id \in 0..MAX_ID
  <2>1. req \in [body : Nat, hlen : Nat, list : Nat, head : BOOLEAN]
    BY PlansAssumption, Zenon DEF Script
  <2>2. Script.last_id \in 0..MAX_ID
    BY PlansAssumption, Zenon DEF Script
  <2> QED BY <2>1, <2>2, Zenon
<1>4. k \in Slots /\ c.s[k].id = 0
  BY <1>2, FreeSlotIs, Zenon
<1>5. /\ Good(c, 0) /\ Framed(c) /\ (c.rx => c.fh = 0) /\ Kept(c) /\ Conn(c) /\ Typed(c)
      /\ c.tx \in Nat /\ c.next_id \in Nat
  BY <1>1, <1>2, AtRest, Zenon DEF Good, Kept, Typed, Simple
<1>6. c.next_id \in Ids
  <2>1. c.next_id % 2 = 1
    BY <1>5, Zenon DEF Conn, Fresh
  <2>2. MAX_ID \in Nat
    BY H2Assumption, Zenon
  <2>3. c.next_id # 0
    BY <2>1
  <2>4. c.next_id \in 1..MAX_ID
    BY <1>2, <1>3, <1>5, <2>2, <2>3
  <2> QED BY <2>1, <2>4, Zenon DEF Ids
<1> HIDE DEF k
<1>7. OpenedFrom(o, c, k, t)
  BY <1>3, <1>4, <1>5, OpenedIs, Zenon
<1> HIDE DEF o, t
<1>8. /\ Kept(o) /\ Typed(o) /\ Same(o, c, {"s", "next_id", "idle"}) /\ o.next_id = c.next_id + 2
      /\ o.s[k] = t /\ (\A j \in Slots : j # k => o.s[j] = c.s[j])
      /\ o.err = "OK" /\ o.tx = c.tx
  BY <1>2, <1>7, Zenon DEF OpenedFrom, Kept, Same, Fields
<1>9. /\ Typed(r) /\ Same(r, o, {"tx", "err"}) /\ Kept(r) /\ (r.tx = 0 \/ r.tx = o.tx)
      /\ (r.err = "OK" \/ ~w)
      /\ (r.err = "OK" /\ ~w => r.tx > 0)
  <2>1. CASE TX - c.tx < 2
    <3>1. r = h2_flush(o, w)
      BY <2>1, Zenon
    <3> HIDE DEF r
    <3>2. /\ Typed(r) /\ Same(r, o, {"tx", "err"}) /\ r.tx = 0
          /\ r.err = IF o.tx # 0 /\ ~w /\ o.err = "OK" THEN "IO" ELSE o.err
      BY <1>8, <3>1, FlushDoes, Zenon
    <3>3. r.fault = o.fault /\ r.g = o.g /\ r.s = o.s
      BY <3>2, Zenon DEF Same, Fields
    <3>4. r.tx <= TX
      BY <3>2, Consts
    <3>5. Kept(r)
      BY <1>8, <3>2, <3>3, <3>4, Zenon DEF Kept
    <3>6. ~w => r.err # "OK"
      BY <1>5, <1>8, <3>2
    <3> QED BY <1>8, <3>2, <3>5, <3>6, Zenon
  <2>2. CASE ~(TX - c.tx < 2)
    <3>1. r = o
      BY <2>2, Zenon
    <3> HIDE DEF r
    <3> QED BY <1>8, <3>1, Zenon DEF Same
  <2> QED BY <2>1, <2>2, Zenon
<1> HIDE DEF r
<1>10. ASSUME NEW x, Kept(x), x.err # "OK", c' = h2_release(x, k, w) /\ call' = NoCall
       PROVE  Settled(c', call')
  <2> DEFINE z == h2_release(x, k, w)
  <2>1. Good(z, 0) /\ Same(z, x, {"s", "b"})
    BY <1>4, <1>10, ReleaseFailed, Zenon
  <2> HIDE DEF z
  <2>2. z.err # "OK"
    BY <1>10, <2>1, Zenon DEF Same, Fields
  <2>3. Settled(z, NoCall)
    BY <2>1, <2>2, Returned, Zenon
  <2> QED BY <1>10, <2>3, Zenon DEF z
<1>11. CASE r.err # "OK"
  <2>1. c' = h2_release(r, k, w) /\ call' = NoCall
    BY <1>1, <1>11, Zenon DEF Return
  <2> QED BY <1>9, <1>10, <1>11, <2>1, Zenon
<1>12. CASE r.err = "OK" /\ r.tx + 1 + req.hlen > TX /\ ~w
  <2> DEFINE x == h2_flush(r, w)
  <2>1. c' = h2_release(x, k, w) /\ call' = NoCall
    BY <1>1, <1>12, Zenon DEF Return
  <2>2. /\ Typed(x) /\ Same(x, r, {"tx", "err"}) /\ x.tx = 0
        /\ x.err = IF r.tx # 0 /\ ~w /\ r.err = "OK" THEN "IO" ELSE r.err
    BY <1>9, FlushDoes, Zenon
  <2> HIDE DEF x
  <2>3. x.err # "OK"
    BY <1>9, <1>12, <2>2
  <2>4. Kept(x)
    <3>1. x.fault = r.fault /\ x.g = r.g /\ x.s = r.s
      BY <2>2, Zenon DEF Same, Fields
    <3>2. x.tx <= TX
      BY <2>2, Consts
    <3> QED BY <1>9, <2>2, <3>1, <3>2, Zenon DEF Kept
  <2> QED BY <1>10, <2>1, <2>3, <2>4, Zenon
<1>13. CASE r.err = "OK" /\ ~(r.tx + 1 + req.hlen > TX /\ ~w)
  <2>1. c' = e /\ call' = cl
    BY <1>1, <1>13, Zenon
  <2>2. Roomy(r, c, k, t)
    <3>1. Same(r, c, {"s", "next_id", "idle", "tx"})
      BY <1>2, <1>8, <1>9, <1>13, Zenon DEF Same, Fields
    <3>2. r.next_id = o.next_id /\ r.s = o.s
      BY <1>9, Zenon DEF Same, Fields
    <3> QED BY <1>8, <1>9, <3>1, <3>2, Zenon DEF Roomy
  <2>3. RequestDone(e, c, k)
    BY <1>2, <1>3, <1>4, <1>5, <1>6, <2>2, RequestBegins, Zenon DEF t
  <2> HIDE DEF e
  <2>4. /\ Good(e, 0) /\ e.err = "OK" /\ e.rx = c.rx /\ e.fh = c.fh /\ (Framed(c) => Framed(e))
        /\ e.s[k].id # 0
    BY <2>3, Zenon DEF RequestDone
  <2>5. cl \in CallType /\ cl.op = "body" /\ cl.k = k
    <3>1. k \in 0..N
      BY <1>4, Consts
    <3> QED BY <1>3, <3>1, Zenon DEF CallType
  <2> HIDE DEF cl
  <2>6. Queue(e, "body", k)
    BY <1>5, <2>4 DEF Queue
  <2>7. Settled(e, cl)
    BY <1>4, <1>5, <2>4, <2>5, <2>6, Zenon DEF Settled
  <2> QED BY <2>1, <2>7, Zenon
<1> QED BY <1>11, <1>12, <1>13, Zenon

-----------------------------------------------------------------------------
(* The invariant *)

LEMMA InitHolds == Init => IInv
<1> SUFFICES ASSUME Init PROVE IInv
  BY Zenon
<1>1. plan \in DOMAIN Plans /\ left = Plans[plan].n /\ turn = 0 /\ c = setup /\ call = NoCall
  BY Zenon DEF Init
<1>2. left \in Nat
  BY <1>1, PlansAssumption, Zenon
<1>3. Settled(setup, NoCall)
  BY SetupGood, Returned, Zenon
<1> QED BY <1>1, <1>2, <1>3, Zenon DEF IInv

LEMMA CallStepKeeps ==
    ASSUME IInv, CallStep
    PROVE  IInv'
<1>1. Settled(c, call) /\ plan \in DOMAIN Plans /\ left \in Nat /\ turn \in {0, 1}
  BY Zenon DEF IInv
<1>2. PICK w \in Wrs :
        /\ UNCHANGED plan /\ turn' = 1 - turn
        /\ \/ (Body(w) \/ WaitFailed(w) \/ WaitMet(w) \/ WaitEnded(w)) /\ UNCHANGED left
           \/ WaitFeed(w)
           \/ WaitRead(w)
  BY Zenon DEF CallStep
<1>3. w \in BOOLEAN
  BY Zenon DEF Wrs
<1>4. Settled(c', call') /\ left' \in Nat
  <2>1. CASE Body(w) /\ UNCHANGED left
    BY <1>1, <1>3, <2>1, BodyKeeps, Zenon
  <2>2. CASE WaitFailed(w) /\ UNCHANGED left
    BY <1>1, <1>3, <2>2, WaitFailedKeeps, Zenon
  <2>3. CASE WaitMet(w) /\ UNCHANGED left
    BY <1>1, <1>3, <2>3, WaitMetKeeps, Zenon
  <2>4. CASE WaitEnded(w) /\ UNCHANGED left
    BY <1>1, <1>3, <2>4, WaitEndedKeeps, Zenon
  <2>5. CASE WaitFeed(w)
    BY <1>1, <1>3, <2>5, WaitFeedKeeps, Zenon
  <2>6. CASE WaitRead(w)
    BY <1>1, <1>3, <2>6, WaitReadKeeps, Zenon
  <2> QED BY <1>2, <2>1, <2>2, <2>3, <2>4, <2>5, <2>6, Zenon
<1> QED BY <1>1, <1>2, <1>4 DEF IInv

LEMMA AppStepKeeps ==
    ASSUME IInv, AppStep
    PROVE  IInv'
<1>1. Settled(c, call) /\ plan \in DOMAIN Plans /\ left \in Nat /\ turn \in {0, 1}
  BY Zenon DEF IInv
<1>2. UNCHANGED <<plan, left, turn>>
  BY Zenon DEF AppStep
<1>3. Settled(c', call')
  <2>1. CASE Start
    BY <1>1, <2>1, StartCallKeeps, Zenon
  <2>2. CASE Close
    BY <1>1, <2>2, CloseKeeps, Zenon
  <2>3. ASSUME NEW k \in Slots, Response(k) PROVE Settled(c', call')
    BY <1>1, <2>3, ResponseCallKeeps, Zenon
  <2>4. ASSUME NEW k \in Slots, NEW cap \in Script.caps, Read(k, cap) PROVE Settled(c', call')
    <3>1. cap \in Nat
      BY <1>1, PlansAssumption, Zenon DEF Script
    <3> QED BY <1>1, <2>4, <3>1, ReadCallKeeps, Zenon
  <2>5. ASSUME NEW w \in Wrs, NEW req \in Script.reqs, Request(req, w) PROVE Settled(c', call')
    <3>1. w \in BOOLEAN /\ (~w => c.tx > 0)
      BY Zenon DEF Wrs
    <3> QED BY <1>1, <2>5, <3>1, RequestKeeps, Zenon
  <2>6. ASSUME NEW w \in Wrs, NEW k \in Slots, StreamClose(k, w) PROVE Settled(c', call')
    <3>1. w \in BOOLEAN
      BY Zenon DEF Wrs
    <3> QED BY <1>1, <2>6, <3>1, StreamCloseKeeps, Zenon
  <2> QED BY <2>1, <2>2, <2>3, <2>4, <2>5, <2>6, Zenon DEF AppStep
<1> QED BY <1>1, <1>2, <1>3, Zenon DEF IInv

LEMMA NextKeeps == IInv /\ [Next]_vars => IInv'
<1> SUFFICES ASSUME IInv, [Next]_vars PROVE IInv'
  BY Zenon
<1>1. CASE CallStep
  BY <1>1, CallStepKeeps, Zenon
<1>2. CASE AppStep
  BY <1>2, AppStepKeeps, Zenon
<1>3. CASE Closed \/ UNCHANGED vars
  BY <1>3, Zenon DEF Closed, vars, IInv
<1> QED BY <1>1, <1>2, <1>3, Zenon DEF Next

\* The connection keeps its books between any two steps, for every table of plans: types, windows
\* and history of each stream, the frame and the header block under way, and the room in the queue.
THEOREM InvariantHolds == Spec => []IInv
<1>1. Init => IInv
  BY InitHolds, Zenon
<1>2. IInv /\ [Next]_vars => IInv'
  BY NextKeeps, Zenon
<1> QED BY <1>1, <1>2, PTL DEF Spec

-----------------------------------------------------------------------------
(* What the application and the server rely on *)

LEMMA CreditFollows == IInv => CreditConserved
<1> SUFFICES ASSUME IInv, c.err = "OK" PROVE CreditConserved
  BY Zenon DEF CreditConserved
<1>1. Good(c, 0) /\ Conn(c) /\ Typed(c) /\ \A k \in Slots : SlotOK(c, k)
  BY Zenon DEF IInv, Settled, Good, Kept
<1>2. c.crwin + c.cpend + Held(c) = CONN_WIN + c.g.extra
  BY <1>1, Zenon DEF Conn, Sum
<1>3. ASSUME NEW k \in LiveSlots
      PROVE  c.s[k].rwin + c.s[k].pend + Unread(c, k) + Coming(c, k) = W
  <2> DEFINE s == c.s[k]  x == Part(c, k)
  <2>1. k \in Slots /\ s.id # 0 /\ ~Has(s, "RST") /\ ~Has(s, "RECV_END")
    BY Zenon DEF LiveSlots
  <2>2. s.rwin + s.pend + Rest(s) + x.len - x.taken = W
    BY <1>1, <2>1, Zenon DEF SlotOK, Counting
  <2>3. s \in SlotType /\ c.f.len \in Nat /\ c.dat \in Nat
    BY <1>1, <2>1, SlotTyped, FrameTyped, Zenon DEF Typed, Simple
  <2>4. Unread(c, k) = Rest(s) /\ Coming(c, k) = x.len - x.taken /\ Rest(s) \in Int
    BY <1>1, <2>1, BoundToAsk, Zenon
  <2>5. s.rwin \in Int /\ s.pend \in Int
    BY <2>3 DEF SlotType
  <2>6. x.len \in Int /\ x.taken \in Int
    BY <2>3 DEF Part, Idle0
  <2> DEFINE a == s.rwin  p == s.pend  r == Rest(s)  l == x.len  t == x.taken
  <2>7. a + p + r + l - t = W /\ a \in Int /\ p \in Int /\ r \in Int /\ l \in Int /\ t \in Int
    BY <2>2, <2>4, <2>5, <2>6, Zenon
  <2>8. Unread(c, k) = r /\ Coming(c, k) = l - t
    BY <2>4, Zenon
  <2> HIDE DEF a, p, r, l, t
  <2>9. a + p + r + (l - t) = W
    BY <2>7, Zenon
  <2> QED BY <2>8, <2>9, Zenon DEF a, p
<1> QED BY <1>2, <1>3, Zenon DEF CreditConserved

LEMMA CreditGiven == IInv => NeverStarved
<1> SUFFICES ASSUME IInv, c.err = "OK", c.fh = 0 PROVE NeverStarved
  BY Zenon DEF NeverStarved
<1>1. Owing(c, 0) /\ Framed(c)
  BY Zenon DEF IInv, Settled, Good
<1>2. c.f.t # "DATA"
  BY <1>1 DEF Framed, NoFrame
<1>3. \A k \in LiveSlots : k \in Slots \ {0} /\ ~Has(c.s[k], "RST") /\ ~Has(c.s[k], "RECV_END")
  BY Consts, Zenon DEF LiveSlots
<1>4. c.cpend < CREDIT
  BY <1>1, <1>2, Zenon DEF Owing
<1>5. \A k \in LiveSlots : c.s[k].pend < CREDIT
  BY <1>1, <1>3, Zenon DEF Owing, Paid
<1> QED BY <1>4, <1>5, Zenon DEF NeverStarved

LEMMA ConcludedFollows == IInv => RequestsConcluded
<1> SUFFICES ASSUME IInv PROVE RequestsConcluded
  BY Zenon
<1>1. Good(c, 0)
  BY Zenon DEF IInv, Settled
<1>2. RetrySafe
  BY <1>1, Zenon DEF Good, Kept, RetrySafe
<1>3. c.err = "OK" => Concluded(c)
  BY <1>1, Zenon DEF Good, Conn
<1>4. NoHalfOpen
  BY <1>3, Zenon DEF NoHalfOpen, Concluded
<1> QED BY <1>2, <1>4, Zenon DEF RequestsConcluded

\* No receive credit is lost or granted twice, at every cut of every frame (h2_credit,
\* frame_end of DATA, h2_release).
THEOREM CreditIsConserved == Spec => []CreditConserved
BY InvariantHolds, CreditFollows, PTL

\* On a frame boundary no WINDOW_UPDATE that is due has been left out (h2_credit).
THEOREM ServerIsNeverStarved == Spec => []NeverStarved
BY InvariantHolds, CreditGiven, PTL

\* brisk_h2_read reports the end of a response only when all of it was received and read.
THEOREM EndMeansWhole == Spec => []EndIsWhole
<1>1. IInv => EndIsWhole
  BY Zenon DEF IInv, Settled, Good, Kept, EndIsWhole
<1> QED BY <1>1, InvariantHolds, PTL

\* Every request ends at both sides or is reset, and is given back for a retry only if the server
\* did not process it (h2_goaway, the RST_STREAM handler, h2_release).
THEOREM RequestsAreConcluded == Spec => []RequestsConcluded
BY InvariantHolds, ConcludedFollows, PTL

\* What goes on the wire is legal in its order and within the windows, and the queue of frames
\* never overflows, whatever the server sends between two flushes (h2_ctrl, H2_RESERVE).
THEOREM WireIsLegal == Spec => []WireLegal
<1>1. IInv => WireLegal
  BY Zenon DEF IInv, Settled, Good, Kept, WireLegal
<1> QED BY <1>1, InvariantHolds, PTL
=============================================================================
