------------------------------ MODULE H2Frames ------------------------------
(***************************************************************************)
(* What the handlers of frames keep of the invariant of an HTTP/2          *)
(* connection, for every number of slots, window, queue and frame. The     *)
(* calls of the application and the theorems are in H2Proofs.              *)
(***************************************************************************)
EXTENDS H2, SetSums, SequenceTheorems

-----------------------------------------------------------------------------
(* Types *)

Flags    == {"HEAD", "FINAL", "HAS_CL", "NOCL", "RESP", "SENT_END", "RECV_END", "RST"}
SlotType == [id : Nat, swin : Int, rwin : Int, pend : Nat, rlen : Nat, hdr : Nat, ready : Nat,
             got : Nat, cl : Int, n1xx : Nat, err : {"OK", "PROTO", "RETRY", "PEER_ALERT"},
             fl : SUBSET Flags]
BlockType == [in : BOOLEAN, sid : Nat, s : 0..N, es : BOOLEAN, cont : Nat, trailer : BOOLEAN,
              pre : Nat, len : Nat, rep : Seq(Representations)]
StreamType == [ph : {"idle", "open", "ended", "reset"}, sent : Nat, wu : Nat, dat : Nat,
               es : BOOLEAN, unproc : BOOLEAN, read : Nat, whole : BOOLEAN, retry : BOOLEAN]

Fields ==
    {"err", "eof", "goaway", "goaway_err", "last_id", "next_id", "p_conc", "p_win", "p_list",
     "cwin", "crwin", "cpend", "got_settings", "idle", "tx", "fault", "rx", "fh", "f", "pos", "fs",
     "dat", "b", "dec", "enc", "s", "g"}
Shape(d) == d = [x \in Fields |-> d[x]]
Past == {"st", "wire", "extra", "tab", "believed", "low"}

PastTyped(g) ==
    /\ g = [x \in Past |-> g[x]] /\ g.st \in [Ids -> StreamType]
    /\ g.wire \in BOOLEAN /\ g.extra \in Int /\ g.believed \in Nat /\ g.low \in Nat
Simple(d) ==
    /\ d.fault \in BOOLEAN /\ d.goaway \in BOOLEAN /\ d.rx \in BOOLEAN
    /\ d.p_win \in Nat /\ d.next_id \in Nat /\ d.tx \in Nat /\ d.cpend \in Nat /\ d.last_id \in Nat
    /\ d.pos \in Nat /\ d.dat \in Nat
    /\ d.cwin \in Int /\ d.crwin \in Int /\ d.fs \in 0..N
Typed(d) ==
    /\ Shape(d)
    /\ d.s \in [Slots -> SlotType] /\ d.b \in BlockType
    /\ PastTyped(d.g)
    /\ d.enc \in [cur : Nat, pending : BOOLEAN]
    /\ d.f \in Frames \cup {NoFrame} /\ Simple(d)

-----------------------------------------------------------------------------
(* One stream *)

Rest(s) == s.rlen - s.hdr

\* What a DATA frame under way still brings to the slot.
Idle0 == [on |-> FALSE, len |-> 0, whole |-> 0, taken |-> 0, es |-> FALSE]
Part(d, k) ==
    IF d.fs = k THEN [on |-> TRUE, len |-> d.f.len, whole |-> FrameData(d.f, d.f.len),
                      taken |-> d.dat, es |-> d.f.es]
    ELSE Idle0
Ending(d, k) == d.b.s = k /\ d.b.es

Closing(s, st, ends) ==
    /\ s.err # "OK" => Has(s, "RST")
    /\ Has(s, "RST") /\ s.err = "OK" => BothEnds(s)
    /\ Has(s, "RECV_END") => st.es
    /\ ~Has(s, "RST") /\ ~Has(s, "RECV_END") /\ st.es => ends
    /\ ~Has(s, "RST") => st.ph = IF Has(s, "SENT_END") THEN "ended" ELSE "open"
    /\ Has(s, "RST") => st.ph = "reset" \/ (st.ph = "ended" /\ st.es)
Counting(s, st, x) ==
    /\ s.hdr <= s.rlen
    /\ ~Has(s, "RST") /\ ~Has(s, "RECV_END") => s.rwin + s.pend + Rest(s) + x.len - x.taken = W
    /\ s.err = "OK" =>
          /\ s.pend + Rest(s) + x.len - x.taken <= W
          /\ s.hdr <= MAX_LIST
          /\ s.ready <= Rest(s) /\ (~x.on => s.ready = Rest(s))
          /\ ~Has(s, "FINAL") => /\ s.rlen = 0 /\ s.pend = 0 /\ ~x.on
                                 /\ ~Has(s, "RECV_END")
          /\ st.dat = st.read + Rest(s) + x.whole - x.taken
          /\ s.got = st.dat - x.whole
          /\ Has(s, "RECV_END") /\ ClChecked(s) => s.got = s.cl
Paid(s) == ~Has(s, "RST") /\ ~Has(s, "RECV_END") => s.pend < CREDIT
Granted(s, st, w) == s.swin = w + st.wu - st.sent
SlotOK(d, k) ==
    LET s == d.s[k]  st == d.g.st[s.id]
    IN  s.id # 0 => /\ s.id \in Ids /\ s.id < d.next_id
                    /\ Closing(s, st, Part(d, k).es \/ Ending(d, k))
                    /\ Counting(s, st, Part(d, k))
                    /\ Granted(s, st, d.p_win)

-----------------------------------------------------------------------------
(* The connection *)

Distinct(d) == \A j, k \in Slots : d.s[j].id # 0 /\ d.s[j].id = d.s[k].id => j = k
Fresh(d) ==
    /\ d.next_id % 2 = 1
    /\ \A id \in Ids : id >= d.next_id =>
          d.g.st[id] = [Stream0 EXCEPT !.unproc = d.g.st[id].unproc]
Concluded(d) ==
    \A id \in Ids :
        \/ d.g.st[id].ph \in {"idle", "reset"}
        \/ d.g.st[id].ph = "ended" /\ d.g.st[id].es
        \/ \E k \in Slots : d.s[k].id = id
Sum(d) == d.crwin + d.cpend + Held(d) = CONN_WIN + d.g.extra
\* Nothing of a WINDOW_UPDATE step is owed, but for what is under way on the slot x.
Owing(d, x) ==
    /\ x = 0 /\ d.f.t # "DATA" => d.cpend < CREDIT
    /\ \A k \in Slots \ {x} : Paid(d.s[k])
Taking(d) ==
    d.fs # 0 =>
        /\ d.f.t = "DATA" /\ d.s[d.fs].id = d.f.sid /\ d.f.sid # 0
        /\ Has(d.s[d.fs], "FINAL") /\ ~Has(d.s[d.fs], "RST") /\ ~Has(d.s[d.fs], "RECV_END")
        /\ d.f.es => d.g.st[d.f.sid].es
        /\ d.dat = FrameData(d.f, d.pos) /\ d.pos <= d.f.len
InBlock(d) ==
    /\ d.b.in => d.f.t \in {"none", "HEADERS", "CONT"}
    /\ d.b.s # 0 =>
          LET s == d.s[d.b.s]
          IN  /\ d.b.in /\ s.id = d.b.sid /\ s.id # 0
              /\ ~Has(s, "RST") /\ ~Has(s, "RECV_END")
              /\ d.b.trailer <=> Has(s, "FINAL")
              /\ s.hdr <= d.b.pre
              /\ d.b.es <=> d.g.st[s.id].es
Told(d) ==
    /\ d.goaway => \A id \in Ids : id > d.last_id => d.g.st[id].unproc
    /\ d.f.t = "GOAWAY" => \A id \in Ids : id > d.f.n => d.g.st[id].unproc
    /\ d.f.t = "RST" /\ d.f.code = "REFUSED" /\ d.f.sid \in Ids => d.g.st[d.f.sid].unproc
Encoding(d) ==
    \/ d.enc.cur = TABLE0 /\ ~d.enc.pending /\ d.g.believed = TABLE0 /\ d.g.low = TABLE0
    \/ d.enc.cur = 0 /\ (d.enc.pending \/ d.g.believed = 0)

\* What also holds of a connection that failed.
Kept(d) ==
    /\ Typed(d)
    /\ d.g.wire /\ ~d.fault /\ d.tx <= TX
    /\ \A id \in Ids : d.g.st[id].whole /\ d.g.st[id].retry
    /\ \A k \in Slots : d.s[k].err = "RETRY" => d.s[k].id \in Ids /\ d.g.st[d.s[k].id].unproc
Conn(d) ==
    /\ Distinct(d) /\ Fresh(d) /\ Concluded(d) /\ Sum(d) /\ Taking(d)
    /\ InBlock(d) /\ Told(d) /\ Encoding(d)
    /\ d.eof # "no" => ~d.rx
    /\ \A k \in Slots : d.s[k].id = 0 => d.s[k] = Slot0
Good(d, x) ==
    /\ Kept(d)
    /\ d.err = "OK" => Conn(d) /\ Owing(d, x) /\ \A k \in Slots : SlotOK(d, k)

-----------------------------------------------------------------------------
(* Between two steps *)

Framed(d) ==
    /\ d.fh \in {0, 1, 9}
    /\ d.fh # 9 => d.f = NoFrame /\ d.pos = 0 /\ d.dat = 0 /\ d.fs = 0

\* The octets that reads without a flush may still turn into WINDOW_UPDATE frames.
Owed(d) == [k \in Slots |-> IF d.s[k].id # 0 /\ d.s[k].err = "OK"
                            THEN d.s[k].pend + 2 * d.s[k].ready ELSE 0]
Capped(n) == IF n < CREDIT THEN n ELSE CREDIT
Potential(d) == CREDIT * d.tx + SumFunctionOnSet(Owed(d), Slots) + Capped(d.cpend)
Room == 2 * N * W + CREDIT
Queue(d, op, k) ==
    /\ op = "none" \/ (op \in {"start", "response", "read"} /\ d.eof # "no") => Potential(d) <= Room
    /\ d.rx /\ d.fh # 0 => op \in {"start", "response", "read", "window"}
    /\ d.rx /\ d.fh = 1 => d.tx + RESERVE <= TX
    /\ d.rx /\ d.fh = 9 => d.tx + 3 <= TX
    /\ op = "window" /\ d.eof # "no" =>
          d.tx < TX \/ (~Has(d.s[k], "RST") /\ ~BothEnds(d.s[k]))
CallType == [op : {"none", "closed", "start", "response", "read", "window", "body"}, k : 0..N,
             left : Nat, cap : Nat]
Settled(d, cl) ==
    /\ Good(d, 0) /\ cl \in CallType
    /\ cl.op \in {"response", "read", "window", "body"} => cl.k \in Slots
    /\ d.err = "OK" =>
          /\ cl.op \in {"response", "read", "window", "body"} => d.s[cl.k].id # 0
          /\ Framed(d) /\ Queue(d, cl.op, cl.k)
    /\ cl.op = "body" => d.err = "OK"
IInv ==
    /\ plan \in DOMAIN Plans /\ left \in Nat /\ turn \in {0, 1}
    /\ Settled(c, call)
-----------------------------------------------------------------------------
(* Constants *)

LEMMA Consts ==
    /\ {N, W, WIN0, MAXWIN, TX, RESERVE} \subseteq Nat \ {0} /\ MAX_LIST \in Nat /\ TABLE0 \in Nat
    /\ CREDIT \in Nat \ {0} /\ N <= CREDIT /\ (W = 2 * CREDIT \/ W = 2 * CREDIT + 1)
    /\ RESERVE >= 4 /\ TX >= 4 * N + RESERVE
    /\ CONN_WIN \in Nat
    /\ Slots = 1..N /\ IsFiniteSet(Slots) /\ 0 \notin Slots
    /\ Ids \subseteq Nat /\ 0 \notin Ids
<1>1. /\ {N, W, WIN0, MAXWIN, TX, RESERVE, MAX_ID} \subseteq Nat \ {0} /\ W > 1 /\ RESERVE >= 4
      /\ TX >= 4 * N + RESERVE /\ N <= CREDIT
  BY H2Assumption
<1>2. CREDIT \in Nat \ {0} /\ (W = 2 * CREDIT \/ W = 2 * CREDIT + 1)
  BY <1>1 DEF CREDIT
<1>3. MAX_LIST \in Nat /\ TABLE0 \in Nat
  BY HpackAssumption
<1>4. CONN_WIN \in Nat
  BY <1>1 DEF CONN_WIN
<1>5. Slots = 1..N /\ IsFiniteSet(Slots) /\ 0 \notin Slots
  BY <1>1, FS_Interval DEF Slots
<1>6. Ids \subseteq Nat /\ 0 \notin Ids
  BY <1>1 DEF Ids
<1> QED BY <1>1, <1>2, <1>3, <1>4, <1>5, <1>6

\* 0 is no slot, the other numbers up to N are.
LEMMA SlotNumbers ==
    ASSUME NEW i
    PROVE  (i \in Slots => i \in 0..N) /\ (i \in 0..N /\ i # 0 => i \in Slots)
BY Consts

-----------------------------------------------------------------------------
(* Records *)

Same(e, d, changed) == \A x \in Fields \ changed : e[x] = d[x]

\* The slot k of e has become t, no other slot has changed.
SlotBecomes(e, d, k, t) == e.s = [d.s EXCEPT ![k] = t]

\* The slots, the history and the frame of a connection are what their types say.
LEMMA SlotTyped ==
    ASSUME NEW d, Typed(d), NEW k \in Slots
    PROVE  d.s[k] \in SlotType
BY DEF Typed

LEMMA StreamTyped ==
    ASSUME NEW d, Typed(d), NEW id \in Ids
    PROVE  d.g.st[id] \in StreamType
BY DEF Typed, PastTyped

LEMMA Slot0Typed == Slot0 \in SlotType
BY DEF Slot0, SlotType, Flags

LEMMA SlotChanged ==
    ASSUME NEW d, Typed(d), NEW e, NEW k \in Slots, NEW t \in SlotType, SlotBecomes(e, d, k, t)
    PROVE  /\ e.s \in [Slots -> SlotType] /\ e.s[k] = t
           /\ \A j \in Slots : j # k => e.s[j] = d.s[j]
BY DEF Typed, SlotBecomes

-----------------------------------------------------------------------------
(* What the slots hold *)

\* A change of the fields without structure, and one of the fields the types leave open.
Scalars == Fields \ {"s", "g", "b", "enc", "f"}
Untyped == {"err", "eof", "goaway_err", "p_conc", "p_list", "got_settings", "idle", "dec", "fh"}
LEMMA TypedAfter ==
    ASSUME NEW d, Typed(d), NEW e, Shape(e), Same(e, d, Scalars), Simple(e)
    PROVE  Typed(e)
<1>1. e.s = d.s /\ e.g = d.g /\ e.b = d.b /\ e.enc = d.enc /\ e.f = d.f
  BY DEF Same, Scalars, Fields
<1> QED BY <1>1 DEF Typed

LEMMA TypedSame ==
    ASSUME NEW d, Typed(d), NEW e, Shape(e), Same(e, d, Untyped)
    PROVE  Typed(e)
<1>1. Same(e, d, Scalars)
  BY DEF Same, Scalars, Untyped, Fields
<1>2. /\ e.fault = d.fault /\ e.goaway = d.goaway /\ e.rx = d.rx /\ e.p_win = d.p_win
      /\ e.next_id = d.next_id /\ e.tx = d.tx /\ e.cpend = d.cpend /\ e.last_id = d.last_id
      /\ e.pos = d.pos /\ e.dat = d.dat /\ e.cwin = d.cwin /\ e.crwin = d.crwin /\ e.fs = d.fs
  BY DEF Same, Untyped, Fields
<1>3. Simple(d)
  BY DEF Typed
<1>4. Simple(e)
  BY <1>2, <1>3 DEF Simple
<1> QED BY <1>1, <1>4, TypedAfter

LEMMA FrameTyped ==
    ASSUME NEW fr \in Frames \cup {NoFrame}
    PROVE  /\ fr.len \in Nat /\ fr.sid \in Nat /\ fr.pad \in Int /\ fr.pad >= -1 /\ fr.n \in Nat
           /\ fr.es \in BOOLEAN /\ fr.eh \in BOOLEAN
           /\ Len(fr.v) \in Nat
<1>1. CASE fr = NoFrame
  BY <1>1 DEF NoFrame
<1>2. CASE fr \in Frames
  <2> DEFINE R == Representations \cup SettingList
  <2>1. fr \in [t : FrameKinds, sid : Nat, len : Nat, pad : Nat \cup {-1}, es : BOOLEAN, eh : BOOLEAN,
                v : Seq(R), n : Nat, code : STRING]
    BY <1>2 DEF Frames
  <2> HIDE DEF R
  <2>2. fr.v \in Seq(R)
    BY <2>1
  <2> QED BY <2>1, <2>2
<1> QED BY <1>1, <1>2

LEMMA BoundToAsk ==
    ASSUME NEW d, Typed(d), NEW k \in Slots
    PROVE  /\ Unread(d, k) \in Int /\ Coming(d, k) \in Int
           /\ Unread(d, k) = Rest(d.s[k]) /\ Coming(d, k) = Part(d, k).len - Part(d, k).taken
<1>1. d.s[k] \in SlotType /\ d.f.len \in Nat /\ d.dat \in Nat
  BY SlotTyped, FrameTyped, Zenon DEF Typed, Simple
<1>2. d.s[k].rlen \in Int /\ d.s[k].hdr \in Int
  BY <1>1 DEF SlotType
<1> QED BY <1>1, <1>2 DEF Unread, Coming, Rest, Part, Idle0

LEMMA OneTerm ==
    ASSUME NEW F, NEW G, NEW k \in Slots, \A j \in Slots : F[j] \in Int /\ G[j] \in Int,
           \A j \in Slots \ {k} : G[j] = F[j]
    PROVE  /\ SumFunctionOnSet(F, Slots) \in Int
           /\ SumFunctionOnSet(G, Slots) = SumFunctionOnSet(F, Slots) - F[k] + G[k]
<1>1. IsFiniteSet(Slots)
  BY Consts
<1>2. \A j \in Slots : F[j] \in Int
  OBVIOUS
<1>3. SumFunctionOnSet(F, Slots) \in Int
  BY <1>1, <1>2, SumSplit
<1> QED BY <1>1, <1>3, SumChange

LEMMA HeldChange ==
    ASSUME NEW d, Typed(d), NEW e, Typed(e), NEW k \in Slots,
           \A j \in Slots : j # k => Unread(e, j) + Coming(e, j) = Unread(d, j) + Coming(d, j)
    PROVE  /\ Held(d) \in Int
           /\ Held(e) = Held(d) - (Unread(d, k) + Coming(d, k)) + (Unread(e, k) + Coming(e, k))
<1> DEFINE F == [j \in Slots |-> Unread(d, j) + Coming(d, j)]
           G == [j \in Slots |-> Unread(e, j) + Coming(e, j)]
<1>2. \A j \in Slots : F[j] \in Int /\ G[j] \in Int
  <2> TAKE j \in Slots
  <2>1. Unread(d, j) \in Int /\ Coming(d, j) \in Int /\ Unread(e, j) \in Int /\ Coming(e, j) \in Int
    BY BoundToAsk
  <2> QED BY <2>1
<1>3. \A j \in Slots \ {k} : G[j] = F[j]
  OBVIOUS
<1>4. F[k] = Unread(d, k) + Coming(d, k) /\ G[k] = Unread(e, k) + Coming(e, k)
  OBVIOUS
<1> HIDE DEF F, G
<1>5. /\ SumFunctionOnSet(F, Slots) \in Int
      /\ SumFunctionOnSet(G, Slots) = SumFunctionOnSet(F, Slots) - F[k] + G[k]
  BY <1>2, <1>3, OneTerm, Zenon
<1>7. Held(d) = SumFunctionOnSet(F, Slots) /\ Held(e) = SumFunctionOnSet(G, Slots)
  BY DEF Held, F, G
<1> QED BY <1>4, <1>5, <1>7

LEMMA HeldSame ==
    ASSUME NEW d, Typed(d), NEW e,
           \A j \in Slots : Unread(e, j) + Coming(e, j) = Unread(d, j) + Coming(d, j)
    PROVE  Held(e) = Held(d) /\ Held(d) \in Int
<1> DEFINE F == [j \in Slots |-> Unread(d, j) + Coming(d, j)]
           G == [j \in Slots |-> Unread(e, j) + Coming(e, j)]
<1>0. F = G
  OBVIOUS
<1>1. IsFiniteSet(Slots)
  BY Consts
<1>2. \A j \in Slots : F[j] \in Int
  <2> TAKE j \in Slots
  <2>1. Unread(d, j) \in Int /\ Coming(d, j) \in Int
    BY BoundToAsk
  <2> QED BY <2>1
<1>3. Held(d) = SumFunctionOnSet(F, Slots) /\ Held(e) = SumFunctionOnSet(G, Slots)
  BY DEF Held
<1> HIDE DEF F, G
<1>4. SumFunctionOnSet(F, Slots) \in Int
  BY <1>1, <1>2, SumSplit
<1> QED BY <1>0, <1>3, <1>4

\* The data among the octets of a payload: none of none, never fewer of more, no more than there are.
LEMMA FrameDataGrows ==
    ASSUME NEW fr \in Frames \cup {NoFrame}, NEW p \in Nat, NEW q \in Nat, p <= q, q <= fr.len
    PROVE  /\ FrameData(fr, p) \in Nat /\ FrameData(fr, q) \in Nat
           /\ FrameData(fr, 0) = 0 /\ FrameData(fr, p) <= FrameData(fr, q) /\ FrameData(fr, q) <= q
<1>1. fr.len \in Nat /\ fr.pad \in Int /\ fr.pad >= -1
  BY FrameTyped
<1>2. CASE fr.pad < 0
  BY <1>1, <1>2 DEF FrameData
<1>3. CASE ~(fr.pad < 0)
  BY <1>1, <1>3 DEF FrameData
<1> QED BY <1>2, <1>3

-----------------------------------------------------------------------------
(* Output queue *)

\* The frame queued found room.
LEMMA CtrlDoes ==
    ASSUME NEW d, Typed(d)
    PROVE  LET e == h2_ctrl(d)
           IN  /\ Typed(e) /\ Same(e, d, {"fault", "tx"})
               /\ e.tx = d.tx + 1 /\ (e.fault <=> d.fault \/ d.tx = TX)
<1> DEFINE e == h2_ctrl(d)
<1>1. Shape(d) /\ d.tx \in Nat /\ d.fault \in BOOLEAN /\ Simple(d)
  BY DEF Typed, Simple
<1>2. Shape(e) /\ Same(e, d, {"fault", "tx"}) /\ e.tx = d.tx + 1 /\ e.fault = (d.fault \/ d.tx = TX)
  BY <1>1, Zenon DEF h2_ctrl, Shape, Same, Fields
<1>3. e.tx \in Nat /\ e.fault \in BOOLEAN
  BY <1>1, <1>2
<1> HIDE DEF e
<1>4. Typed(e)
  <2>1. Same(e, d, Scalars)
    BY <1>2 DEF Same, Scalars, Fields
  <2>2. Simple(e)
    BY <1>1, <1>2, <1>3 DEF Simple, Same, Fields
  <2> QED BY <1>2, <2>1, <2>2, TypedAfter
<1> QED BY <1>2, <1>4, Zenon DEF e

LEMMA ConnErrDoes ==
    ASSUME NEW d, Typed(d)
    PROVE  LET e == h2_conn_err(d)
           IN  /\ Typed(e) /\ Same(e, d, {"fault", "tx", "err"}) /\ e.err # "OK"
               /\ IF d.err = "OK" THEN e.tx = d.tx + 1 /\ (e.fault <=> d.fault \/ d.tx = TX)
                  ELSE e = d
<1> DEFINE r == h2_ctrl(d)
           e == [r EXCEPT !.err = "PROTO"]
<1>1. CASE d.err # "OK"
  <2>1. h2_conn_err(d) = d
    BY <1>1 DEF h2_conn_err
  <2> QED BY <1>1, <2>1 DEF Same
<1>2. CASE d.err = "OK"
  <2>1. h2_conn_err(d) = e
    BY <1>2 DEF h2_conn_err
  <2>2. /\ Typed(r) /\ Same(r, d, {"fault", "tx"})
        /\ r.tx = d.tx + 1 /\ (r.fault <=> d.fault \/ d.tx = TX)
    BY CtrlDoes
  <2> HIDE DEF r
  <2>3. Shape(r)
    BY <2>2 DEF Typed
  <2>4. Shape(e) /\ Same(e, r, {"err"}) /\ e.err = "PROTO"
    BY <2>3 DEF Shape, Same, Fields
  <2> HIDE DEF e
  <2>5. Typed(e)
    <3>1. Same(e, r, Untyped)
      BY <2>4 DEF Same, Untyped, Fields
    <3> QED BY <2>2, <2>4, <3>1, TypedSame
  <2>6. Same(e, d, {"fault", "tx", "err"}) /\ e.tx = r.tx /\ e.fault = r.fault
    BY <2>2, <2>4 DEF Same, Fields
  <2> QED BY <1>2, <2>1, <2>2, <2>4, <2>5, <2>6
<1> QED BY <1>1, <1>2

\* The history but for what a frame on one stream changes.
PastSame(e, d, changed) == \A x \in Past \ changed : e.g[x] = d.g[x]
StreamBecomes(e, d, id, h) == e.g.st = [d.g.st EXCEPT ![id] = h]

LEMMA StreamChanged ==
    ASSUME NEW d, Typed(d), NEW e, NEW id \in Ids, NEW h \in StreamType, StreamBecomes(e, d, id, h)
    PROVE  /\ e.g.st \in [Ids -> StreamType] /\ e.g.st[id] = h
           /\ \A i \in Ids : i # id => e.g.st[i] = d.g.st[i]
BY DEF Typed, PastTyped, StreamBecomes

\* A new value of the slots, the history and simple fields.
LEMMA TypedWith ==
    ASSUME NEW d, Typed(d), NEW e, Shape(e), Same(e, d, Scalars \cup {"s", "g"}), Simple(e),
           e.s \in [Slots -> SlotType], PastTyped(e.g)
    PROVE  Typed(e)
<1>1. e.b = d.b /\ e.enc = d.enc /\ e.f = d.f
  BY DEF Same, Scalars, Fields
<1> QED BY <1>1 DEF Typed

LEMMA WireDoes ==
    ASSUME NEW d, Typed(d), NEW id \in Ids, NEW ok, NEW ph \in {"idle", "open", "ended", "reset"}
    PROVE  LET e == Wire(d, id, ok, ph)
           IN  /\ Typed(e) /\ Same(e, d, {"g"}) /\ PastSame(e, d, {"st", "wire"})
               /\ (e.g.wire <=> d.g.wire /\ d.g.st[id].ph \in ok)
               /\ StreamBecomes(e, d, id, [d.g.st[id] EXCEPT !.ph = ph])
<1> DEFINE h  == [d.g.st[id] EXCEPT !.ph = ph]
           w  == d.g.wire /\ d.g.st[id].ph \in ok
           g  == [d.g EXCEPT !.wire = d.g.wire /\ d.g.st[id].ph \in ok, !.st[id].ph = ph]
           e  == [d EXCEPT !.g = g]
<1>1. Shape(d) /\ PastTyped(d.g) /\ Simple(d) /\ d.s \in [Slots -> SlotType]
  BY DEF Typed
<1>2. Wire(d, id, ok, ph) = e
  BY DEF Wire
<1>3. d.g.st[id] \in StreamType
  BY StreamTyped
<1>4. h \in StreamType
  BY <1>3 DEF StreamType
<1>5. g = [x \in Past |-> g[x]] /\ (\A x \in Past \ {"st", "wire"} : g[x] = d.g[x]) /\ g.wire = w
      /\ g.st = [d.g.st EXCEPT ![id] = h]
  BY <1>1, Zenon DEF PastTyped, Past
<1> HIDE DEF g
<1>6. g.st \in [Ids -> StreamType]
  <2> HIDE DEF h
  <2> QED BY <1>1, <1>4, <1>5, Zenon DEF PastTyped
<1>7. g.wire \in BOOLEAN
  BY <1>1, <1>5, Zenon DEF PastTyped
<1>8. PastTyped(g)
  BY <1>1, <1>5, <1>6, <1>7, Zenon DEF PastTyped, Past
<1>9. Shape(e) /\ Same(e, d, {"g"}) /\ e.g = g
  BY <1>1, Zenon DEF Shape, Same, Fields
<1> HIDE DEF e, h, w
<1>10. Typed(e)
  <2>1. e.s = d.s /\ Same(e, d, Scalars \cup {"s", "g"}) /\ Simple(e)
    BY <1>1, <1>9 DEF Same, Scalars, Fields, Simple
  <2> QED BY <1>1, <1>8, <1>9, <2>1, TypedWith, Zenon
<1>11. PastSame(e, d, {"st", "wire"}) /\ e.g.wire = w /\ StreamBecomes(e, d, id, h)
  BY <1>5, <1>9 DEF PastSame, StreamBecomes
<1> QED BY <1>2, <1>9, <1>10, <1>11, Zenon DEF h, w

LEMMA RstStreamDoes ==
    ASSUME NEW d, Typed(d), NEW k \in Slots, d.s[k].id \in Ids
    PROVE  LET e  == rst_stream(d, k)
               id == d.s[k].id
           IN  /\ Typed(e) /\ Same(e, d, {"g", "fault", "tx"}) /\ PastSame(e, d, {"st", "wire"})
               /\ e.tx = d.tx + 1 /\ (e.fault <=> d.fault \/ d.tx = TX)
               /\ (e.g.wire <=> d.g.wire /\ d.g.st[id].ph \in {"open", "ended"})
               /\ StreamBecomes(e, d, id, [d.g.st[id] EXCEPT !.ph = "reset"])
<1> DEFINE r  == h2_ctrl(d)
           id == d.s[k].id
           e  == Wire(r, id, {"open", "ended"}, "reset")
<1>1. /\ Typed(r) /\ Same(r, d, {"fault", "tx"})
      /\ r.tx = d.tx + 1 /\ (r.fault <=> d.fault \/ d.tx = TX)
  BY CtrlDoes
<1>2. rst_stream(d, k) = e
  BY DEF rst_stream
<1> HIDE DEF r
<1>3. r.g = d.g /\ r.s = d.s
  BY <1>1 DEF Same, Fields
<1>4. /\ Typed(e) /\ Same(e, r, {"g"}) /\ PastSame(e, r, {"st", "wire"})
      /\ (e.g.wire <=> r.g.wire /\ r.g.st[id].ph \in {"open", "ended"})
      /\ StreamBecomes(e, r, id, [r.g.st[id] EXCEPT !.ph = "reset"])
  BY <1>1, WireDoes, Zenon
<1> HIDE DEF e
<1>5. Same(e, d, {"g", "fault", "tx"}) /\ e.tx = r.tx /\ e.fault = r.fault
  BY <1>1, <1>4, Zenon DEF Same, Fields
<1>6. PastSame(e, d, {"st", "wire"})
  BY <1>3, <1>4, Zenon DEF PastSame
<1> QED BY <1>1, <1>2, <1>3, <1>4, <1>5, <1>6, Zenon DEF StreamBecomes

\* A slot that failed.
FailedSlot(s) == [s EXCEPT !.err = IF s.err = "OK" THEN "PROTO" ELSE s.err, !.fl = @ \cup {"RST"}]

LEMMA FailedSlotIs ==
    ASSUME NEW s \in SlotType
    PROVE  /\ FailedSlot(s) \in SlotType /\ FailedSlot(s).err # "OK" /\ Has(FailedSlot(s), "RST")
           /\ FailedSlot(s).id = s.id /\ FailedSlot(s).rlen = s.rlen /\ FailedSlot(s).hdr = s.hdr
           /\ FailedSlot(s).swin = s.swin
           /\ Has(FailedSlot(s), "RECV_END") = Has(s, "RECV_END")
           /\ Has(FailedSlot(s), "SENT_END") = Has(s, "SENT_END")
           /\ FailedSlot(s).err = "RETRY" => s.err = "RETRY"
<1> DEFINE t == FailedSlot(s)
<1>1. t = [s EXCEPT !.err = IF s.err = "OK" THEN "PROTO" ELSE s.err, !.fl = s.fl \cup {"RST"}]
  BY DEF FailedSlot, SlotType
<1>2. s.err \in {"OK", "PROTO", "RETRY", "PEER_ALERT"} /\ s.fl \in SUBSET Flags
  BY DEF SlotType
<1>3. s.fl \cup {"RST"} \in SUBSET Flags
  BY <1>2 DEF Flags
<1>4. t \in SlotType
  BY <1>1, <1>2, <1>3, Zenon DEF SlotType
<1>5. /\ t.err = (IF s.err = "OK" THEN "PROTO" ELSE s.err) /\ t.fl = s.fl \cup {"RST"}
      /\ t.id = s.id /\ t.rlen = s.rlen /\ t.hdr = s.hdr /\ t.swin = s.swin
  BY <1>1 DEF SlotType
<1> HIDE DEF t
<1>6. Has(t, "RST") /\ Has(t, "RECV_END") = Has(s, "RECV_END") /\ Has(t, "SENT_END") = Has(s, "SENT_END")
  BY <1>5 DEF Has
<1> QED BY <1>4, <1>5, <1>6 DEF t

LEMMA StreamErrDoes ==
    ASSUME NEW d, Typed(d), NEW k \in Slots, d.s[k].id \in Ids
    PROVE  LET e  == h2_stream_err(d, k)
               id == d.s[k].id
           IN  /\ Typed(e) /\ Same(e, d, {"s", "g", "fault", "tx"}) /\ PastSame(e, d, {"st", "wire"})
               /\ SlotBecomes(e, d, k, FailedSlot(d.s[k]))
               /\ IF Has(d.s[k], "RST") \/ BothEnds(d.s[k])
                  THEN e.tx = d.tx /\ e.fault = d.fault /\ e.g = d.g
                  ELSE /\ e.tx = d.tx + 1 /\ (e.fault <=> d.fault \/ d.tx = TX)
                       /\ (e.g.wire <=> d.g.wire /\ d.g.st[id].ph \in {"open", "ended"})
                       /\ StreamBecomes(e, d, id, [d.g.st[id] EXCEPT !.ph = "reset"])
<1> DEFINE id == d.s[k].id
           t == FailedSlot(d.s[k])
           r == [d EXCEPT !.s[k].err = IF @ = "OK" THEN "PROTO" ELSE @, !.s[k].fl = @ \cup {"RST"}]
           e == h2_stream_err(d, k)
<1>1. Shape(d) /\ d.s \in [Slots -> SlotType] /\ d.s[k] \in SlotType /\ PastTyped(d.g) /\ Simple(d)
  BY SlotTyped DEF Typed
<1>2. Shape(r) /\ Same(r, d, {"s"}) /\ SlotBecomes(r, d, k, t)
  <2>1. Shape(r) /\ Same(r, d, {"s"})
    BY <1>1, Zenon DEF Shape, Same, Fields
  <2>2. r.s = [d.s EXCEPT ![k] = t]
    BY <1>1, Zenon DEF FailedSlot, Shape, Fields, SlotType
  <2> QED BY <2>1, <2>2, Zenon DEF SlotBecomes
<1>3. t \in SlotType /\ t.id = id
  BY <1>1, FailedSlotIs
<1>4. e = IF Has(d.s[k], "RST") \/ BothEnds(d.s[k]) THEN r ELSE rst_stream(r, k)
  BY DEF h2_stream_err
<1> HIDE DEF r, t
<1>5. r.s \in [Slots -> SlotType] /\ r.s[k] = t
  BY <1>2, <1>3, SlotChanged
<1>6. r.g = d.g /\ r.tx = d.tx /\ r.fault = d.fault /\ Simple(r) /\ Same(r, d, Scalars \cup {"s", "g"})
  BY <1>1, <1>2 DEF Same, Fields, Scalars, Simple
<1>7. Typed(r)
  BY <1>1, <1>2, <1>5, <1>6, TypedWith, Zenon
<1>8. CASE Has(d.s[k], "RST") \/ BothEnds(d.s[k])
  <2>1. e = r
    BY <1>4, <1>8
  <2>2. Same(r, d, {"s", "g", "fault", "tx"}) /\ PastSame(r, d, {"st", "wire"})
    BY <1>2, <1>6 DEF Same, PastSame
  <2> QED BY <1>2, <1>6, <1>7, <1>8, <2>1, <2>2, Zenon DEF t
<1>9. CASE ~(Has(d.s[k], "RST") \/ BothEnds(d.s[k]))
  <2> DEFINE q == rst_stream(r, k)
  <2>1. e = q
    BY <1>4, <1>9
  <2>2. /\ Typed(q) /\ Same(q, r, {"g", "fault", "tx"}) /\ PastSame(q, r, {"st", "wire"})
        /\ q.tx = r.tx + 1 /\ (q.fault <=> r.fault \/ r.tx = TX)
        /\ (q.g.wire <=> r.g.wire /\ r.g.st[id].ph \in {"open", "ended"})
        /\ StreamBecomes(q, r, id, [r.g.st[id] EXCEPT !.ph = "reset"])
    <3>1. r.s[k].id = id
      BY <1>3, <1>5
    <3> QED BY <1>7, <3>1, RstStreamDoes, Zenon
  <2> HIDE DEF q
  <2>3. Same(q, d, {"s", "g", "fault", "tx"}) /\ q.s = r.s
    BY <1>2, <2>2, Zenon DEF Same, Fields
  <2>4. PastSame(q, d, {"st", "wire"})
    BY <1>6, <2>2, Zenon DEF PastSame
  <2>5. SlotBecomes(q, d, k, t) /\ StreamBecomes(q, d, id, [d.g.st[id] EXCEPT !.ph = "reset"])
    BY <1>2, <1>6, <2>2, <2>3, Zenon DEF SlotBecomes, StreamBecomes
  <2> QED BY <1>6, <1>9, <2>1, <2>2, <2>3, <2>4, <2>5, Zenon DEF t
<1> QED BY <1>8, <1>9, Zenon

LEMMA FlushDoes ==
    ASSUME NEW d, Typed(d), NEW w \in BOOLEAN
    PROVE  LET e == h2_flush(d, w)
           IN  /\ Typed(e) /\ Same(e, d, {"tx", "err"}) /\ e.tx = 0
               /\ e.err = IF d.tx # 0 /\ ~w /\ d.err = "OK" THEN "IO" ELSE d.err
<1> DEFINE r == [d EXCEPT !.tx = 0, !.err = IF ~w /\ @ = "OK" THEN "IO" ELSE @]
<1>1. Shape(d) /\ Simple(d)
  BY DEF Typed
<1>2. CASE d.tx = 0
  BY <1>2 DEF h2_flush, Same
<1>3. CASE d.tx # 0
  <2>1. h2_flush(d, w) = r
    BY <1>3 DEF h2_flush
  <2>2. /\ Shape(r) /\ Same(r, d, {"tx", "err"}) /\ r.tx = 0
        /\ r.err = IF ~w /\ d.err = "OK" THEN "IO" ELSE d.err
    BY <1>1, Zenon DEF Shape, Same, Fields
  <2> HIDE DEF r
  <2>3. Same(r, d, Scalars) /\ Simple(r)
    BY <1>1, <2>2 DEF Same, Fields, Scalars, Simple
  <2> QED BY <1>3, <2>1, <2>2, <2>3, TypedAfter
<1> QED BY <1>2, <1>3

\* A slot whose WINDOW_UPDATE is due, and after it.
Due(s) == s.pend >= CREDIT /\ ~Has(s, "RECV_END") /\ ~Has(s, "RST")
CreditedSlot(s) == IF Due(s) THEN [s EXCEPT !.rwin = @ + s.pend, !.pend = 0] ELSE s

LEMMA CreditedSlotIs ==
    ASSUME NEW s \in SlotType
    PROVE  LET t == CreditedSlot(s)
           IN  /\ t \in SlotType
               /\ t.id = s.id /\ t.rlen = s.rlen /\ t.hdr = s.hdr /\ t.swin = s.swin /\ t.got = s.got
               /\ t.ready = s.ready /\ t.cl = s.cl /\ t.err = s.err /\ t.fl = s.fl /\ t.n1xx = s.n1xx
               /\ t.rwin + t.pend = s.rwin + s.pend /\ t.pend <= s.pend /\ t.rwin \in Int
               /\ Paid(t)
               /\ IF Due(s) THEN s.pend >= CREDIT /\ t.pend = 0 ELSE t = s
<1> DEFINE t == CreditedSlot(s)
<1>1. CASE Due(s)
  <2>1. t = [s EXCEPT !.rwin = s.rwin + s.pend, !.pend = 0]
    BY <1>1 DEF CreditedSlot, SlotType
  <2>2. s.rwin + s.pend \in Int /\ s.pend \in Nat /\ s.rwin \in Int
    BY DEF SlotType
  <2> HIDE DEF t
  <2>3. /\ t \in SlotType /\ t.rwin = s.rwin + s.pend /\ t.pend = 0
    <3>1. t.rwin = s.rwin + s.pend /\ t.pend = 0
      BY <2>1 DEF SlotType
    <3> DEFINE r == s.rwin + s.pend
    <3>2. t = [s EXCEPT !.rwin = r, !.pend = 0] /\ r \in Int /\ 0 \in Nat
      BY <2>1, <2>2
    <3> HIDE DEF r
    <3>3. t \in SlotType
      BY <3>2, Zenon DEF SlotType
    <3> QED BY <3>1, <3>3
  <2>4. /\ t.id = s.id /\ t.rlen = s.rlen /\ t.hdr = s.hdr /\ t.swin = s.swin /\ t.got = s.got
        /\ t.ready = s.ready /\ t.cl = s.cl /\ t.err = s.err /\ t.fl = s.fl /\ t.n1xx = s.n1xx
    BY <2>1 DEF SlotType
  <2>5. Paid(t)
    BY <2>3, Consts DEF Paid
  <2> QED BY <1>1, <2>2, <2>3, <2>4, <2>5 DEF Due, t
<1>2. CASE ~Due(s)
  <2>1. t = s
    BY <1>2 DEF CreditedSlot
  <2>2. Paid(s)
    <3>1. s.pend \in Nat
      BY DEF SlotType
    <3>2. CREDIT \in Nat
      BY Consts
    <3> HIDE DEF t
    <3> QED BY <1>2, <3>1, <3>2 DEF Due, Paid
  <2>3. s.pend \in Nat /\ s.rwin \in Int
    BY DEF SlotType
  <2> QED BY <1>2, <2>1, <2>2, <2>3
<1> QED BY <1>1, <1>2

LEMMA CreditStreamDoes ==
    ASSUME NEW d, Typed(d), NEW k \in Slots, d.s[k].id \in Ids, d.g.wire,
           ~Has(d.s[k], "RST") => d.g.st[d.s[k].id].ph \in {"open", "ended"}
    PROVE  LET e == credit_stream(d, k)
           IN  /\ Typed(e) /\ Same(e, d, {"s", "fault", "tx"})
               /\ SlotBecomes(e, d, k, CreditedSlot(d.s[k]))
               /\ IF Due(d.s[k]) THEN e.tx = d.tx + 1 /\ (e.fault <=> d.fault \/ d.tx = TX)
                  ELSE e = d
<1> DEFINE id == d.s[k].id
           r  == h2_ctrl(d)
           ph == d.g.st[id].ph
           q  == Wire(r, id, {"open", "ended"}, ph)
           t  == CreditedSlot(d.s[k])
           e  == [q EXCEPT !.s[k].rwin = @ + d.s[k].pend, !.s[k].pend = 0]
<1>1. d.s \in [Slots -> SlotType] /\ d.s[k] \in SlotType /\ PastTyped(d.g) /\ Simple(d)
  BY SlotTyped, Zenon DEF Typed
<1>2. CASE ~Due(d.s[k])
  <2>1. credit_stream(d, k) = d /\ t = d.s[k]
    BY <1>2, Consts, Zenon DEF credit_stream, CreditedSlot, Due
  <2>2. SlotBecomes(d, d, k, t) /\ Same(d, d, {"s", "fault", "tx"})
    BY <1>1, <2>1, Zenon DEF SlotBecomes, Same
  <2> QED BY <1>2, <2>1, <2>2, Zenon
<1>3. CASE Due(d.s[k])
  <2>1. credit_stream(d, k) = e
    BY <1>3, Consts, Zenon DEF credit_stream, Due
  <2>2. Typed(r) /\ Same(r, d, {"fault", "tx"}) /\ r.tx = d.tx + 1 /\ (r.fault <=> d.fault \/ d.tx = TX)
    BY CtrlDoes, Zenon
  <2> HIDE DEF r
  <2>3. r.g = d.g /\ r.s = d.s
    BY <2>2, Zenon DEF Same, Fields
  <2>4. d.g.st[id] \in StreamType
    BY StreamTyped, Zenon
  <2>5. ph \in {"idle", "open", "ended", "reset"} /\ ph \in {"open", "ended"}
    BY <1>3, <2>4, Zenon DEF Due, StreamType
  <2>6. /\ Typed(q) /\ Same(q, r, {"g"}) /\ PastSame(q, r, {"st", "wire"})
        /\ (q.g.wire <=> r.g.wire /\ r.g.st[id].ph \in {"open", "ended"})
        /\ StreamBecomes(q, r, id, [r.g.st[id] EXCEPT !.ph = ph])
    <3>1. id \in Ids
      BY Zenon
    <3> HIDE DEF ph, id
    <3> QED BY <2>2, <2>5, <3>1, WireDoes, Zenon
  <2> HIDE DEF q
  <2>7. q.g = d.g
    <3>1. [d.g.st[id] EXCEPT !.ph = ph] = d.g.st[id]
      BY <2>4, Zenon DEF StreamType
    <3>2. q.g.st = d.g.st
      <4>1. q.g.st = [d.g.st EXCEPT ![id] = [d.g.st[id] EXCEPT !.ph = ph]]
        BY <2>3, <2>6, Zenon DEF StreamBecomes
      <4>2. d.g.st \in [Ids -> StreamType]
        BY <1>1, Zenon DEF PastTyped
      <4> HIDE DEF id, ph
      <4> QED BY <3>1, <4>1, <4>2
    <3>4. PastTyped(q.g)
      BY <2>6, Zenon DEF Typed
    <3>3. q.g.wire = d.g.wire
      <4>1. q.g.wire
        BY <2>3, <2>5, <2>6, Zenon
      <4>2. q.g.wire \in BOOLEAN /\ d.g.wire \in BOOLEAN
        BY <1>1, <3>4, Zenon DEF PastTyped
      <4> QED BY <4>1, <4>2, Zenon
    <3>5. \A x \in Past : q.g[x] = d.g[x]
      BY <2>3, <2>6, <3>2, <3>3, Zenon DEF PastSame, Past
    <3> QED BY <1>1, <3>4, <3>5, Zenon DEF PastTyped
  <2>8. Same(q, d, {"fault", "tx"}) /\ q.tx = d.tx + 1 /\ (q.fault <=> d.fault \/ d.tx = TX) /\ q.s = d.s
    BY <2>2, <2>6, <2>7, ZenonT(60) DEF Same, Fields
  <2>9. Shape(q) /\ Simple(q)
    BY <2>6, Zenon DEF Typed
  <2>10. Shape(e) /\ Same(e, q, {"s"})
    BY <2>9, ZenonT(60) DEF Shape, Same, Fields
  <2>11. e.s = [d.s EXCEPT ![k] = t]
    <3>1. t = [d.s[k] EXCEPT !.rwin = @ + d.s[k].pend, !.pend = 0]
      BY <1>3, Zenon DEF CreditedSlot
    <3> QED BY <1>1, <2>8, <2>9, <3>1, Zenon DEF Shape, Fields
  <2>12. t \in SlotType
    BY <1>1, CreditedSlotIs, Zenon
  <2> HIDE DEF e, t
  <2>13. SlotBecomes(e, d, k, t) /\ e.s \in [Slots -> SlotType]
    BY <2>11, <2>12, SlotChanged, Zenon DEF SlotBecomes
  <2>14. Typed(e)
    <3>1. e.g = d.g /\ Same(e, q, Scalars \cup {"s", "g"}) /\ Simple(e)
      BY <2>7, <2>9, <2>10 DEF Same, Scalars, Fields, Simple
    <3> QED BY <1>1, <2>6, <2>10, <2>13, <3>1, TypedWith, Zenon
  <2>15. Same(e, d, {"s", "fault", "tx"}) /\ e.tx = q.tx /\ e.fault = q.fault
    BY <2>8, <2>10 DEF Same, Fields
  <2> QED BY <1>3, <2>1, <2>8, <2>13, <2>14, <2>15, Zenon DEF t
<1> QED BY <1>2, <1>3, Zenon

LEMMA CreditConnDoes ==
    ASSUME NEW d, Typed(d)
    PROVE  LET e == credit_conn(d)
           IN  /\ Typed(e) /\ Same(e, d, {"crwin", "cpend", "fault", "tx"})
               /\ e.crwin + e.cpend = d.crwin + d.cpend
               /\ IF d.cpend >= CREDIT
                  THEN e.cpend = 0 /\ e.tx = d.tx + 1 /\ (e.fault <=> d.fault \/ d.tx = TX)
                  ELSE e = d
<1> DEFINE r == h2_ctrl(d)
           e == [r EXCEPT !.crwin = @ + d.cpend, !.cpend = 0]
<1>1. Simple(d) /\ Shape(d)
  BY DEF Typed
<1>2. CASE ~(d.cpend >= CREDIT)
  BY <1>1, <1>2 DEF credit_conn, Same
<1>3. CASE d.cpend >= CREDIT
  <2>1. credit_conn(d) = e
    BY <1>3 DEF credit_conn
  <2>2. Typed(r) /\ Same(r, d, {"fault", "tx"}) /\ r.tx = d.tx + 1 /\ (r.fault <=> d.fault \/ d.tx = TX)
    BY CtrlDoes
  <2> HIDE DEF r
  <2>3. Shape(r) /\ Simple(r)
    BY <2>2 DEF Typed
  <2>4. /\ Shape(e) /\ Same(e, r, {"crwin", "cpend"})
        /\ e.crwin = r.crwin + d.cpend /\ e.cpend = 0
    BY <2>3, Zenon DEF Shape, Same, Fields
  <2> HIDE DEF e
  <2>5. r.crwin = d.crwin /\ d.crwin \in Int /\ d.cpend \in Nat
    BY <1>1, <2>2 DEF Same, Fields, Simple
  <2>6. Same(e, r, Scalars) /\ Simple(e)
    BY <2>3, <2>4, <2>5 DEF Same, Scalars, Fields, Simple
  <2>7. Typed(e)
    BY <2>2, <2>4, <2>6, TypedAfter
  <2>8. Same(e, d, {"crwin", "cpend", "fault", "tx"}) /\ e.tx = r.tx /\ e.fault = r.fault
    BY <2>2, <2>4 DEF Same, Fields
  <2> QED BY <1>3, <2>1, <2>2, <2>4, <2>5, <2>7, <2>8
<1> QED BY <1>2, <1>3

-----------------------------------------------------------------------------
(* The room in the queue *)

LEMMA Frames1 ==
    ASSUME NEW n \in Nat
    PROVE  /\ CREDIT * n \in Nat /\ CREDIT * (n + 1) = CREDIT * n + CREDIT
           /\ n > 0 => CREDIT * n >= CREDIT
<1>1. CREDIT \in Nat /\ CREDIT > 0
  BY Consts
<1> HIDE DEF CREDIT
<1>2. CREDIT * n \in Nat /\ CREDIT * (n + 1) = CREDIT * n + CREDIT
  BY <1>1
<1>3. CASE n > 0
  <2>1. CREDIT * (n - 1) \in Nat /\ CREDIT * n = CREDIT * (n - 1) + CREDIT
    BY <1>1, <1>3
  <2> QED BY <1>1, <1>2, <2>1
<1> QED BY <1>2, <1>3

LEMMA RoomIs == Room \in Nat /\ Room <= CREDIT * (4 * N + 3) /\ Room >= 3 * CREDIT
<1>1. /\ CREDIT \in Nat /\ CREDIT > 0 /\ N \in Nat /\ N > 0 /\ N <= CREDIT /\ W \in Nat
      /\ W >= 2 * CREDIT /\ W <= 2 * CREDIT + 1
  BY Consts
<1> HIDE DEF CREDIT
<1>2. N * W \in Nat /\ N * W <= N * (2 * CREDIT + 1) /\ N * W >= W
  <2>1. PICK x \in Nat : 2 * CREDIT + 1 = W + x
    <3>1. 2 * CREDIT + 1 - W \in Nat
      BY <1>1
    <3> QED BY <1>1, <3>1
  <2>2. N * (W + x) = N * W + N * x /\ N * W \in Nat /\ N * x \in Nat
    BY <1>1, <2>1
  <2>3. PICK y \in Nat : N = 1 + y
    <3>1. N - 1 \in Nat
      BY <1>1
    <3> QED BY <1>1, <3>1
  <2>4. (1 + y) * W = W + y * W /\ y * W \in Nat
    BY <1>1, <2>3
  <2>5. N * W \in Nat /\ N * W <= N * (2 * CREDIT + 1)
    <3>1. N * (2 * CREDIT + 1) = N * (W + x)
      BY <2>1
    <3> DEFINE a == N * W  b == N * x  z == N * (2 * CREDIT + 1)
    <3>2. z = a + b /\ a \in Nat /\ b \in Nat
      BY <2>2, <3>1
    <3> HIDE DEF a, b, z
    <3>3. a <= z
      BY <3>2
    <3> QED BY <3>2, <3>3 DEF a, z
  <2>6. N * W >= W
    <3> DEFINE a == N * W  b == y * W
    <3>1. a = W + b /\ b \in Nat
      BY <2>3, <2>4
    <3> HIDE DEF a, b
    <3>2. a >= W
      BY <1>1, <3>1
    <3> QED BY <3>2 DEF a
  <2> QED BY <2>5, <2>6
<1>3. N * (2 * CREDIT + 1) = 2 * (CREDIT * N) + N /\ CREDIT * N \in Nat
  BY <1>1
<1>4. CREDIT * (4 * N + 3) = 4 * (CREDIT * N) + 3 * CREDIT
  BY <1>1
<1>5. Room = 2 * (N * W) + CREDIT
  BY <1>1 DEF Room
<1> HIDE DEF Room
<1> QED BY <1>1, <1>2, <1>3, <1>4, <1>5

\* What the octets owed pay for is within the queue.
LEMMA RoomSuffices ==
    ASSUME NEW n \in Nat, CREDIT * n <= Room
    PROVE  n < TX
<1>1. /\ CREDIT \in Nat /\ CREDIT > 0 /\ N \in Nat /\ TX \in Nat /\ RESERVE \in Nat
      /\ RESERVE >= 4 /\ TX >= 4 * N + RESERVE
  BY Consts
<1>2. Room \in Nat /\ Room <= CREDIT * (4 * N + 3)
  BY RoomIs
<1> HIDE DEF CREDIT, Room
<1>3. SUFFICES ASSUME n >= 4 * N + 4 PROVE FALSE
  BY <1>1
<1>4. PICK x \in Nat : n = 4 * N + 4 + x
  <2>1. n - (4 * N + 4) \in Nat
    BY <1>1, <1>3
  <2> QED BY <1>1, <2>1
<1> DEFINE m == 4 * N + 3
<1>5. m \in Nat /\ n = m + 1 + x
  BY <1>1, <1>4
<1> HIDE DEF m
<1>6. CREDIT * (m + 1 + x) = CREDIT * m + CREDIT + CREDIT * x /\ CREDIT * x \in Nat /\ CREDIT * m \in Nat
  BY <1>1, <1>4, <1>5
<1>7. Room <= CREDIT * m
  BY <1>2 DEF m
<1>8. CREDIT * n = CREDIT * m + CREDIT + CREDIT * x
  BY <1>5, <1>6
<1> QED BY <1>1, <1>2, <1>6, <1>7, <1>8

LEMMA CappedIs ==
    ASSUME NEW n \in Nat
    PROVE  Capped(n) \in Nat /\ Capped(n) <= n /\ Capped(n) <= CREDIT
           /\ (n < CREDIT => Capped(n) = n) /\ (n >= CREDIT => Capped(n) = CREDIT)
BY Consts DEF Capped

LEMMA CappedGrows ==
    ASSUME NEW n \in Nat, NEW m \in Nat
    PROVE  Capped(n + m) <= Capped(n) + m
BY Consts DEF Capped

\* A stream's WINDOW_UPDATE and the connection's, when there is room for both or they were
\* paid for.
Ample(tx, owed) == tx + 2 <= TX \/ CREDIT * tx + owed <= Room

LEMMA CreditDoes ==
    ASSUME NEW d, Typed(d), NEW k \in Slots, d.s[k].id \in Ids, d.g.wire, ~d.fault,
           ~Has(d.s[k], "RST") => d.g.st[d.s[k].id].ph \in {"open", "ended"},
           Ample(d.tx, d.s[k].pend + Capped(d.cpend))
    PROVE  LET e == h2_credit(d, k)
           IN  /\ Typed(e) /\ Same(e, d, {"s", "fault", "tx", "crwin", "cpend"}) /\ ~e.fault
               /\ SlotBecomes(e, d, k, CreditedSlot(d.s[k]))
               /\ e.crwin + e.cpend = d.crwin + d.cpend /\ e.cpend < CREDIT
               /\ e.tx <= d.tx + 2 /\ e.tx <= TX
               /\ CREDIT * e.tx + e.s[k].pend + Capped(e.cpend)
                     <= CREDIT * d.tx + d.s[k].pend + Capped(d.cpend)
<1> DEFINE r == credit_stream(d, k)
           e == credit_conn(r)
           s == d.s[k]
           t == CreditedSlot(s)
<1>1. h2_credit(d, k) = e
  BY Zenon DEF h2_credit
<1>2. /\ Typed(r) /\ Same(r, d, {"s", "fault", "tx"})
      /\ SlotBecomes(r, d, k, t)
      /\ IF Due(s) THEN r.tx = d.tx + 1 /\ (r.fault <=> d.fault \/ d.tx = TX) ELSE r = d
  BY CreditStreamDoes, Zenon
<1>3. s \in SlotType
  BY SlotTyped, Zenon
<1>4. /\ t \in SlotType /\ t.pend <= s.pend
      /\ IF Due(s) THEN s.pend >= CREDIT /\ t.pend = 0 ELSE t = s
  BY <1>3, CreditedSlotIs, Zenon
<1> HIDE DEF r
<1>5. /\ Typed(e) /\ Same(e, r, {"crwin", "cpend", "fault", "tx"})
      /\ e.crwin + e.cpend = r.crwin + r.cpend
      /\ IF r.cpend >= CREDIT
         THEN e.cpend = 0 /\ e.tx = r.tx + 1 /\ (e.fault <=> r.fault \/ r.tx = TX)
         ELSE e = r
  BY <1>2, CreditConnDoes, Zenon
<1> HIDE DEF e
<1>6. Same(e, d, {"s", "fault", "tx", "crwin", "cpend"})
  BY <1>2, <1>5, Zenon DEF Same, Fields
<1>7. r.crwin = d.crwin /\ r.cpend = d.cpend /\ e.s = r.s
  BY <1>2, <1>5, Zenon DEF Same, Fields
<1>8. SlotBecomes(e, d, k, t)
  BY <1>2, <1>7, Zenon DEF SlotBecomes
<1>9. e.s[k] = t
  BY <1>4, <1>8, SlotChanged
<1>10. d.tx \in Nat /\ d.cpend \in Nat /\ e.tx \in Nat /\ e.cpend \in Nat /\ r.tx \in Nat
  BY <1>2, <1>5, Zenon DEF Typed, Simple
<1>11. s.pend \in Nat /\ t.pend \in Nat
  BY <1>3, <1>4, Zenon DEF SlotType
<1>12. TX \in Nat /\ CREDIT \in Nat /\ CREDIT > 0 /\ Room \in Nat
  BY Consts, RoomIs
<1>13. Capped(d.cpend) \in Nat /\ Capped(0) = 0 /\ (d.cpend >= CREDIT => Capped(d.cpend) = CREDIT)
  BY <1>10, <1>12, CappedIs, Zenon
<1>14. CREDIT * d.tx \in Nat /\ CREDIT * (d.tx + 1) = CREDIT * d.tx + CREDIT
       /\ CREDIT * r.tx \in Nat /\ CREDIT * (r.tx + 1) = CREDIT * r.tx + CREDIT
  BY <1>10, Frames1, Zenon
<1> DEFINE owed == s.pend + Capped(d.cpend)
<1>15. /\ CREDIT * r.tx + t.pend <= CREDIT * d.tx + s.pend
       /\ Due(s) => d.tx < TX
       /\ r.tx <= d.tx + 1 /\ ~r.fault /\ r.tx <= TX
       /\ d.tx < TX
  <2>1. d.tx < TX
    <3>1. CASE d.tx + 2 <= TX
      BY <1>10, <1>12, <3>1
    <3>2. CASE CREDIT * d.tx + owed <= Room
      <4>1. CREDIT * d.tx <= Room
        BY <1>11, <1>12, <1>13, <1>14, <3>2
      <4> QED BY <1>10, <4>1, RoomSuffices, Zenon
    <3> QED BY <3>1, <3>2, Zenon DEF Ample
  <2>2. CASE Due(s)
    BY <1>2, <1>4, <1>10, <1>11, <1>12, <1>14, <2>1, <2>2
  <2>3. CASE ~Due(s)
    BY <1>2, <1>4, <1>10, <1>11, <1>12, <1>14, <2>1, <2>3
  <2> QED BY <2>2, <2>3, Zenon
<1>16. r.tx < TX
  <2>1. CASE d.tx + 2 <= TX
    BY <1>10, <1>12, <1>15, <2>1
  <2>2. CASE CREDIT * d.tx + owed <= Room
    <3>1. CREDIT * r.tx <= Room
      BY <1>11, <1>12, <1>13, <1>14, <1>15, <2>2
    <3> QED BY <1>10, <3>1, RoomSuffices, Zenon
  <2> QED BY <2>1, <2>2, Zenon DEF Ample
<1> HIDE DEF owed
<1>17. CASE r.cpend >= CREDIT
  <2>1. e.cpend = 0 /\ e.tx = r.tx + 1 /\ ~e.fault
    BY <1>5, <1>10, <1>12, <1>15, <1>16, <1>17
  <2>2. CREDIT * e.tx + t.pend + Capped(e.cpend) <= CREDIT * d.tx + s.pend + Capped(d.cpend)
    BY <1>7, <1>10, <1>11, <1>12, <1>13, <1>14, <1>15, <1>17, <2>1
  <2> HIDE DEF t, s
  <2>3. e.tx <= d.tx + 2 /\ e.tx <= TX /\ e.cpend < CREDIT
    BY <1>10, <1>12, <1>15, <1>16, <2>1
  <2> QED BY <1>1, <1>5, <1>6, <1>7, <1>8, <1>9, <2>1, <2>2, <2>3, Zenon DEF t, s
<1>18. CASE ~(r.cpend >= CREDIT)
  <2>1. e = r /\ d.cpend < CREDIT
    BY <1>5, <1>7, <1>10, <1>12, <1>18
  <2>2. CREDIT * e.tx + t.pend + Capped(e.cpend) <= CREDIT * d.tx + s.pend + Capped(d.cpend)
    BY <1>7, <1>11, <1>13, <1>14, <1>15, <2>1
  <2> HIDE DEF t, s
  <2>3. e.tx <= d.tx + 2 /\ e.tx <= TX /\ e.cpend < CREDIT /\ ~e.fault
    BY <1>7, <1>10, <1>12, <1>15, <2>1
  <2> QED BY <1>1, <1>5, <1>6, <1>7, <1>8, <1>9, <2>2, <2>3, Zenon DEF t, s
<1> QED BY <1>17, <1>18, Zenon

\* The connection's WINDOW_UPDATE alone.
LEMMA CreditZero ==
    ASSUME NEW d, Typed(d), d.tx < TX, ~d.fault
    PROVE  LET e == h2_credit(d, 0)
           IN  /\ Typed(e) /\ Same(e, d, {"fault", "tx", "crwin", "cpend"}) /\ ~e.fault
               /\ e.crwin + e.cpend = d.crwin + d.cpend /\ e.cpend < CREDIT
               /\ e.tx <= d.tx + 1
<1> DEFINE e == credit_conn(d)
<1>1. h2_credit(d, 0) = e
  BY Zenon DEF h2_credit, credit_stream
<1>2. /\ Typed(e) /\ Same(e, d, {"crwin", "cpend", "fault", "tx"})
      /\ e.crwin + e.cpend = d.crwin + d.cpend
      /\ IF d.cpend >= CREDIT
         THEN e.cpend = 0 /\ e.tx = d.tx + 1 /\ (e.fault <=> d.fault \/ d.tx = TX)
         ELSE e = d
  BY CreditConnDoes
<1> HIDE DEF e
<1>3. d.tx \in Nat /\ d.cpend \in Nat /\ e.tx \in Nat /\ CREDIT \in Nat /\ CREDIT > 0 /\ TX \in Nat
  BY <1>2, Consts DEF Typed, Simple
<1>4. ~e.fault /\ e.cpend < CREDIT /\ e.tx <= d.tx + 1
  BY <1>2, <1>3
<1> QED BY <1>1, <1>2, <1>4 DEF Same

-----------------------------------------------------------------------------
(* Steps on one stream *)

\* What is told of a connection but its slot k stays.
Aside(e, d, k) ==
    /\ e.s[k].id = d.s[k].id
    /\ \A j \in Slots : j # k =>
          e.s[j] = d.s[j] /\ Part(e, j) = Part(d, j) /\ Ending(e, j) = Ending(d, j)
    /\ \A i \in Ids : i # d.s[k].id => e.g.st[i] = d.g.st[i]
    /\ e.p_win = d.p_win /\ e.next_id = d.next_id /\ e.goaway = d.goaway /\ e.last_id = d.last_id
    /\ e.enc = d.enc /\ e.g.believed = d.g.believed /\ e.g.low = d.g.low
    /\ e.eof = d.eof /\ e.rx = d.rx
Books(d, k) == d.crwin + d.cpend + Rest(d.s[k]) + Part(d, k).len - Part(d, k).taken - d.g.extra

LEMMA PartTyped ==
    ASSUME NEW d, Typed(d), NEW k \in Slots
    PROVE  Part(d, k).len \in Nat /\ Part(d, k).taken \in Nat /\ Part(d, k).whole \in Nat
<1>1. d.f \in Frames \cup {NoFrame} /\ d.dat \in Nat
  BY DEF Typed, Simple
<1>2. d.f.len \in Nat
  BY <1>1, FrameTyped
<1>3. FrameData(d.f, d.f.len) \in Nat
  BY <1>1, <1>2, FrameDataGrows
<1> QED BY <1>1, <1>2, <1>3 DEF Part, Idle0

LEMMA OneSlot ==
    ASSUME NEW d, NEW x, Good(d, x), d.err = "OK", NEW k \in Slots, d.s[k].id # 0, NEW e, Typed(e),
           Aside(e, d, k), e.g.wire, ~e.fault, e.tx <= TX,
           LET st == e.g.st[d.s[k].id]
           IN  /\ st.whole /\ st.retry /\ (d.g.st[d.s[k].id].unproc => st.unproc)
               /\ e.s[k].err = "RETRY" => st.unproc,
           NEW y, x \in {0, k, y},
           e.err = "OK" =>
              /\ SlotOK(e, k) /\ (k # y => Paid(e.s[k])) /\ Books(e, k) = Books(d, k)
              /\ y = 0 /\ e.f.t # "DATA" => e.cpend < CREDIT
              /\ Taking(e) /\ InBlock(e) /\ Told(e)
    PROVE  Good(e, y)
<1> DEFINE id == d.s[k].id
<1>1. /\ Kept(d) /\ Conn(d) /\ Owing(d, x) /\ Typed(d)
      /\ \A j \in Slots : SlotOK(d, j)
  BY Zenon DEF Good, Kept
<1>2. id \in Ids /\ id < d.next_id
  BY <1>1, Zenon DEF SlotOK
<1>3. \A j \in Slots : j # k => e.s[j] = d.s[j] /\ e.s[j].id # id
  BY <1>1 DEF Aside, Conn, Distinct
<1>4. e.s[k].id = id /\ \A i \in Ids : i # id => e.g.st[i] = d.g.st[i]
  BY Zenon DEF Aside
<1>5. Kept(e)
  <2>1. ASSUME NEW i \in Ids
        PROVE  e.g.st[i].whole /\ e.g.st[i].retry /\ (d.g.st[i].unproc => e.g.st[i].unproc)
    BY <1>1, <1>4, Zenon DEF Kept
  <2>2. ASSUME NEW j \in Slots, e.s[j].err = "RETRY"
        PROVE  e.s[j].id \in Ids /\ e.g.st[e.s[j].id].unproc
    <3>1. CASE j = k
      BY <1>2, <1>4, <2>2, <3>1, Zenon
    <3>2. CASE j # k
      BY <1>1, <1>3, <2>1, <2>2, <3>2, Zenon DEF Kept
    <3> QED BY <3>1, <3>2, Zenon
  <2> QED BY <2>1, <2>2, Zenon DEF Kept
<1>6. ASSUME e.err = "OK"
      PROVE  Conn(e) /\ Owing(e, y) /\ \A j \in Slots : SlotOK(e, j)
  <2>1. Distinct(e)
    <3>1. \A j \in Slots : e.s[j].id = d.s[j].id
      BY <1>3, <1>4, Zenon
    <3> QED BY <1>1, <3>1 DEF Conn, Distinct
  <2>2. Fresh(e)
    <3>1. e.next_id = d.next_id /\ d.next_id \in Nat /\ Ids \subseteq Nat
      BY <1>1, Consts, Zenon DEF Aside, Typed, Simple
    <3> HIDE DEF id
    <3>2. \A i \in Ids : i >= d.next_id => i # id
      <4>1. id \in Nat /\ id < d.next_id
        BY <1>2, <3>1, Zenon
      <4> QED BY <3>1, <4>1
    <3> QED BY <1>1, <1>4, <3>1, <3>2, Zenon DEF Conn, Fresh
  <2>3. Concluded(e)
    <3> SUFFICES ASSUME NEW i \in Ids
                 PROVE  \/ e.g.st[i].ph \in {"idle", "reset"}
                        \/ e.g.st[i].ph = "ended" /\ e.g.st[i].es
                        \/ \E j \in Slots : e.s[j].id = i
      BY Zenon DEF Concluded
    <3>1. CASE i = id
      BY <1>4, <3>1, Zenon
    <3>2. CASE i # id
      <4>1. e.g.st[i] = d.g.st[i] /\ \A j \in Slots : e.s[j].id = d.s[j].id
        BY <1>3, <1>4, <3>2, Zenon
      <4> QED BY <1>1, <4>1 DEF Conn, Concluded
    <3> QED BY <3>1, <3>2, Zenon
  <2>4. Sum(e)
    <3>1. \A j \in Slots : j # k => Unread(e, j) + Coming(e, j) = Unread(d, j) + Coming(d, j)
      <4> TAKE j \in Slots
      <4> HAVE j # k
      <4>1. Unread(e, j) = Rest(e.s[j]) /\ Coming(e, j) = Part(e, j).len - Part(e, j).taken
        BY BoundToAsk, Zenon
      <4>2. Unread(d, j) = Rest(d.s[j]) /\ Coming(d, j) = Part(d, j).len - Part(d, j).taken
        BY <1>1, BoundToAsk, Zenon
      <4>3. e.s[j] = d.s[j] /\ Part(e, j) = Part(d, j)
        BY Zenon DEF Aside
      <4> QED BY <4>1, <4>2, <4>3, Zenon
    <3>2. /\ Held(d) \in Int
          /\ Held(e) = Held(d) - (Unread(d, k) + Coming(d, k)) + (Unread(e, k) + Coming(e, k))
      BY <1>1, <3>1, HeldChange, Zenon
    <3>3. /\ Unread(e, k) \in Int /\ Coming(e, k) \in Int
          /\ Unread(e, k) = Rest(e.s[k]) /\ Coming(e, k) = Part(e, k).len - Part(e, k).taken
      BY BoundToAsk, Zenon
    <3>4. /\ Unread(d, k) \in Int /\ Coming(d, k) \in Int
          /\ Unread(d, k) = Rest(d.s[k]) /\ Coming(d, k) = Part(d, k).len - Part(d, k).taken
      BY <1>1, BoundToAsk, Zenon
    <3>5. /\ e.crwin \in Int /\ e.cpend \in Int /\ e.g.extra \in Int
          /\ d.crwin \in Int /\ d.cpend \in Int /\ d.g.extra \in Int /\ CONN_WIN \in Int
      <4>1. Simple(e) /\ PastTyped(e.g) /\ Simple(d) /\ PastTyped(d.g)
        BY <1>1, Zenon DEF Typed
      <4>2. e.crwin \in Int /\ e.cpend \in Int /\ e.g.extra \in Int
        BY <4>1 DEF Simple, PastTyped
      <4>3. d.crwin \in Int /\ d.cpend \in Int /\ d.g.extra \in Int
        BY <4>1 DEF Simple, PastTyped
      <4> QED BY <4>2, <4>3, Consts
    <3> DEFINE pe == Part(e, k).len - Part(e, k).taken
               pd == Part(d, k).len - Part(d, k).taken
    <3>6. Part(e, k).len \in Int /\ Part(e, k).taken \in Int /\ Part(d, k).len \in Int /\ Part(d, k).taken \in Int
      BY <1>1, PartTyped
    <3>7. e.crwin + e.cpend + Rest(e.s[k]) + pe - e.g.extra = d.crwin + d.cpend + Rest(d.s[k]) + pd - d.g.extra
      <4>1. Rest(e.s[k]) \in Int /\ Rest(d.s[k]) \in Int
        BY <3>3, <3>4, Zenon
      <4> QED BY <1>6, <3>5, <3>6, <4>1, Zenon DEF Books
    <3> HIDE DEF pe, pd
    <3>8. d.crwin + d.cpend + Held(d) = CONN_WIN + d.g.extra
      BY <1>1, Zenon DEF Conn, Sum
    <3>9. Unread(e, k) = Rest(e.s[k]) /\ Coming(e, k) = pe /\ Unread(d, k) = Rest(d.s[k]) /\ Coming(d, k) = pd
      BY <3>3, <3>4, Zenon DEF pe, pd
    <3> DEFINE h == Held(d)  re == Rest(e.s[k])  rd == Rest(d.s[k])
    <3>10. h \in Int /\ re \in Int /\ rd \in Int /\ pe \in Int /\ pd \in Int /\ Held(e) = h - (rd + pd) + (re + pe)
      BY <3>2, <3>3, <3>4, <3>9, Zenon
    <3> HIDE DEF h, re, rd
    <3>11. e.crwin + e.cpend + re + pe - e.g.extra = d.crwin + d.cpend + rd + pd - d.g.extra
      BY <3>7, Zenon DEF re, rd
    <3>12. d.crwin + d.cpend + h = CONN_WIN + d.g.extra
      BY <3>8, Zenon DEF h
    <3>13. e.crwin + e.cpend + (h - (rd + pd) + (re + pe)) = CONN_WIN + e.g.extra
      <4> DEFINE ec == e.crwin  ep == e.cpend  ex == e.g.extra
                 dc == d.crwin  dp == d.cpend  dx == d.g.extra
      <4>1. /\ ec \in Int /\ ep \in Int /\ ex \in Int /\ dc \in Int /\ dp \in Int /\ dx \in Int
            /\ h \in Int /\ re \in Int /\ rd \in Int /\ pe \in Int /\ pd \in Int /\ CONN_WIN \in Int
            /\ ec + ep + re + pe - ex = dc + dp + rd + pd - dx /\ dc + dp + h = CONN_WIN + dx
        BY <3>5, <3>10, <3>11, <3>12, Zenon
      <4> HIDE DEF ec, ep, ex, dc, dp, dx
      <4>2. ec + ep + (h - (rd + pd) + (re + pe)) = CONN_WIN + ex
        BY <4>1
      <4> QED BY <4>2, Zenon DEF ec, ep, ex
    <3> QED BY <3>10, <3>13, Zenon DEF Sum
  <2>5. Encoding(e) /\ (e.eof # "no" => ~e.rx)
    BY <1>1, Zenon DEF Conn, Encoding, Aside
  <2>6. \A j \in Slots : e.s[j].id = 0 => e.s[j] = Slot0
    BY <1>1, <1>3, <1>4, Zenon DEF Conn
  <2>7. Conn(e)
    BY <1>6, <2>1, <2>2, <2>3, <2>4, <2>5, <2>6, Zenon DEF Conn
  <2>8. Owing(e, y)
    <3>1. ASSUME NEW j \in Slots \ {y} PROVE Paid(e.s[j])
      <4>1. CASE j = k
        BY <1>6, <3>1, <4>1, Zenon
      <4>2. CASE j # k
        <5>1. j # x
          BY <3>1, <4>2, Consts, Zenon
        <5> QED BY <1>1, <1>3, <4>2, <5>1, Zenon DEF Owing
      <4> QED BY <4>1, <4>2, Zenon
    <3> QED BY <1>6, <3>1, Zenon DEF Owing
  <2>9. ASSUME NEW j \in Slots PROVE SlotOK(e, j)
    <3>1. CASE j = k
      BY <1>6, <3>1, Zenon
    <3>2. CASE j # k
      <4>1. /\ e.s[j] = d.s[j] /\ Part(e, j) = Part(d, j) /\ Ending(e, j) = Ending(d, j)
            /\ e.next_id = d.next_id /\ e.p_win = d.p_win /\ SlotOK(d, j)
        BY <1>1, <3>2, Zenon DEF Aside
      <4>2. e.s[j].id \in Ids => e.g.st[e.s[j].id] = d.g.st[e.s[j].id]
        BY <1>3, <1>4, <3>2, Zenon
      <4> HIDE DEF id
      <4> QED BY <4>1, <4>2, Zenon DEF SlotOK
    <3> QED BY <3>1, <3>2, Zenon
  <2> QED BY <2>7, <2>8, <2>9, Zenon
<1> QED BY <1>5, <1>6, Zenon DEF Good

\* The same in two parts, for a step between two frames: what holds after any step, and what a
\* connection that goes on needs.
Remembers(e, d, k) ==
    LET st == e.g.st[d.s[k].id]
    IN  /\ st.whole /\ st.retry /\ (d.g.st[d.s[k].id].unproc => st.unproc)
        /\ e.s[k].err = "RETRY" => st.unproc
GoesOn(e, d, k) ==
    e.err = "OK" => /\ SlotOK(e, k) /\ Paid(e.s[k]) /\ Books(e, k) = Books(d, k)
                    /\ e.f.t # "DATA" => e.cpend < CREDIT
                    /\ Taking(e) /\ InBlock(e) /\ Told(e)
LEMMA OneSlotPaid ==
    ASSUME NEW d, Good(d, 0), d.err = "OK", NEW k \in Slots, d.s[k].id # 0, NEW e, Typed(e),
           Aside(e, d, k), e.g.wire, ~e.fault, e.tx <= TX, Remembers(e, d, k), GoesOn(e, d, k)
    PROVE  Good(e, 0)
<1>1. 0 \in {0, k, 0}
  OBVIOUS
<1>2. LET st == e.g.st[d.s[k].id]
      IN  /\ st.whole /\ st.retry /\ (d.g.st[d.s[k].id].unproc => st.unproc)
          /\ e.s[k].err = "RETRY" => st.unproc
  BY Zenon DEF Remembers
<1>3. e.err = "OK" => /\ SlotOK(e, k) /\ (k # 0 => Paid(e.s[k])) /\ Books(e, k) = Books(d, k)
                      /\ (0 = 0 /\ e.f.t # "DATA" => e.cpend < CREDIT)
                      /\ Taking(e) /\ InBlock(e) /\ Told(e)
  BY Zenon DEF GoesOn
<1> QED BY <1>1, <1>2, <1>3, OneSlot, Zenon

\* The slots hold the streams they held.
Named(e, d) == \A k \in Slots : e.s[k].id = d.s[k].id

\* What no clause of the invariant reads but the queue's own, and what a payload moves.
Neutral == Untyped \cup {"tx", "fault", "cwin", "rx"}

\* What the server says: of a stream that is gone, that it sent more; of any, that it was not processed.
Heard(e, d) ==
    \A i \in Ids :
        LET u == e.g.st[i]  st == d.g.st[i]
        IN  /\ u = [st EXCEPT !.unproc = u.unproc, !.es = u.es, !.dat = u.dat]
            /\ (st.unproc => u.unproc) /\ (st.es => u.es)
            /\ \/ u.es = st.es /\ u.dat = st.dat
               \/ i < d.next_id /\ \A k \in Slots : d.s[k].id = i => d.s[k].err # "OK"

LEMMA HeardIs ==
    ASSUME NEW d, Typed(d), NEW e, Heard(e, d), NEW i \in Ids
    PROVE  LET u == e.g.st[i]  st == d.g.st[i]
           IN  /\ u.ph = st.ph /\ u.sent = st.sent /\ u.wu = st.wu /\ u.read = st.read
               /\ u.whole = st.whole /\ u.retry = st.retry
               /\ (st.unproc => u.unproc) /\ (st.es => u.es)
               /\ \/ u.es = st.es /\ u.dat = st.dat
                  \/ i < d.next_id /\ \A k \in Slots : d.s[k].id = i => d.s[k].err # "OK"
<1> DEFINE u == e.g.st[i]  st == d.g.st[i]
<1>1. /\ u = [st EXCEPT !.unproc = u.unproc, !.es = u.es, !.dat = u.dat]
      /\ (st.unproc => u.unproc) /\ (st.es => u.es)
      /\ \/ u.es = st.es /\ u.dat = st.dat
         \/ i < d.next_id /\ \A k \in Slots : d.s[k].id = i => d.s[k].err # "OK"
  BY Zenon DEF Heard
<1>2. st \in StreamType
  BY StreamTyped
<1> HIDE DEF u, st
<1> DEFINE a == u.unproc  b == u.es  n == u.dat
<1>3. u = [st EXCEPT !.unproc = a, !.es = b, !.dat = n]
  BY <1>1
<1> HIDE DEF a, b, n
<1>4. /\ u.ph = st.ph /\ u.sent = st.sent /\ u.wu = st.wu /\ u.read = st.read
      /\ u.whole = st.whole /\ u.retry = st.retry
  BY <1>2, <1>3 DEF StreamType
<1> HIDE DEF u, st
<1>5. /\ (st.unproc => u.unproc) /\ (st.es => u.es)
      /\ (u.es = st.es /\ u.dat = st.dat) \/ (i < d.next_id /\ \A k \in Slots : d.s[k].id = i => d.s[k].err # "OK")
  BY <1>1
<1> QED BY <1>4, <1>5, Zenon DEF u, st

LEMMA HeardKeeps ==
    ASSUME NEW d, NEW x, Good(d, x), NEW e, Typed(e),
           Same(e, d, Neutral \cup {"pos", "dat", "f", "fs", "b", "enc", "g", "crwin", "cpend"}),
           e.crwin + e.cpend = d.crwin + d.cpend,
           PastSame(e, d, {"st", "tab", "believed", "low"}), Heard(e, d), ~e.fault, e.tx <= TX,
           e.err = "OK" =>
              /\ d.err = "OK" /\ (\A k \in Slots : Part(e, k) = Part(d, k) /\ Ending(e, k) = Ending(d, k))
              /\ Taking(e) /\ InBlock(e) /\ Told(e) /\ Encoding(e) /\ (e.eof # "no" => ~e.rx)
              /\ x = 0 /\ e.f.t # "DATA" => e.cpend < CREDIT
    PROVE  Good(e, x)
<1>1. e.s = d.s /\ e.p_win = d.p_win /\ e.next_id = d.next_id
  BY DEF Same, Neutral, Untyped, Fields
<1>2. Kept(d) /\ Typed(d)
  BY Zenon DEF Good, Kept
<1>3. e.g.wire = d.g.wire /\ e.g.extra = d.g.extra
  BY DEF PastSame, Past
<1>4. ASSUME NEW i \in Ids
      PROVE  LET u == e.g.st[i]  st == d.g.st[i]
             IN  /\ u.ph = st.ph /\ u.sent = st.sent /\ u.wu = st.wu /\ u.read = st.read
                 /\ u.whole = st.whole /\ u.retry = st.retry
                 /\ (st.unproc => u.unproc) /\ (st.es => u.es)
                 /\ \/ u.es = st.es /\ u.dat = st.dat
                    \/ i < d.next_id /\ \A k \in Slots : d.s[k].id = i => d.s[k].err # "OK"
  BY <1>2, HeardIs
<1>5. Kept(e)
  <2>1. \A i \in Ids : e.g.st[i].whole /\ e.g.st[i].retry
    BY <1>2, <1>4, Zenon DEF Kept
  <2>2. \A k \in Slots : e.s[k].err = "RETRY" => e.s[k].id \in Ids /\ e.g.st[e.s[k].id].unproc
    BY <1>1, <1>2, <1>4 DEF Kept
  <2> QED BY <1>2, <1>3, <2>1, <2>2, Zenon DEF Kept
<1>6. ASSUME e.err = "OK"
      PROVE  Conn(e) /\ Owing(e, x) /\ \A k \in Slots : SlotOK(e, k)
  <2>1. Conn(d) /\ Owing(d, x) /\ (\A k \in Slots : SlotOK(d, k)) /\ d.err = "OK"
    BY <1>6 DEF Good
  <2>2. \A k \in Slots : Part(e, k) = Part(d, k) /\ Ending(e, k) = Ending(d, k)
    BY <1>6
  <2>3. Sum(e)
    <3>1. ASSUME NEW k \in Slots PROVE Unread(e, k) = Unread(d, k) /\ Coming(e, k) = Coming(d, k)
      <4>1. Coming(e, k) = Part(e, k).len - Part(e, k).taken
        BY BoundToAsk
      <4>2. Coming(d, k) = Part(d, k).len - Part(d, k).taken
        BY <1>2, BoundToAsk
      <4> QED BY <1>1, <2>2, <4>1, <4>2 DEF Unread
    <3>2. Held(e) = Held(d)
      BY <1>2, <3>1, HeldSame
    <3>3. d.crwin + d.cpend + Held(d) = CONN_WIN + d.g.extra
      BY <2>1 DEF Conn, Sum
    <3> QED BY <1>3, <3>2, <3>3 DEF Sum
  <2>4. Distinct(e)
    BY <1>1, <2>1 DEF Conn, Distinct
  <2>5. Fresh(e)
    <3>1. ASSUME NEW i \in Ids, i >= e.next_id
          PROVE  e.g.st[i] = [Stream0 EXCEPT !.unproc = e.g.st[i].unproc]
      <4> DEFINE u == e.g.st[i]  st == d.g.st[i]
      <4>1. st = [Stream0 EXCEPT !.unproc = st.unproc]
        BY <1>1, <2>1, <3>1 DEF Conn, Fresh
      <4>2. ~(i < d.next_id)
        <5>1. i \in Nat /\ d.next_id \in Nat
          BY <1>2, Consts DEF Typed, Simple
        <5> QED BY <1>1, <3>1, <5>1
      <4>3. u.es = st.es /\ u.dat = st.dat
        BY <1>4, <4>2, Zenon
      <4>4. u = [st EXCEPT !.unproc = u.unproc, !.es = u.es, !.dat = u.dat]
        BY Zenon DEF Heard
      <4>5. st \in StreamType
        BY <1>2, StreamTyped
      <4> HIDE DEF u, st
      <4>6. st.es = Stream0.es /\ st.dat = Stream0.dat
        BY <4>1, Zenon DEF Stream0
      <4>7. u = [st EXCEPT !.unproc = u.unproc]
        BY <4>3, <4>4, <4>5, Zenon DEF StreamType
      <4>8. u = [Stream0 EXCEPT !.unproc = u.unproc]
        BY <4>1, <4>7 DEF Stream0
      <4> QED BY <4>8 DEF u
    <3> QED BY <1>1, <2>1, <3>1 DEF Conn, Fresh
  <2>6. Concluded(e)
    BY <1>1, <1>4, <2>1 DEF Conn, Concluded
  <2>7. \A k \in Slots : e.s[k].id = 0 => e.s[k] = Slot0
    BY <1>1, <2>1 DEF Conn
  <2>8. Conn(e)
    BY <1>6, <2>3, <2>4, <2>5, <2>6, <2>7, Zenon DEF Conn
  <2>9. Owing(e, x)
    BY <1>1, <1>6, <2>1 DEF Owing
  <2>10. ASSUME NEW k \in Slots, e.s[k].id # 0 PROVE SlotOK(e, k)
    <3> DEFINE s == e.s[k]  u == e.g.st[s.id]  st == d.g.st[s.id]
               y == Part(d, k)  b == Part(d, k).es \/ Ending(d, k)
    <3>1. /\ s.id \in Ids /\ s.id < e.next_id
          /\ Closing(s, st, Part(d, k).es \/ Ending(d, k)) /\ Counting(s, st, Part(d, k)) /\ Granted(s, st, e.p_win)
      <4>1. s = d.s[k] /\ SlotOK(d, k) /\ d.s[k].id # 0 /\ e.next_id = d.next_id /\ e.p_win = d.p_win
        BY <1>1, <2>1, <2>10
      <4> QED BY <4>1, Zenon DEF SlotOK
    <3>2. /\ u.ph = st.ph /\ u.sent = st.sent /\ u.wu = st.wu /\ u.read = st.read
          /\ (st.es => u.es)
          /\ (u.es = st.es /\ u.dat = st.dat) \/ s.err # "OK"
      <4>1. s.id \in Ids /\ s = d.s[k]
        BY <1>1, <3>1, Zenon
      <4> HIDE DEF s
      <4>2. /\ u.ph = st.ph /\ u.sent = st.sent /\ u.wu = st.wu /\ u.read = st.read
            /\ (st.es => u.es)
            /\ (u.es = st.es /\ u.dat = st.dat) \/ \A j \in Slots : d.s[j].id = s.id => d.s[j].err # "OK"
        BY <1>4, <4>1, Zenon
      <4> QED BY <4>1, <4>2, Zenon
    <3> HIDE DEF s, u, st
    <3>3. Closing(s, u, Part(e, k).es \/ Ending(e, k))
      BY <2>2, <3>1, <3>2 DEF Closing
    <3>4. Counting(s, u, Part(e, k))
      BY <2>2, <3>1, <3>2 DEF Counting
    <3>5. Granted(s, u, e.p_win)
      BY <3>1, <3>2 DEF Granted
    <3> QED BY <3>1, <3>3, <3>4, <3>5, Zenon DEF SlotOK, s, u
  <2>11. \A k \in Slots : SlotOK(e, k)
    BY <2>10, Zenon DEF SlotOK
  <2> QED BY <2>8, <2>9, <2>11
<1> QED BY <1>5, <1>6 DEF Good

LEMMA PlaceKeeps ==
    ASSUME NEW d, NEW x, Good(d, x), NEW e, Typed(e),
           Same(e, d, Neutral \cup {"pos", "dat", "f", "fs", "b", "enc", "g"}),
           PastSame(e, d, {"tab", "believed", "low"}), ~e.fault, e.tx <= TX,
           e.err = "OK" =>
              /\ d.err = "OK" /\ (\A k \in Slots : Part(e, k) = Part(d, k) /\ Ending(e, k) = Ending(d, k))
              /\ Taking(e) /\ InBlock(e) /\ Told(e) /\ Encoding(e) /\ (e.eof # "no" => ~e.rx)
              /\ x = 0 /\ e.f.t # "DATA" => e.cpend < CREDIT
    PROVE  Good(e, x)
<1>1. e.g.st = d.g.st /\ PastSame(e, d, {"st", "tab", "believed", "low"})
  BY DEF PastSame, Past
<1>2. Typed(d)
  BY Zenon DEF Good, Kept
<1>4. /\ Same(e, d, Neutral \cup {"pos", "dat", "f", "fs", "b", "enc", "g", "crwin", "cpend"})
      /\ e.crwin + e.cpend = d.crwin + d.cpend
  BY DEF Same, Neutral, Untyped, Fields
<1>3. Heard(e, d)
  <2> SUFFICES ASSUME NEW i \in Ids
               PROVE  d.g.st[i] = [d.g.st[i] EXCEPT !.unproc = d.g.st[i].unproc, !.es = d.g.st[i].es,
                                                    !.dat = d.g.st[i].dat]
    BY <1>1, Zenon DEF Heard
  <2>1. d.g.st[i] \in StreamType
    BY <1>2, StreamTyped
  <2> QED BY <2>1, Zenon DEF StreamType
<1> QED BY <1>1, <1>3, <1>4, HeardKeeps, Zenon

LEMMA NeutralKeeps ==
    ASSUME NEW d, NEW x, Good(d, x), NEW e, Typed(e), Same(e, d, Neutral), ~e.fault, e.tx <= TX,
           e.err = "OK" => d.err = "OK" /\ (e.eof # "no" => ~e.rx)
    PROVE  Good(e, x)
<1>1. /\ e.b = d.b /\ e.s = d.s /\ e.f = d.f /\ e.fs = d.fs /\ e.dat = d.dat /\ e.pos = d.pos
      /\ e.g = d.g /\ e.enc = d.enc /\ e.goaway = d.goaway /\ e.last_id = d.last_id /\ e.cpend = d.cpend
  BY DEF Same, Neutral, Untyped, Fields
<1>2. Same(e, d, Neutral \cup {"pos", "dat", "f", "fs", "b", "enc", "g"}) /\ PastSame(e, d, {"tab", "believed", "low"})
  BY <1>1 DEF Same, PastSame
<1>3. ASSUME e.err = "OK"
      PROVE  /\ Taking(e) /\ InBlock(e) /\ Told(e) /\ Encoding(e)
             /\ x = 0 /\ e.f.t # "DATA" => e.cpend < CREDIT
  <2>1. Conn(d) /\ Owing(d, x)
    BY <1>3 DEF Good
  <2> QED BY <1>1, <2>1, Zenon DEF Conn, Taking, InBlock, Told, Encoding, Owing
<1>4. \A k \in Slots : Part(e, k) = Part(d, k) /\ Ending(e, k) = Ending(d, k)
  BY <1>1 DEF Part, Ending
<1> QED BY <1>2, <1>3, <1>4, PlaceKeeps

\* Queued, and with it the connection failed.
LEMMA ConnErrKeeps ==
    ASSUME NEW d, Kept(d), d.tx < TX, NEW x
    PROVE  LET e == h2_conn_err(d)
           IN  /\ Good(e, x) /\ Same(e, d, {"fault", "tx", "err"}) /\ e.err # "OK"
               /\ e.tx <= d.tx + 1
<1> DEFINE e == h2_conn_err(d)
<1>1. /\ Typed(e) /\ Same(e, d, {"fault", "tx", "err"}) /\ e.err # "OK"
      /\ IF d.err = "OK" THEN e.tx = d.tx + 1 /\ (e.fault <=> d.fault \/ d.tx = TX)
         ELSE e = d
  BY ConnErrDoes, Zenon DEF Kept
<1>2. d.tx \in Nat /\ TX \in Nat
  BY Consts, Zenon DEF Kept, Typed, Simple
<1> HIDE DEF e
<1>3. ~e.fault /\ e.tx <= TX /\ e.tx <= d.tx + 1
  BY <1>1, <1>2 DEF Kept
<1>4. e.s = d.s /\ e.g = d.g
  BY <1>1 DEF Same, Fields
<1>5. Kept(e)
  BY <1>1, <1>3, <1>4, Zenon DEF Kept
<1> QED BY <1>1, <1>3, <1>5 DEF Good, e

\* A queued frame that says nothing of a stream.
LEMMA CtrlKeeps ==
    ASSUME NEW d, NEW x, Good(d, x), d.tx < TX
    PROVE  LET e == h2_ctrl(d) IN Good(e, x) /\ Same(e, d, {"fault", "tx"}) /\ e.tx = d.tx + 1
<1> DEFINE e == h2_ctrl(d)
<1>1. Kept(d) /\ Typed(d) /\ d.tx \in Nat /\ TX \in Nat
  BY Consts, Zenon DEF Good, Kept, Typed, Simple
<1>2. /\ Typed(e) /\ Same(e, d, {"fault", "tx"})
      /\ e.tx = d.tx + 1 /\ (e.fault <=> d.fault \/ d.tx = TX)
  BY <1>1, CtrlDoes
<1> HIDE DEF e
<1>3. ~e.fault /\ e.tx <= TX
  BY <1>1, <1>2 DEF Kept
<1>4. Same(e, d, Neutral) /\ e.err = d.err /\ e.eof = d.eof /\ e.rx = d.rx
  BY <1>2 DEF Same, Neutral, Fields
<1>5. d.err = "OK" /\ d.eof # "no" => ~d.rx
  BY DEF Good, Conn
<1>6. Good(e, x)
  BY <1>2, <1>3, <1>4, <1>5, NeutralKeeps
<1> QED BY <1>2, <1>6 DEF e

\* The transport took what was queued, or failed for good.
LEMMA FlushKeeps ==
    ASSUME NEW d, NEW x, Good(d, x), NEW w \in BOOLEAN
    PROVE  LET e == h2_flush(d, w)
           IN  /\ Good(e, x) /\ Same(e, d, {"tx", "err"}) /\ e.tx = 0
               /\ e.err = IF d.tx # 0 /\ ~w /\ d.err = "OK" THEN "IO" ELSE d.err
<1> DEFINE e == h2_flush(d, w)
<1>1. Kept(d) /\ Typed(d) /\ TX \in Nat
  BY Consts, Zenon DEF Good, Kept
<1>2. /\ Typed(e) /\ Same(e, d, {"tx", "err"}) /\ e.tx = 0
      /\ e.err = IF d.tx # 0 /\ ~w /\ d.err = "OK" THEN "IO" ELSE d.err
  BY <1>1, FlushDoes
<1> HIDE DEF e
<1>3. Same(e, d, Neutral) /\ e.fault = d.fault /\ e.eof = d.eof /\ e.rx = d.rx
  BY <1>2 DEF Same, Neutral, Untyped, Fields
<1>4. ~e.fault /\ e.tx <= TX
  BY <1>1, <1>2, <1>3 DEF Kept
<1>5. d.err = "OK" /\ d.eof # "no" => ~d.rx
  BY DEF Good, Conn
<1>6. e.err = "OK" => d.err = "OK"
  BY <1>2
<1>7. Good(e, x)
  BY <1>2, <1>3, <1>4, <1>5, <1>6, NeutralKeeps
<1> QED BY <1>2, <1>7 DEF e
\* What a stream must still satisfy to be reset for an error.
Resettable(r, k) ==
    LET s == r.s[k]  st == r.g.st[s.id]
    IN  /\ st.whole /\ st.retry /\ (s.err = "RETRY" => st.unproc)
        /\ s.hdr <= s.rlen /\ Granted(s, st, r.p_win)
        /\ Has(s, "RECV_END") => st.es
        /\ IF Has(s, "RST") \/ BothEnds(s) THEN st.ph = "reset" \/ (st.ph = "ended" /\ st.es)
           ELSE st.ph \in {"open", "ended"} /\ r.tx < TX

Failing(r, d, k, y) ==
    /\ Typed(r) /\ Aside(r, d, k) /\ r.g.wire /\ ~r.fault /\ r.tx <= TX /\ Resettable(r, k)
    /\ d.g.st[d.s[k].id].unproc => r.g.st[d.s[k].id].unproc
    /\ r.fs = 0 /\ r.b.s = 0 /\ (r.b.in => r.f.t \in {"none", "HEADERS", "CONT"}) /\ Told(r)
    /\ Books(r, k) = Books(d, k)
    /\ y = 0 /\ r.f.t # "DATA" => r.cpend < CREDIT
FailedDone(e, r, k, y) ==
    /\ Good(e, y) /\ Same(e, r, {"s", "g", "fault", "tx"}) /\ e.tx <= r.tx + 1
    /\ SlotBecomes(e, r, k, FailedSlot(r.s[k]))
LEMMA FailedKeeps ==
    ASSUME NEW d, NEW x, Good(d, x), d.err = "OK", NEW k \in Slots, d.s[k].id # 0, NEW r,
           NEW y, x \in {0, k, y}, Failing(r, d, k, y)
    PROVE  FailedDone(h2_stream_err(r, k), r, k, y)
<1> SUFFICES ASSUME Typed(r), Aside(r, d, k), r.g.wire, ~r.fault, r.tx <= TX, Resettable(r, k),
                    d.g.st[d.s[k].id].unproc => r.g.st[d.s[k].id].unproc,
                    r.fs = 0, r.b.s = 0, r.b.in => r.f.t \in {"none", "HEADERS", "CONT"}, Told(r),
                    Books(r, k) = Books(d, k), y = 0 /\ r.f.t # "DATA" => r.cpend < CREDIT
             PROVE  FailedDone(h2_stream_err(r, k), r, k, y)
  BY Zenon DEF Failing
<1> DEFINE e  == h2_stream_err(r, k)
           id == d.s[k].id
           s  == r.s[k]
           t  == FailedSlot(s)
           live == ~(Has(s, "RST") \/ BothEnds(s))
<1>1. Kept(d) /\ Typed(d) /\ SlotOK(d, k) /\ r.s[k].id = id
  BY Zenon DEF Good, Kept, Aside
<1>2. id \in Ids /\ id < d.next_id
  BY <1>1, Zenon DEF SlotOK
<1>3. /\ Typed(e) /\ Same(e, r, {"s", "g", "fault", "tx"}) /\ PastSame(e, r, {"st", "wire"})
      /\ SlotBecomes(e, r, k, t)
      /\ IF Has(s, "RST") \/ BothEnds(s)
         THEN e.tx = r.tx /\ e.fault = r.fault /\ e.g = r.g
         ELSE /\ e.tx = r.tx + 1 /\ (e.fault <=> r.fault \/ r.tx = TX)
              /\ (e.g.wire <=> r.g.wire /\ r.g.st[id].ph \in {"open", "ended"})
              /\ StreamBecomes(e, r, id, [r.g.st[id] EXCEPT !.ph = "reset"])
  BY <1>1, <1>2, StreamErrDoes, ZenonT(40)
<1>4. s \in SlotType /\ r.g.st[id] \in StreamType
  BY <1>2, SlotTyped, StreamTyped, Zenon
<1>5. /\ t \in SlotType /\ t.err # "OK" /\ Has(t, "RST")
      /\ t.id = s.id /\ t.rlen = s.rlen /\ t.hdr = s.hdr
      /\ t.swin = s.swin
      /\ Has(t, "RECV_END") = Has(s, "RECV_END")
      /\ Has(t, "SENT_END") = Has(s, "SENT_END")
      /\ t.err = "RETRY" => s.err = "RETRY"
  BY <1>4, FailedSlotIs, Zenon
<1> HIDE DEF e, t
<1>6. e.s[k] = t /\ \A j \in Slots : j # k => e.s[j] = r.s[j]
  BY <1>3, <1>5, SlotChanged
<1>7. /\ e.err = r.err /\ e.eof = r.eof /\ e.goaway = r.goaway /\ e.last_id = r.last_id
      /\ e.next_id = r.next_id /\ e.p_win = r.p_win /\ e.crwin = r.crwin /\ e.cpend = r.cpend
      /\ e.rx = r.rx /\ e.f = r.f /\ e.fs = r.fs /\ e.dat = r.dat /\ e.b = r.b /\ e.enc = r.enc
  BY <1>3, Zenon DEF Same, Fields
<1>8. /\ e.g.extra = r.g.extra /\ e.g.believed = r.g.believed /\ e.g.low = r.g.low
  BY <1>3, Zenon DEF PastSame, Past
<1>9. r.tx \in Nat /\ TX \in Nat /\ e.tx \in Nat
  BY <1>3, Consts, Zenon DEF Typed, Simple
<1> DEFINE st == r.g.st[id]
           u  == e.g.st[id]
<1>10. /\ u.whole = st.whole /\ u.retry = st.retry /\ u.unproc = st.unproc /\ u.es = st.es
       /\ u.wu = st.wu /\ u.sent = st.sent
       /\ u.ph = IF live THEN "reset" ELSE st.ph
       /\ \A i \in Ids : i # id => e.g.st[i] = r.g.st[i]
  <2>1. CASE ~live
    BY <1>3, <2>1, Zenon
  <2>2. CASE live
    <3>1. StreamBecomes(e, r, id, [st EXCEPT !.ph = "reset"])
      BY <1>3, <2>2, Zenon
    <3>2. [st EXCEPT !.ph = "reset"] \in StreamType
      BY <1>4, Zenon DEF StreamType
    <3> DEFINE h == [st EXCEPT !.ph = "reset"]
    <3>3. /\ h.whole = st.whole /\ h.retry = st.retry /\ h.unproc = st.unproc /\ h.es = st.es
          /\ h.wu = st.wu /\ h.sent = st.sent /\ h.ph = "reset"
      BY <1>4, Zenon DEF StreamType
    <3> HIDE DEF h
    <3>4. u = h /\ \A i \in Ids : i # id => e.g.st[i] = r.g.st[i]
      <4> HIDE DEF id
      <4> QED BY <1>2, <3>1, <3>2, StreamChanged DEF h
    <3> QED BY <2>2, <3>3, <3>4, Zenon
  <2> QED BY <2>1, <2>2, Zenon
<1> HIDE DEF u, id
<1>11. /\ st.whole /\ st.retry /\ (s.err = "RETRY" => st.unproc)
       /\ s.hdr <= s.rlen /\ Granted(s, st, r.p_win)
       /\ Has(s, "RECV_END") => st.es
       /\ IF Has(s, "RST") \/ BothEnds(s) THEN st.ph = "reset" \/ (st.ph = "ended" /\ st.es)
          ELSE st.ph \in {"open", "ended"} /\ r.tx < TX
  BY <1>1, Zenon DEF Resettable, id
<1> HIDE DEF st
<1>12. e.g.wire /\ ~e.fault /\ e.tx <= TX /\ e.tx <= r.tx + 1
  BY <1>3, <1>9, <1>11 DEF st
<1>13. Aside(e, d, k)
  <2>1. \A j \in Slots : Part(e, j) = Part(r, j) /\ Ending(e, j) = Ending(r, j)
    BY <1>7 DEF Part, Ending
  <2> QED BY <1>1, <1>5, <1>6, <1>7, <1>8, <1>10, <2>1 DEF Aside, id
<1>14. Part(e, k) = Idle0 /\ Part(r, k) = Idle0
  BY <1>7, Consts DEF Part
<1>15. SlotOK(e, k)
  <2>1. Closing(t, u, Part(e, k).es \/ Ending(e, k))
    BY <1>5, <1>10, <1>11 DEF Closing
  <2>2. Counting(t, u, Part(e, k))
    BY <1>5, <1>11, Zenon DEF Counting
  <2>3. Granted(t, u, e.p_win)
    BY <1>5, <1>7, <1>10, <1>11, Zenon DEF Granted
  <2>4. e.g.st[e.s[k].id] = u /\ e.s[k] = t
    BY <1>1, <1>5, <1>6, Zenon DEF u
  <2>5. t.id = id /\ id < e.next_id
    BY <1>1, <1>2, <1>5, <1>7 DEF Aside
  <2>6. e.s[k].id \in Ids /\ e.s[k].id < e.next_id
    BY <1>2, <2>4, <2>5, Zenon
  <2> DEFINE q == e.s[k]  z == e.g.st[q.id]
  <2>7. q = t /\ z = u
    BY <2>4, Zenon
  <2> HIDE DEF q, z
  <2>8. Closing(q, z, Part(e, k).es \/ Ending(e, k)) /\ Counting(q, z, Part(e, k)) /\ Granted(q, z, e.p_win)
    BY <2>1, <2>2, <2>3, <2>7, Zenon
  <2> QED BY <2>6, <2>8, Zenon DEF SlotOK, q, z
<1>16. Paid(e.s[k]) /\ Books(e, k) = Books(d, k)
  BY <1>5, <1>6, <1>7, <1>8, <1>14 DEF Paid, Books, Rest
<1>17. Taking(e) /\ InBlock(e)
  BY <1>7, Zenon DEF Taking, InBlock
<1>18. Told(e)
  <2>1. \A i \in Ids : r.g.st[i].unproc => e.g.st[i].unproc
    BY <1>10, Zenon DEF u, st
  <2> QED BY <1>7, <2>1 DEF Told
<1>19. /\ u.whole /\ u.retry /\ (d.g.st[id].unproc => u.unproc) /\ (e.s[k].err = "RETRY" => u.unproc)
  BY <1>5, <1>6, <1>10, <1>11, ZenonT(40) DEF u, st, id
<1>20. Good(e, y)
  <2>1. e.err = "OK" => /\ SlotOK(e, k) /\ (k # y => Paid(e.s[k])) /\ Books(e, k) = Books(d, k)
                        /\ (y = 0 /\ e.f.t # "DATA" => e.cpend < CREDIT)
                        /\ Taking(e) /\ InBlock(e) /\ Told(e)
    BY <1>7, <1>15, <1>16, <1>17, <1>18, Zenon
  <2>2. LET v == e.g.st[d.s[k].id]
        IN  /\ v.whole /\ v.retry /\ (d.g.st[d.s[k].id].unproc => v.unproc)
            /\ e.s[k].err = "RETRY" => v.unproc
    BY <1>19, Zenon DEF u, id
  <2>3. Typed(e) /\ Aside(e, d, k) /\ e.g.wire /\ ~e.fault /\ e.tx <= TX
    BY <1>3, <1>12, <1>13, Zenon
  <2> QED BY <2>1, <2>2, <2>3, OneSlot
<1> QED BY <1>3, <1>12, <1>20, Zenon DEF e, t, FailedDone
-----------------------------------------------------------------------------
(* Payloads *)

\* Only the place in the frame has moved.
LEMMA PlaceMoved ==
    ASSUME NEW d, NEW x, Good(d, x), d.err = "OK", NEW e, Shape(e), NEW p \in Nat,
           Same(e, d, {"pos"}), e.pos = p,
           d.fs # 0 => d.dat = FrameData(d.f, p) /\ p <= d.f.len
    PROVE  Good(e, x)
<1>1. Kept(d) /\ Typed(d) /\ Conn(d) /\ Owing(d, x)
  BY Zenon DEF Good, Kept
<1>2. /\ e.err = d.err /\ e.eof = d.eof /\ e.goaway = d.goaway /\ e.last_id = d.last_id
      /\ e.next_id = d.next_id /\ e.p_win = d.p_win /\ e.cpend = d.cpend /\ e.cwin = d.cwin
      /\ e.tx = d.tx /\ e.fault = d.fault /\ e.rx = d.rx /\ e.f = d.f /\ e.fs = d.fs /\ e.dat = d.dat
      /\ e.b = d.b /\ e.enc = d.enc /\ e.s = d.s /\ e.g = d.g /\ e.crwin = d.crwin
  BY DEF Same, Fields
<1>3. Same(e, d, Scalars) /\ Same(e, d, Neutral \cup {"pos", "dat", "f", "fs", "b", "enc", "g"})
  BY DEF Same, Scalars, Fields
<1>4. Simple(e)
  BY <1>1, <1>2 DEF Typed, Simple
<1>5. Typed(e)
  BY <1>1, <1>3, <1>4, TypedAfter
<1>6. ~e.fault /\ e.tx <= TX /\ PastSame(e, d, {"tab", "believed", "low"})
  BY <1>1, <1>2, Zenon DEF Kept, PastSame
<1>7. \A k \in Slots : Part(e, k) = Part(d, k) /\ Ending(e, k) = Ending(d, k)
  BY <1>2 DEF Part, Ending
<1>8. InBlock(e) /\ Told(e) /\ Encoding(e) /\ (e.eof # "no" => ~e.rx)
  BY <1>1, <1>2 DEF Conn, InBlock, Told, Encoding
<1>9. Taking(e)
  BY <1>1, <1>2 DEF Conn, Taking
<1>10. x = 0 /\ e.f.t # "DATA" => e.cpend < CREDIT
  BY <1>1, <1>2 DEF Owing
<1> QED BY <1>3, <1>5, <1>6, <1>7, <1>8, <1>9, <1>10, PlaceKeeps, Zenon

\* The data of a frame that the slot k takes are in the ring.
LEMMA RingKeeps ==
    ASSUME NEW d, Good(d, 0), d.err = "OK", d.fs \in Slots, NEW p \in Nat, d.pos <= p, p <= d.f.len,
           NEW e,
           LET n == FrameData(d.f, p) - d.dat
           IN  e = [[ring_put_octets(d, d.fs, n) EXCEPT !.dat = @ + n] EXCEPT !.pos = p]
    PROVE  Good(e, 0) /\ Same(e, d, {"s", "dat", "pos"}) /\ Named(e, d)
<1> DEFINE k == d.fs
           n == FrameData(d.f, p) - d.dat
           s == d.s[k]
           t == [s EXCEPT !.rlen = s.rlen + n]
           id == s.id
           st == d.g.st[id]
           len == d.f.len
           whole == FrameData(d.f, d.f.len)
<1>1. Kept(d) /\ Typed(d) /\ Conn(d) /\ Owing(d, 0) /\ SlotOK(d, k) /\ Shape(d) /\ Simple(d)
      /\ (\A j \in Slots : SlotOK(d, j)) /\ k # 0
  BY Consts, Zenon DEF Good, Kept, Typed
<1>2. /\ d.f.t = "DATA" /\ id = d.f.sid /\ id # 0
      /\ Has(s, "FINAL") /\ ~Has(s, "RST") /\ ~Has(s, "RECV_END")
      /\ d.dat = FrameData(d.f, d.pos) /\ d.pos <= len
  BY <1>1 DEF Conn, Taking
<1>3. s \in SlotType /\ d.f \in Frames \cup {NoFrame} /\ d.pos \in Nat /\ d.dat \in Nat
  BY <1>1, SlotTyped DEF Typed, Simple
<1>4. len \in Nat
  BY <1>3, FrameTyped
<1>5. /\ n \in Nat /\ d.dat + n = FrameData(d.f, p) /\ d.dat + n <= whole /\ d.dat + n <= len
      /\ whole \in Nat
  <2>1. FrameData(d.f, d.pos) \in Nat /\ FrameData(d.f, p) \in Nat /\ FrameData(d.f, d.pos) <= FrameData(d.f, p)
        /\ FrameData(d.f, p) <= p
    BY <1>3, <1>4, FrameDataGrows
  <2>2. FrameData(d.f, len) \in Nat /\ FrameData(d.f, p) <= FrameData(d.f, len)
    BY <1>3, <1>4, FrameDataGrows
  <2> HIDE DEF len
  <2> QED BY <1>2, <1>3, <1>4, <2>1, <2>2 DEF len
<1>6. Part(d, k) = [on |-> TRUE, len |-> len, whole |-> whole, taken |-> d.dat, es |-> d.f.es]
  BY DEF Part
<1>7. id \in Ids /\ id < d.next_id /\ Closing(s, st, Part(d, k).es \/ Ending(d, k))
      /\ Counting(s, st, Part(d, k)) /\ Granted(s, st, d.p_win)
  BY <1>1, <1>2, Zenon DEF SlotOK
<1>8. s.err = "OK"
  BY <1>2, <1>7, Zenon DEF Closing
<1>9. /\ s.hdr <= s.rlen /\ s.rwin + s.pend + Rest(s) + len - d.dat = W
      /\ s.pend + Rest(s) + len - d.dat <= W
      /\ s.hdr <= MAX_LIST /\ s.ready <= Rest(s)
      /\ st.dat = st.read + Rest(s) + whole - d.dat /\ s.got = st.dat - whole
  BY <1>2, <1>6, <1>7, <1>8 DEF Counting
<1>10. /\ s.rlen \in Nat /\ s.hdr \in Nat /\ s.pend \in Nat /\ s.rwin \in Int /\ s.ready \in Nat
       /\ W \in Nat /\ MAX_LIST \in Nat
  BY <1>3, Consts, Zenon DEF SlotType
<1>11. ~(n > W + MAX_LIST - s.rlen)
  <2> HIDE DEF n, s, len
  <2> QED BY <1>3, <1>4, <1>5, <1>9, <1>10 DEF Rest
<1>12. /\ Shape(e) /\ Same(e, d, {"s", "dat", "pos"}) /\ SlotBecomes(e, d, k, t)
       /\ e.dat = d.dat + n /\ e.pos = p
  <2>1. e = [[[d EXCEPT !.s[k].rlen = @ + n] EXCEPT !.dat = @ + n] EXCEPT !.pos = p]
    BY <1>11 DEF ring_put_octets
  <2> DEFINE q == [d EXCEPT !.s[k].rlen = @ + n]
  <2>2. Shape(q) /\ Same(q, d, {"s"}) /\ q.s = [d.s EXCEPT ![k] = t]
    <3> HIDE DEF n
    <3>1. Shape(q) /\ Same(q, d, {"s"})
      BY <1>1, Zenon DEF Shape, Same, Fields
    <3>2. q.s = [d.s EXCEPT ![k] = t]
      BY <1>1, <1>3, Zenon DEF Shape, Fields
    <3> QED BY <3>1, <3>2, Zenon
  <2>3. e = [[q EXCEPT !.dat = @ + n] EXCEPT !.pos = p]
    BY <2>1
  <2> HIDE DEF q, n, t
  <2>4. Shape(e) /\ Same(e, q, {"dat", "pos"}) /\ e.dat = q.dat + n /\ e.pos = p
    BY <2>2, <2>3, Zenon DEF Shape, Same, Fields
  <2> QED BY <2>2, <2>4, Zenon DEF Same, Fields, SlotBecomes
<1>13. /\ t \in SlotType /\ t.rlen = s.rlen + n
       /\ t.id = s.id /\ t.swin = s.swin /\ t.rwin = s.rwin /\ t.pend = s.pend /\ t.hdr = s.hdr
       /\ t.ready = s.ready /\ t.got = s.got /\ t.cl = s.cl /\ t.err = s.err /\ t.fl = s.fl
  <2> DEFINE a == s.rlen + n
  <2>1. a \in Nat /\ t = [s EXCEPT !.rlen = a]
    BY <1>5, <1>10
  <2> HIDE DEF a, t, s
  <2> QED BY <1>3, <2>1 DEF SlotType, a
<1> HIDE DEF t
<1>14. e.s \in [Slots -> SlotType] /\ e.s[k] = t /\ \A j \in Slots : j # k => e.s[j] = d.s[j]
  <2>1. k \in Slots
    OBVIOUS
  <2>2. Typed(d) /\ SlotBecomes(e, d, k, t) /\ t \in SlotType
    BY <1>1, <1>12, <1>13, Zenon
  <2> DEFINE es == e.s  ds == d.s
  <2>3. ds \in [Slots -> SlotType] /\ es = [ds EXCEPT ![k] = t] /\ t \in SlotType
    BY <2>2 DEF SlotBecomes, Typed
  <2> HIDE DEF k, s, n, id, st, len, whole, es, ds
  <2>4. es \in [Slots -> SlotType] /\ es[k] = t /\ \A j \in Slots : j # k => es[j] = ds[j]
    BY <2>1, <2>3
  <2> QED BY <2>4, Zenon DEF es, ds
<1>15. /\ e.err = d.err /\ e.eof = d.eof /\ e.goaway = d.goaway /\ e.last_id = d.last_id
       /\ e.next_id = d.next_id /\ e.p_win = d.p_win /\ e.cpend = d.cpend /\ e.cwin = d.cwin
       /\ e.tx = d.tx /\ e.fault = d.fault /\ e.rx = d.rx /\ e.f = d.f /\ e.fs = d.fs
       /\ e.b = d.b /\ e.enc = d.enc /\ e.g = d.g /\ e.crwin = d.crwin
  BY <1>12, Zenon DEF Same, Fields
<1>16. Typed(e)
  <2>1. Same(e, d, Scalars \cup {"s", "g"})
    BY <1>12 DEF Same, Scalars, Fields
  <2>2. e.dat \in Nat /\ e.pos \in Nat
    <3> HIDE DEF n
    <3> QED BY <1>3, <1>5, <1>12
  <2>3. Simple(e)
    BY <1>1, <1>15, <2>2, Zenon DEF Simple
  <2> QED BY <1>1, <1>12, <1>14, <1>15, <2>1, <2>3, TypedWith, Zenon DEF Typed
<1>17. Part(e, k) = [on |-> TRUE, len |-> len, whole |-> whole, taken |-> d.dat + n, es |-> d.f.es]
  <2> HIDE DEF n
  <2> QED BY <1>12, <1>15, Zenon DEF Part
<1>18. Aside(e, d, k)
  <2>1. \A j \in Slots : j # k => Part(e, j) = Part(d, j) /\ Ending(e, j) = Ending(d, j)
    BY <1>15 DEF Part, Ending
  <2> QED BY <1>13, <1>14, <1>15, <2>1, Zenon DEF Aside
<1> HIDE DEF s, id, st, len, whole, n
<1>19. Rest(t) = Rest(s) + n /\ Rest(s) \in Nat
  BY <1>5, <1>9, <1>10, <1>13 DEF Rest
<1>20. SlotOK(e, k)
  <2>1. Closing(t, st, Part(e, k).es \/ Ending(e, k))
    <3>1. Part(e, k).es = Part(d, k).es /\ Ending(e, k) = Ending(d, k)
      BY <1>6, <1>15, <1>17 DEF Ending
    <3> QED BY <1>7, <1>13, <3>1 DEF Closing, BothEnds, Has
  <2>2. Counting(t, st, Part(e, k))
    <3>1. Part(e, k).on /\ Part(e, k).len = len /\ Part(e, k).whole = whole /\ Part(e, k).taken = d.dat + n
      BY <1>17
    <3>2. /\ t.rwin + t.pend + Rest(t) + len - (d.dat + n) = W
          /\ t.pend + Rest(t) + len - (d.dat + n) <= W
          /\ t.hdr <= t.rlen /\ t.hdr <= MAX_LIST /\ t.ready <= Rest(t)
      <4> DEFINE rs == Rest(s)  rt == Rest(t)
      <4>1. rt = rs + n /\ rs \in Nat
        BY <1>19
      <4>2. s.rwin + s.pend + rs + len - d.dat = W /\ s.pend + rs + len - d.dat <= W /\ s.ready <= rs
        BY <1>9
      <4> HIDE DEF rs, rt
      <4>3. /\ t.rwin + t.pend + rt + len - (d.dat + n) = W
            /\ t.pend + rt + len - (d.dat + n) <= W
            /\ t.hdr <= t.rlen /\ t.hdr <= MAX_LIST /\ t.ready <= rt
        BY <1>3, <1>4, <1>5, <1>9, <1>10, <1>13, <4>1, <4>2
      <4> QED BY <4>3 DEF rt
    <3>3. st.dat = st.read + Rest(t) + whole - (d.dat + n) /\ t.got = st.dat - whole
      <4>1. st.dat \in Nat /\ st.read \in Nat
        BY <1>1, <1>7, StreamTyped, Zenon DEF st, StreamType
      <4> QED BY <1>3, <1>5, <1>9, <1>13, <1>19, <4>1
    <3>4. Has(t, "FINAL") /\ ~Has(t, "RST") /\ ~Has(t, "RECV_END")
      BY <1>2, <1>13 DEF Has
    <3> QED BY <3>1, <3>2, <3>3, <3>4 DEF Counting
  <2>3. Granted(t, st, e.p_win)
    BY <1>7, <1>13, <1>15 DEF Granted
  <2>4. e.s[k].id = id /\ e.g.st[id] = st
    BY <1>13, <1>14, <1>15, Zenon DEF id, st
  <2> QED BY <1>7, <1>14, <1>15, <2>1, <2>2, <2>3, <2>4, Zenon DEF SlotOK
<1>21. Books(e, k) = Books(d, k)
  <2>1. Part(e, k).len = len /\ Part(e, k).taken = d.dat + n /\ Part(d, k).len = len /\ Part(d, k).taken = d.dat
    BY <1>6, <1>17
  <2>2. e.s[k] = t /\ d.s[k] = s
    BY <1>14 DEF s
  <2>3. d.crwin \in Int /\ d.cpend \in Int /\ d.g.extra \in Int
    BY <1>1 DEF Typed, Simple, PastTyped
  <2> DEFINE a == d.crwin  b == d.cpend  z == d.g.extra  rs == Rest(s)  rt == Rest(t)
  <2>4. a \in Int /\ b \in Int /\ z \in Int /\ rs \in Nat /\ rt = rs + n
    BY <1>19, <2>3
  <2>5. Books(e, k) = a + b + rt + len - (d.dat + n) - z /\ Books(d, k) = a + b + rs + len - d.dat - z
    BY <1>15, <2>1, <2>2, Zenon DEF Books
  <2> HIDE DEF a, b, z, rs, rt
  <2> QED BY <1>3, <1>4, <1>5, <2>4, <2>5
<1>22. Paid(e.s[k]) /\ Owing(e, 0)
  <2>1. Paid(s)
    BY <1>1 DEF Owing, s
  <2>2. Paid(t)
    BY <1>13, <2>1 DEF Paid, Has
  <2> QED BY <1>1, <1>14, <1>15, <2>2 DEF Owing
<1>23. Taking(e)
  <2>1. e.dat = FrameData(d.f, p) /\ e.pos = p
    BY <1>5, <1>12
  <2>2. Has(t, "FINAL") /\ ~Has(t, "RST") /\ ~Has(t, "RECV_END")
    BY <1>2, <1>13 DEF Has
  <2>3. d.f.es => d.g.st[d.f.sid].es
    BY <1>1, Zenon DEF Conn, Taking
  <2> QED BY <1>2, <1>13, <1>14, <1>15, <2>1, <2>2, <2>3 DEF Taking, id
<1>24. InBlock(e) /\ Told(e)
  <2>1. ~d.b.in
    BY <1>1, <1>2, Zenon DEF Conn, InBlock
  <2>2. d.b.s = 0
    BY <1>1, <2>1, Zenon DEF Conn, InBlock
  <2> QED BY <1>1, <1>15, <2>1, <2>2, Zenon DEF Conn, InBlock, Told
<1>25. e.g.wire /\ ~e.fault /\ e.tx <= TX
  BY <1>1, <1>15, Zenon DEF Kept
<1>26. /\ e.g.st[d.s[k].id].whole /\ e.g.st[d.s[k].id].retry
       /\ e.s[k].err = "RETRY" => e.g.st[d.s[k].id].unproc
  BY <1>1, <1>7, <1>8, <1>13, <1>14, <1>15, Zenon DEF Kept, id, s
<1>27. e.err = "OK" => /\ SlotOK(e, k) /\ (k # 0 => Paid(e.s[k])) /\ Books(e, k) = Books(d, k)
                       /\ (0 = 0 /\ e.f.t # "DATA" => e.cpend < CREDIT)
                       /\ Taking(e) /\ InBlock(e) /\ Told(e)
  BY <1>20, <1>21, <1>22, <1>23, <1>24, Zenon DEF Owing
<1>28. LET v == e.g.st[d.s[k].id]
       IN  /\ v.whole /\ v.retry /\ (d.g.st[d.s[k].id].unproc => v.unproc)
           /\ e.s[k].err = "RETRY" => v.unproc
  BY <1>15, <1>26, Zenon
<1>29. k \in Slots /\ d.s[k].id # 0
  BY <1>2, Zenon DEF id, s
<1> HIDE DEF k
<1>30. Good(e, 0)
  BY <1>16, <1>18, <1>25, <1>27, <1>28, <1>29, OneSlot, Zenon
<1>31. Named(e, d)
  BY <1>13, <1>14, Zenon DEF Named, s, k
<1> QED BY <1>12, <1>30, <1>31, Zenon
LEMMA KeptSame ==
    ASSUME NEW d, Kept(d), NEW e, Typed(e), e.s = d.s, e.g.st = d.g.st, e.g.wire, ~e.fault, e.tx <= TX
    PROVE  Kept(e)
BY Zenon DEF Kept

\* A failed connection skips what is left of the frame.
LEMMA PlaceKept ==
    ASSUME NEW d, Kept(d), d.err # "OK", NEW e, Shape(e), NEW p \in Nat, Same(e, d, {"pos"}), e.pos = p, NEW x
    PROVE  Good(e, x)
<1>1. /\ e.err = d.err /\ e.goaway = d.goaway /\ e.last_id = d.last_id
      /\ e.next_id = d.next_id /\ e.p_win = d.p_win /\ e.cpend = d.cpend /\ e.cwin = d.cwin
      /\ e.tx = d.tx /\ e.fault = d.fault /\ e.rx = d.rx /\ e.fs = d.fs /\ e.dat = d.dat
      /\ e.s = d.s /\ e.g = d.g /\ e.crwin = d.crwin
  BY DEF Same, Fields
<1>2. Same(e, d, Scalars) /\ Typed(d) /\ Simple(d)
  BY Zenon DEF Same, Scalars, Fields, Kept, Typed
<1>3. Simple(e)
  BY <1>1, <1>2, Zenon DEF Simple
<1>4. Typed(e)
  BY <1>2, <1>3, TypedAfter, Zenon
<1>5. Kept(e)
  BY <1>1, <1>4, KeptSame, Zenon DEF Kept
<1> QED BY <1>1, <1>5, Zenon DEF Good

LEMMA PosMoves ==
    ASSUME NEW d, Shape(d), NEW p
    PROVE  LET e == [d EXCEPT !.pos = p] IN Shape(e) /\ Same(e, d, {"pos"}) /\ e.pos = p
BY Zenon DEF Shape, Same, Fields

LEMMA DataPayloadKeeps ==
    ASSUME NEW d, Good(d, 0), d.err = "OK", d.f.t = "DATA", NEW p \in Nat, d.pos <= p, p <= d.f.len,
           d.tx < TX
    PROVE  LET e == [data_payload(d, p) EXCEPT !.pos = p]
           IN  /\ Good(e, 0) /\ Same(e, d, {"s", "dat", "pos", "fault", "tx", "err"}) /\ Named(e, d)
               /\ e.tx <= d.tx + 1 /\ (e.err = "OK" => e.tx = d.tx) /\ e.pos = p
<1> DEFINE n == FrameData(d.f, p) - d.dat
           e == [data_payload(d, p) EXCEPT !.pos = p]
           r == h2_conn_err(d)
<1>1. Kept(d) /\ Typed(d) /\ Conn(d) /\ Shape(d) /\ Simple(d) /\ d.tx \in Nat
  BY Zenon DEF Good, Kept, Typed, Simple
<1>2. CASE d.f.pad >= d.f.len
  <2>1. e = [r EXCEPT !.pos = p]
    BY <1>2, Zenon DEF data_payload
  <2>2. Good(r, 0) /\ Same(r, d, {"fault", "tx", "err"}) /\ r.err # "OK" /\ r.tx <= d.tx + 1
    BY <1>1, ConnErrKeeps, Zenon
  <2> HIDE DEF r
  <2>3. Kept(r) /\ Shape(r)
    BY <2>2, Zenon DEF Good, Kept, Typed
  <2>4. Shape(e) /\ Same(e, r, {"pos"}) /\ e.pos = p
    BY <2>1, <2>3, PosMoves
  <2> HIDE DEF e
  <2>5. Good(e, 0)
    BY <2>2, <2>3, <2>4, PlaceKept, Zenon
  <2>6. Same(e, d, {"s", "dat", "pos", "fault", "tx", "err"}) /\ e.err # "OK" /\ e.tx = r.tx /\ Named(e, d)
    BY <2>2, <2>4 DEF Same, Fields, Named
  <2> QED BY <2>2, <2>4, <2>5, <2>6, Zenon DEF e
<1>3. CASE ~(d.f.pad >= d.f.len) /\ (d.fs = 0 \/ n = 0)
  <2>1. e = [d EXCEPT !.pos = p]
    BY <1>3, Zenon DEF data_payload
  <2>2. Shape(e) /\ Same(e, d, {"pos"}) /\ e.pos = p
    BY <1>1, <2>1, PosMoves
  <2>3. d.fs # 0 => d.dat = FrameData(d.f, p)
    <3>1. FrameData(d.f, p) \in Int /\ d.dat \in Int
      <4>1. d.f \in Frames \cup {NoFrame} /\ d.f.len \in Nat
        BY <1>1, FrameTyped, Zenon DEF Typed
      <4> QED BY <1>1, <4>1, FrameDataGrows DEF Simple
    <3> QED BY <1>3, <3>1
  <2> HIDE DEF e
  <2>4. Good(e, 0)
    BY <2>2, <2>3, PlaceMoved, Zenon
  <2>5. e.tx = d.tx /\ Same(e, d, {"s", "dat", "pos", "fault", "tx", "err"}) /\ Named(e, d)
    BY <2>2 DEF Same, Fields, Named
  <2> QED BY <1>1, <2>2, <2>4, <2>5 DEF e
<1>4. CASE ~(d.f.pad >= d.f.len) /\ d.fs # 0 /\ n # 0
  <2>1. e = [[ring_put_octets(d, d.fs, n) EXCEPT !.dat = @ + n] EXCEPT !.pos = p]
    BY <1>4, Zenon DEF data_payload
  <2>2. d.fs \in Slots
    BY <1>1, <1>4, Consts DEF Simple
  <2>3. Good(e, 0) /\ Same(e, d, {"s", "dat", "pos"}) /\ Named(e, d)
    BY <2>1, <2>2, RingKeeps, Zenon
  <2>4. e.pos = p
    <3>1. e = [data_payload(d, p) EXCEPT !.pos = p] /\ Shape(e)
      BY <2>3, Zenon DEF Good, Kept, Typed
    <3>2. "pos" \in DOMAIN data_payload(d, p)
      <4>1. data_payload(d, p) = [ring_put_octets(d, d.fs, n) EXCEPT !.dat = @ + n]
        BY <1>4 DEF data_payload
      <4>2. "pos" \in DOMAIN ring_put_octets(d, d.fs, n)
        <5>1. "pos" \in DOMAIN d
          BY <1>1, Zenon DEF Shape, Fields
        <5> QED BY <5>1 DEF ring_put_octets
      <4> QED BY <4>1, <4>2, Zenon
    <3> QED BY <3>1, <3>2, Zenon
  <2>5. e.tx = d.tx /\ Same(e, d, {"s", "dat", "pos", "fault", "tx", "err"})
    <3> HIDE DEF e
    <3> QED BY <2>3 DEF Same, Fields
  <2> QED BY <1>1, <2>3, <2>4, <2>5
<1> QED BY <1>2, <1>3, <1>4, Zenon

\* What one piece adds to a field block.
LEMMA PieceTyped ==
    ASSUME NEW d, d.f \in Frames, d.f.t \in {"HEADERS", "CONT"}, d.pos \in Nat,
           NEW p \in Nat, d.pos <= p, p <= d.f.len
    PROVE  BlockOctets(d, p) \in Nat /\ BlockFields(d, p) \in Seq(Representations)
<1>1. d.f.v \in Seq(Representations)
  BY DEF Frames
<1>2. /\ FrameData(d.f, d.pos) \in Nat /\ FrameData(d.f, p) \in Nat
      /\ FrameData(d.f, d.pos) <= FrameData(d.f, p)
  BY FrameDataGrows
<1>3. BlockOctets(d, p) \in Nat
  BY <1>2 DEF BlockOctets
<1>4. BlockFields(d, p) \in Seq(Representations)
  <2>1. <<>> \in Seq(Representations)
    OBVIOUS
  <2> QED BY <1>1, <2>1 DEF BlockFields
<1> QED BY <1>3, <1>4

\* A fragment of a field block.
LEMMA BlockPayloadKeeps ==
    ASSUME NEW d, Good(d, 0), d.err = "OK", d.f.t \in {"HEADERS", "CONT"}, NEW p \in Nat,
           d.pos <= p, p <= d.f.len, d.tx < TX
    PROVE  LET e == [block_payload(d, p) EXCEPT !.pos = p]
           IN  /\ Good(e, 0) /\ Same(e, d, {"b", "pos", "fault", "tx", "err"})
               /\ e.tx <= d.tx + 1 /\ (e.err = "OK" => e.tx = d.tx) /\ e.pos = p
<1> DEFINE e == [block_payload(d, p) EXCEPT !.pos = p]
           r == h2_conn_err(d)
           o == BlockOctets(d, p)
           a == BlockFields(d, p)
           q == [d EXCEPT !.b.len = @ + o, !.b.rep = @ \o a]
           b == [d.b EXCEPT !.len = @ + o, !.rep = @ \o a]
<1>1. Kept(d) /\ Typed(d) /\ Conn(d) /\ Owing(d, 0) /\ Shape(d) /\ Simple(d) /\ d.tx \in Nat /\ d.fs = 0
  <2>1. Kept(d) /\ Typed(d) /\ Conn(d) /\ Owing(d, 0) /\ Shape(d) /\ Simple(d) /\ d.tx \in Nat
    BY Zenon DEF Good, Kept, Typed, Simple
  <2> QED BY <2>1, Zenon DEF Conn, Taking
<1>2. CASE d.f.pad >= d.f.len \/ d.b.len + o > MAX_LIST
  <2>1. e = [r EXCEPT !.pos = p]
    BY <1>2 DEF block_payload
  <2>2. Good(r, 0) /\ Same(r, d, {"fault", "tx", "err"}) /\ r.err # "OK" /\ r.tx <= d.tx + 1
    BY <1>1, ConnErrKeeps, Zenon
  <2> HIDE DEF r
  <2>3. Kept(r) /\ Shape(r)
    BY <2>2, Zenon DEF Good, Kept, Typed
  <2>4. Shape(e) /\ Same(e, r, {"pos"}) /\ e.pos = p
    BY <2>1, <2>3, PosMoves
  <2> HIDE DEF e
  <2>5. Good(e, 0)
    BY <2>2, <2>3, <2>4, PlaceKept
  <2>6. Same(e, d, {"b", "pos", "fault", "tx", "err"}) /\ e.err # "OK" /\ e.tx = r.tx
    BY <2>2, <2>4 DEF Same, Fields
  <2> QED BY <2>2, <2>4, <2>5, <2>6 DEF e
<1>3. CASE ~(d.f.pad >= d.f.len \/ d.b.len + o > MAX_LIST)
  <2>1. e = [q EXCEPT !.pos = p]
    BY <1>3, Zenon DEF block_payload
  <2>2. /\ d.b.len + o \in Nat /\ a \in Seq(Representations) /\ d.b \in BlockType
    <3>1. d.f \in Frames
      BY <1>1 DEF Typed, NoFrame
    <3>2. o \in Nat /\ a \in Seq(Representations)
      BY <1>1, <3>1, PieceTyped DEF Simple
    <3>3. d.b \in BlockType
      BY <1>1 DEF Typed
    <3> HIDE DEF o, a
    <3> QED BY <3>2, <3>3 DEF BlockType
  <2>3. b \in BlockType /\ b.in = d.b.in /\ b.s = d.b.s /\ b.es = d.b.es /\ b.sid = d.b.sid
        /\ b.trailer = d.b.trailer /\ b.pre = d.b.pre
    <3> DEFINE n == d.b.len + o
               v == d.b.rep \o a
    <3>1. b = [d.b EXCEPT !.len = n, !.rep = v]
      BY <2>2, Zenon DEF BlockType
    <3>2. n \in Nat /\ v \in Seq(Representations)
      <4>1. d.b.rep \in Seq(Representations)
        BY <2>2 DEF BlockType
      <4> HIDE DEF Representations
      <4> QED BY <2>2, <4>1
    <3> HIDE DEF n, v, b
    <3> QED BY <2>2, <3>1, <3>2, Zenon DEF BlockType
  <2>4. Shape(q) /\ Same(q, d, {"b"}) /\ q.b = b
    BY <1>1, <2>2, Zenon DEF Shape, Same, Fields, BlockType
  <2> HIDE DEF q, b
  <2>5. Shape(e) /\ Same(e, q, {"pos"}) /\ e.pos = p
    BY <2>1, <2>4, PosMoves
  <2> HIDE DEF e
  <2>6. Same(e, d, {"b", "pos"}) /\ e.b = b
    BY <2>4, <2>5 DEF Same, Fields
  <2>7. /\ e.err = d.err /\ e.eof = d.eof /\ e.goaway = d.goaway /\ e.last_id = d.last_id
        /\ e.next_id = d.next_id /\ e.p_win = d.p_win /\ e.cpend = d.cpend /\ e.cwin = d.cwin
        /\ e.tx = d.tx /\ e.fault = d.fault /\ e.rx = d.rx /\ e.f = d.f /\ e.fs = d.fs /\ e.dat = d.dat
        /\ e.enc = d.enc /\ e.s = d.s /\ e.g = d.g /\ e.crwin = d.crwin
    BY <2>6 DEF Same, Fields
  <2>8. Typed(e)
    <3>1. Simple(e)
      BY <1>1, <2>5, <2>7 DEF Simple
    <3> QED BY <1>1, <2>3, <2>5, <2>6, <2>7, <3>1 DEF Typed
  <2>9. Good(e, 0)
    <3>1. Same(e, d, Neutral \cup {"pos", "dat", "f", "fs", "b", "enc", "g"})
      BY <2>6 DEF Same
    <3>2. ~e.fault /\ e.tx <= TX /\ PastSame(e, d, {"tab", "believed", "low"})
      BY <1>1, <2>7, Zenon DEF Kept, PastSame
    <3>3. \A k \in Slots : Part(e, k) = Part(d, k) /\ Ending(e, k) = Ending(d, k)
      BY <2>3, <2>6, <2>7 DEF Part, Ending
    <3>4. Told(e) /\ Encoding(e) /\ (e.eof # "no" => ~e.rx) /\ Taking(e)
      BY <1>1, <2>7 DEF Conn, Told, Encoding, Taking
    <3>5. InBlock(e)
      BY <1>1, <2>3, <2>6, <2>7, Zenon DEF Conn, InBlock
    <3>6. e.f.t # "DATA" => e.cpend < CREDIT
      BY <1>1, <2>7 DEF Owing
    <3> QED BY <2>7, <2>8, <3>1, <3>2, <3>3, <3>4, <3>5, <3>6, PlaceKeeps
  <2>10. Same(e, d, {"b", "pos", "fault", "tx", "err"})
    BY <2>6 DEF Same
  <2> QED BY <1>1, <2>5, <2>7, <2>9, <2>10 DEF e
<1> QED BY <1>2, <1>3, Zenon
-----------------------------------------------------------------------------
(* Settings *)

LEMMA WindowKeeps ==
    ASSUME NEW d, Good(d, 0), d.err = "OK", d.tx < TX, NEW v \in Nat
    PROVE  LET e == SetWindow(d, v)
           IN  /\ Good(e, 0) /\ Same(e, d, {"p_win", "s", "fault", "tx", "err"})
               /\ e.tx <= d.tx + 1 /\ (e.err = "OK" => e.tx = d.tx) /\ Named(e, d)
<1> DEFINE w == [k \in Slots |-> d.s[k].swin + v - d.p_win]
           s == [k \in Slots |-> IF d.s[k].id = 0 THEN d.s[k] ELSE [d.s[k] EXCEPT !.swin = w[k]]]
           e == SetWindow(d, v)
<1>1. /\ Kept(d) /\ Typed(d) /\ Conn(d) /\ Owing(d, 0) /\ Shape(d) /\ Simple(d) /\ d.tx \in Nat
      /\ \A k \in Slots : SlotOK(d, k)
  BY Zenon DEF Good, Kept, Typed, Simple
<1>2. CASE \E k \in Slots : d.s[k].id # 0 /\ w[k] > MAXWIN
  <2>1. e = h2_conn_err(d)
    BY <1>2 DEF SetWindow
  <2> DEFINE r == h2_conn_err(d)
  <2>2. Good(r, 0) /\ Same(r, d, {"fault", "tx", "err"}) /\ r.err # "OK" /\ r.tx <= d.tx + 1
    BY <1>1, ConnErrKeeps
  <2> HIDE DEF r
  <2>3. Same(r, d, {"p_win", "s", "fault", "tx", "err"}) /\ Named(r, d)
    BY <2>2 DEF Same, Fields, Named
  <2> QED BY <2>1, <2>2, <2>3 DEF r
<1>3. CASE ~\E k \in Slots : d.s[k].id # 0 /\ w[k] > MAXWIN
  <2>1. e = [d EXCEPT !.p_win = v, !.s = s]
    BY <1>3 DEF SetWindow
  <2>2. ASSUME NEW k \in Slots
        PROVE  /\ s[k] \in SlotType /\ s[k].id = d.s[k].id /\ s[k].rlen = d.s[k].rlen
               /\ s[k].hdr = d.s[k].hdr /\ s[k].rwin = d.s[k].rwin /\ s[k].pend = d.s[k].pend
               /\ s[k].ready = d.s[k].ready /\ s[k].got = d.s[k].got /\ s[k].cl = d.s[k].cl
               /\ s[k].err = d.s[k].err /\ s[k].fl = d.s[k].fl
               /\ (d.s[k].id # 0 => s[k].swin = d.s[k].swin + v - d.p_win)
               /\ (d.s[k].id = 0 => s[k] = d.s[k])
    <3> DEFINE t == d.s[k]  a == t.swin + v - d.p_win
    <3>1. t \in SlotType /\ d.p_win \in Int
      BY <1>1, SlotTyped DEF Simple
    <3>2. a \in Int
      BY <3>1 DEF SlotType
    <3>3. s[k] = IF t.id = 0 THEN t ELSE [t EXCEPT !.swin = a]
      OBVIOUS
    <3> HIDE DEF s, t, a, w
    <3>4. CASE t.id = 0
      BY <3>1, <3>3, <3>4 DEF t
    <3>5. CASE t.id # 0
      <4>1. s[k] = [t EXCEPT !.swin = a]
        BY <3>3, <3>5
      <4>2. s[k] \in SlotType
        BY <3>1, <3>2, <4>1 DEF SlotType
      <4>3. /\ s[k].id = t.id /\ s[k].rlen = t.rlen
            /\ s[k].hdr = t.hdr /\ s[k].rwin = t.rwin /\ s[k].pend = t.pend
            /\ s[k].ready = t.ready /\ s[k].got = t.got /\ s[k].cl = t.cl
            /\ s[k].err = t.err /\ s[k].fl = t.fl /\ s[k].swin = a
        BY <3>1, <4>1 DEF SlotType
      <4> QED BY <3>5, <4>2, <4>3 DEF t, a
    <3> QED BY <3>4, <3>5
  <2>3. s \in [Slots -> SlotType]
    <3>1. s = [k \in Slots |-> s[k]]
      OBVIOUS
    <3> HIDE DEF s, w
    <3> QED BY <2>2, <3>1
  <2> HIDE DEF s, w
  <2>4. Shape(e) /\ Same(e, d, {"p_win", "s"}) /\ e.s = s /\ e.p_win = v
    BY <1>1, <2>1, Zenon DEF Shape, Same, Fields
  <2> HIDE DEF e
  <2>5. /\ e.err = d.err /\ e.eof = d.eof /\ e.goaway = d.goaway /\ e.last_id = d.last_id
        /\ e.next_id = d.next_id /\ e.cpend = d.cpend /\ e.cwin = d.cwin /\ e.pos = d.pos
        /\ e.tx = d.tx /\ e.fault = d.fault /\ e.rx = d.rx /\ e.f = d.f /\ e.fs = d.fs /\ e.dat = d.dat
        /\ e.b = d.b /\ e.enc = d.enc /\ e.g = d.g /\ e.crwin = d.crwin
    BY <2>4 DEF Same, Fields
  <2>6. Typed(e)
    <3>1. Simple(e)
      BY <1>1, <2>4, <2>5 DEF Simple
    <3> QED BY <1>1, <2>3, <2>4, <2>5, <3>1 DEF Typed
  <2>7. Kept(e)
    <3>1. \A k \in Slots : e.s[k].err = "RETRY" => e.s[k].id \in Ids /\ e.g.st[e.s[k].id].unproc
      BY <1>1, <2>2, <2>4, <2>5 DEF Kept
    <3> QED BY <1>1, <2>5, <2>6, <3>1, Zenon DEF Kept
  <2>8. \A k \in Slots : Part(e, k) = Part(d, k) /\ Ending(e, k) = Ending(d, k)
    BY <2>5 DEF Part, Ending
  <2>9. Sum(e)
    <3>1. \A k \in Slots : Unread(e, k) = Unread(d, k) /\ Coming(e, k) = Coming(d, k)
      BY <2>2, <2>4, <2>5 DEF Unread, Coming
    <3>2. Held(e) = Held(d)
      BY <1>1, <3>1, HeldSame
    <3> QED BY <1>1, <2>5, <3>2 DEF Conn, Sum
  <2>10. \A k \in Slots : e.s[k].id = d.s[k].id /\ e.s[k].fl = d.s[k].fl /\ e.s[k].hdr = d.s[k].hdr
    BY <2>2, <2>4
  <2>11. Distinct(e) /\ Fresh(e) /\ Concluded(e)
    BY <1>1, <2>5, <2>10 DEF Conn, Distinct, Fresh, Concluded
  <2>12. Taking(e)
    <3>1. d.fs # 0 => d.fs \in Slots
      BY <1>1, Consts DEF Simple
    <3> QED BY <1>1, <2>5, <2>10, <3>1 DEF Conn, Taking, Has
  <2>13. InBlock(e)
    <3>1. d.b.s # 0 => d.b.s \in Slots
      <4>1. d.b.s \in 0..N
        BY <1>1, Zenon DEF Typed, BlockType
      <4> QED BY <4>1, SlotNumbers, Zenon
    <3> DEFINE k == d.b.s  t == e.s[k]  u == d.s[k]
    <3>2. (d.b.in => d.f.t \in {"none", "HEADERS", "CONT"}) /\ InBlock(d)
      BY <1>1, Zenon DEF Conn, InBlock
    <3>3. CASE k # 0
      <4>1. /\ d.b.in /\ u.id = d.b.sid /\ u.id # 0 /\ ~Has(u, "RST") /\ ~Has(u, "RECV_END")
            /\ (d.b.trailer <=> Has(u, "FINAL")) /\ u.hdr <= d.b.pre /\ (d.b.es <=> d.g.st[u.id].es)
        BY <3>2, <3>3, Zenon DEF InBlock
      <4>2. t.id = u.id /\ t.fl = u.fl /\ t.hdr = u.hdr
        BY <2>10, <3>1, <3>3, Zenon
      <4> HIDE DEF t, u
      <4>3. /\ d.b.in /\ t.id = d.b.sid /\ t.id # 0 /\ ~Has(t, "RST") /\ ~Has(t, "RECV_END")
            /\ (d.b.trailer <=> Has(t, "FINAL")) /\ t.hdr <= d.b.pre /\ (d.b.es <=> d.g.st[t.id].es)
        BY <4>1, <4>2 DEF Has
      <4> QED BY <2>5, <3>2, <4>3, Zenon DEF InBlock, t
    <3>4. CASE k = 0
      BY <2>5, <3>2, <3>4 DEF InBlock
    <3> QED BY <3>3, <3>4
  <2>14. Told(e) /\ Encoding(e) /\ (e.eof # "no" => ~e.rx)
    BY <1>1, <2>5 DEF Conn, Told, Encoding
  <2>15. \A k \in Slots : e.s[k].id = 0 => e.s[k] = Slot0
    BY <1>1, <2>2, <2>4 DEF Conn
  <2>16. Owing(e, 0)
    BY <1>1, <2>2, <2>4, <2>5 DEF Owing, Paid, Has
  <2>17. ASSUME NEW k \in Slots, e.s[k].id # 0 PROVE SlotOK(e, k)
    <3> DEFINE t == e.s[k]  u == d.s[k]  st == d.g.st[u.id]  b == Part(d, k).es \/ Ending(d, k)
    <3>1. /\ t \in SlotType /\ t.id = u.id /\ t.rlen = u.rlen
          /\ t.hdr = u.hdr /\ t.rwin = u.rwin /\ t.pend = u.pend
          /\ t.ready = u.ready /\ t.got = u.got /\ t.cl = u.cl
          /\ t.err = u.err /\ t.fl = u.fl
          /\ t.swin = u.swin + v - d.p_win
      BY <2>2, <2>4, <2>17
    <3>2. /\ u.id \in Ids /\ u.id < d.next_id /\ Granted(u, st, d.p_win) /\ Counting(u, st, Part(d, k))
          /\ Closing(u, st, Part(d, k).es \/ Ending(d, k))
      BY <1>1, <2>10, <2>17, Zenon DEF SlotOK
    <3>3. st \in StreamType /\ d.p_win \in Nat /\ u \in SlotType
      BY <1>1, <3>2, StreamTyped, SlotTyped, Zenon DEF Simple
    <3> HIDE DEF t, u, st
    <3>4. Granted(t, st, e.p_win)
      <4>1. st.wu \in Nat /\ st.sent \in Nat /\ u.swin \in Int
        BY <3>3 DEF StreamType, SlotType
      <4> QED BY <2>4, <3>1, <3>2, <3>3, <4>1 DEF Granted
    <3>5. Counting(t, st, Part(e, k))
      <4>1. Rest(t) = Rest(u)
        BY <3>1 DEF Rest
      <4> QED BY <2>8, <3>1, <3>2, <4>1 DEF Counting, Has, ClChecked
    <3>6. Closing(t, st, Part(e, k).es \/ Ending(e, k))
      BY <2>8, <3>1, <3>2 DEF Closing, Has, BothEnds
    <3>7. e.g.st[t.id] = st
      BY <2>5, <3>1 DEF st
    <3>8. t.id \in Ids /\ t.id < e.next_id
      BY <2>5, <3>1, <3>2
    <3> QED BY <3>4, <3>5, <3>6, <3>7, <3>8 DEF SlotOK, t
  <2>18. \A k \in Slots : SlotOK(e, k)
    BY <2>17, Zenon DEF SlotOK
  <2>19. Good(e, 0)
    BY <2>7, <2>5, <2>9, <2>11, <2>12, <2>13, <2>14, <2>15, <2>16, <2>18 DEF Good, Conn
  <2>20. Same(e, d, {"p_win", "s", "fault", "tx", "err"})
    BY <2>4 DEF Same
  <2>21. Named(e, d)
    BY <2>10 DEF Named
  <2> QED BY <1>1, <2>5, <2>19, <2>20, <2>21 DEF e
<1> QED BY <1>2, <1>3

\* The encoder's limit and what the server allowed at the least.
LEMMA TableKeeps ==
    ASSUME NEW d, Good(d, 0), d.err = "OK", NEW v \in Nat
    PROVE  LET e == [d EXCEPT !.enc = hpack_enc_peer_max(@, v), !.g.low = IF v < @ THEN v ELSE @]
           IN  Good(e, 0) /\ Same(e, d, {"enc", "g"})
<1> DEFINE e == [d EXCEPT !.enc = hpack_enc_peer_max(@, v), !.g.low = IF v < @ THEN v ELSE @]
           n == hpack_enc_peer_max(d.enc, v)
           g == [d.g EXCEPT !.low = IF v < d.g.low THEN v ELSE d.g.low]
<1>1. /\ Kept(d) /\ Typed(d) /\ Conn(d) /\ Owing(d, 0) /\ Shape(d) /\ Simple(d) /\ d.tx \in Nat
      /\ PastTyped(d.g) /\ d.enc \in [cur : Nat, pending : BOOLEAN]
  BY Zenon DEF Good, Kept, Typed, Simple
<1>2. n \in [cur : Nat, pending : BOOLEAN]
      /\ (v < d.enc.cur => n.cur = 0 /\ n.pending) /\ (~(v < d.enc.cur) => n = d.enc)
  BY <1>1 DEF hpack_enc_peer_max
<1>3. d.g.low \in Nat
  BY <1>1 DEF PastTyped
<1>4. /\ g = [x \in Past |-> g[x]] /\ (\A x \in Past \ {"low"} : g[x] = d.g[x])
      /\ g.low = IF v < d.g.low THEN v ELSE d.g.low
  BY <1>1, Zenon DEF PastTyped, Past
<1> HIDE DEF n, g
<1>5. PastTyped(g) /\ g.st = d.g.st /\ g.wire = d.g.wire /\ g.believed = d.g.believed
  <2>1. g.low \in Nat
    BY <1>3, <1>4
  <2>2. g.st = d.g.st /\ g.wire = d.g.wire /\ g.extra = d.g.extra /\ g.believed = d.g.believed
    BY <1>4 DEF Past
  <2> QED BY <1>1, <1>4, <2>1, <2>2 DEF PastTyped
<1>6. Shape(e) /\ Same(e, d, {"enc", "g"}) /\ e.enc = n /\ e.g = g
  <2>1. e = [d EXCEPT !.enc = n, !.g = g]
    <3>1. "enc" \in DOMAIN d /\ "g" \in DOMAIN d /\ "low" \in DOMAIN d.g
      BY <1>1 DEF Shape, Fields, PastTyped, Past
    <3> QED BY <1>1, <3>1 DEF n, g
  <2> HIDE DEF e
  <2> QED BY <1>1, <2>1, Zenon DEF Shape, Same, Fields
<1> HIDE DEF e
<1>7. /\ e.err = d.err /\ e.eof = d.eof /\ e.goaway = d.goaway /\ e.last_id = d.last_id
      /\ e.next_id = d.next_id /\ e.p_win = d.p_win /\ e.cpend = d.cpend /\ e.cwin = d.cwin
      /\ e.tx = d.tx /\ e.fault = d.fault /\ e.rx = d.rx /\ e.f = d.f /\ e.fs = d.fs /\ e.dat = d.dat
      /\ e.b = d.b /\ e.s = d.s /\ e.crwin = d.crwin /\ e.pos = d.pos
  BY <1>6 DEF Same, Fields
<1>8. Typed(e)
  <2>1. Simple(e)
    BY <1>1, <1>7 DEF Simple
  <2> QED BY <1>1, <1>2, <1>5, <1>6, <1>7, <2>1 DEF Typed
<1>9. Encoding(e)
  <2>1. CASE d.enc.cur = TABLE0 /\ ~d.enc.pending /\ d.g.believed = TABLE0 /\ d.g.low = TABLE0
    <3>1. CASE v < TABLE0
      BY <1>2, <1>6, <2>1, <3>1 DEF Encoding
    <3>2. CASE ~(v < TABLE0)
      BY <1>2, <1>4, <1>5, <1>6, <2>1, <3>2 DEF Encoding
    <3> QED BY <3>1, <3>2
  <2>2. CASE d.enc.cur = 0 /\ (d.enc.pending \/ d.g.believed = 0)
    BY <1>2, <1>5, <1>6, <2>2 DEF Encoding
  <2> QED BY <1>1, <2>1, <2>2 DEF Conn, Encoding
<1>10. Good(e, 0)
  <2>1. Same(e, d, Neutral \cup {"pos", "dat", "f", "fs", "b", "enc", "g"})
    BY <1>6 DEF Same
  <2>2. ~e.fault /\ e.tx <= TX /\ PastSame(e, d, {"tab", "believed", "low"})
    BY <1>1, <1>4, <1>6, <1>7, Zenon DEF Kept, PastSame
  <2>3. \A k \in Slots : Part(e, k) = Part(d, k) /\ Ending(e, k) = Ending(d, k)
    BY <1>7 DEF Part, Ending
  <2>4. Told(e) /\ (e.eof # "no" => ~e.rx) /\ Taking(e)
    BY <1>1, <1>5, <1>6, <1>7 DEF Conn, Told, Taking
  <2>5. InBlock(e)
    BY <1>1, <1>5, <1>6, <1>7, Zenon DEF Conn, InBlock
  <2>6. e.f.t # "DATA" => e.cpend < CREDIT
    BY <1>1, <1>7 DEF Owing
  <2> QED BY <1>7, <1>8, <1>9, <2>1, <2>2, <2>3, <2>4, <2>5, <2>6, PlaceKeeps
<1> QED BY <1>6, <1>10 DEF e

LEMMA SettingKeeps ==
    ASSUME NEW d, Good(d, 0), d.err = "OK", d.tx < TX, NEW p \in SettingList
    PROVE  LET e == h2_setting(d, p)
           IN  /\ Good(e, 0)
               /\ Same(e, d, {"enc", "g", "p_conc", "p_list", "p_win", "s", "fault", "tx", "err"})
               /\ e.tx <= d.tx + 1 /\ (e.err = "OK" => e.tx = d.tx) /\ Named(e, d)
<1> DEFINE C == {"enc", "g", "p_conc", "p_list", "p_win", "s", "fault", "tx", "err"}
           e == h2_setting(d, p)
<1>1. Kept(d) /\ Typed(d) /\ Conn(d) /\ Shape(d) /\ d.tx \in Nat /\ p.v \in Nat
      /\ p.id \in {"table", "conc", "window", "list", "bad", "other"}
  BY Zenon DEF Good, Kept, Typed, Simple, SettingList
<1>2. CASE p.id = "table"
  <2> DEFINE r == [d EXCEPT !.enc = hpack_enc_peer_max(@, p.v), !.g.low = IF p.v < @ THEN p.v ELSE @]
  <2>1. e = r
    BY <1>2 DEF h2_setting
  <2>2. Good(r, 0) /\ Same(r, d, {"enc", "g"})
    BY <1>1, TableKeeps
  <2> HIDE DEF r
  <2>3. r.tx = d.tx /\ Same(r, d, C) /\ Named(r, d)
    BY <2>2 DEF Same, Fields, Named
  <2> QED BY <1>1, <2>1, <2>2, <2>3
<1>3. CASE p.id \in {"conc", "list"}
  <2>1. e = [d EXCEPT !.p_conc = p.v] \/ e = [d EXCEPT !.p_list = p.v]
    BY <1>3 DEF h2_setting
  <2> HIDE DEF e
  <2>2. Shape(e) /\ Same(e, d, {"p_conc", "p_list"})
    BY <1>1, <2>1 DEF Shape, Same, Fields
  <2>3. e.tx = d.tx /\ Same(e, d, C) /\ Same(e, d, Untyped) /\ Same(e, d, Neutral) /\ e.fault = d.fault
        /\ e.eof = d.eof /\ e.rx = d.rx /\ e.err = d.err /\ Named(e, d)
    BY <2>2 DEF Same, Fields, Untyped, Neutral, Named
  <2>4. Typed(e)
    BY <1>1, <2>2, <2>3, TypedSame
  <2>5. Good(e, 0)
    <3>1. ~e.fault /\ e.tx <= TX /\ (e.eof # "no" => ~e.rx)
      BY <1>1, <2>3 DEF Kept, Conn
    <3> QED BY <2>3, <2>4, <3>1, NeutralKeeps
  <2> QED BY <1>1, <2>3, <2>5 DEF e
<1>4. CASE p.id = "window"
  <2> DEFINE r == SetWindow(d, p.v)
  <2>1. e = r
    BY <1>4 DEF h2_setting
  <2>2. /\ Good(r, 0) /\ Same(r, d, {"p_win", "s", "fault", "tx", "err"})
        /\ r.tx <= d.tx + 1 /\ (r.err = "OK" => r.tx = d.tx) /\ Named(r, d)
    BY <1>1, WindowKeeps
  <2> HIDE DEF r
  <2>3. Same(r, d, C)
    BY <2>2 DEF Same
  <2> QED BY <2>1, <2>2, <2>3
<1>5. CASE p.id = "bad"
  <2> DEFINE r == h2_conn_err(d)
  <2>1. e = r
    BY <1>5 DEF h2_setting
  <2>2. Good(r, 0) /\ Same(r, d, {"fault", "tx", "err"}) /\ r.err # "OK" /\ r.tx <= d.tx + 1
    BY <1>1, ConnErrKeeps
  <2> HIDE DEF r
  <2>3. Same(r, d, C) /\ Named(r, d)
    BY <2>2 DEF Same, Fields, Named
  <2> QED BY <2>1, <2>2, <2>3
<1>6. CASE p.id = "other"
  <2>1. e = d
    BY <1>6 DEF h2_setting
  <2>2. Same(d, d, C) /\ Named(d, d)
    BY DEF Same, Named
  <2> QED BY <1>1, <2>1, <2>2
<1> QED BY <1>1, <1>2, <1>3, <1>4, <1>5, <1>6
\* f is the connection after each of the settings from d.pos + 1 on.
SetNext(g, s) == IF g.err = "OK" THEN h2_setting(g, s) ELSE g
SetTurns(f, d, p) == f = [i \in d.pos..p |-> IF i = d.pos THEN d ELSE SetNext(f[i - 1], d.f.v[i])]
SetRun(f, d, p) == f[d.pos] = d /\ \A i \in (d.pos + 1)..p : f[i] = SetNext(f[i - 1], d.f.v[i])

LEMMA SetTurnsStep ==
    ASSUME NEW f, NEW d, d.pos \in Nat, NEW p \in Nat, d.pos <= p, SetTurns(f, d, p)
    PROVE  SetRun(f, d, p)
<1> SUFFICES f[d.pos] = d /\ \A i \in (d.pos + 1)..p : f[i] = SetNext(f[i - 1], d.f.v[i])
  BY DEF SetRun
<1>1. \A i \in d.pos..p : f[i] = IF i = d.pos THEN d ELSE SetNext(f[i - 1], d.f.v[i])
  BY DEF SetTurns
<1>2. d.pos \in d.pos..p /\ \A i \in (d.pos + 1)..p : i \in d.pos..p /\ i # d.pos
  OBVIOUS
<1> QED BY <1>1, <1>2

LEMMA SetTurnsExist ==
    ASSUME NEW d, d.pos \in Nat, NEW p \in Nat, d.pos <= p
    PROVE  \E f : SetTurns(f, d, p)
<1> DEFINE a == d.pos
           Bad == {k \in Nat : a <= k /\ ~\E f : SetTurns(f, d, k)}
<1>1. Bad = {}
  <2> SUFFICES ASSUME Bad # {} PROVE FALSE
    OBVIOUS
  <2>0. Bad \in SUBSET Nat
    OBVIOUS
  <2>1. PICK k \in Bad : \A j \in Bad : k <= j
    <3> HIDE DEF Bad
    <3> QED BY <2>0, LeastNatural
  <2>2. k # a
    <3>1. SetTurns([i \in a..a |-> d], d, a)
      BY DEF SetTurns
    <3> QED BY <3>1, <2>1
  <2>3. k \in Nat /\ k - 1 \in Nat /\ k - 1 \notin Bad /\ a <= k - 1
    <3>1. k \in Nat /\ a <= k
      OBVIOUS
    <3> HIDE DEF Bad
    <3> QED BY <2>1, <2>2, <3>1
  <2>4. PICK f : SetTurns(f, d, k - 1)
    BY <2>3
  <2> DEFINE g == [i \in a..k |-> IF i = k THEN SetNext(f[k - 1], d.f.v[k]) ELSE f[i]]
  <2>5. \A i \in a..k : g[i] = IF i = a THEN d ELSE SetNext(g[i - 1], d.f.v[i])
    <3> TAKE i \in a..k
    <3>1. f[a] = d /\ \A j \in (a + 1)..(k - 1) : f[j] = SetNext(f[j - 1], d.f.v[j])
      <4>1. d.pos \in Nat /\ k - 1 \in Nat /\ d.pos <= k - 1 /\ SetTurns(f, d, k - 1)
        BY <2>3, <2>4
      <4> DEFINE m == k - 1
      <4>2. d.pos \in Nat /\ m \in Nat /\ d.pos <= m /\ SetTurns(f, d, m)
        BY <4>1
      <4> HIDE DEF Bad, m
      <4>3. SetRun(f, d, m)
        BY <4>2, SetTurnsStep
      <4> QED BY <4>3 DEF m, SetRun
    <3>2. CASE i = k
      BY <3>2, <2>3, <2>2
    <3>3. CASE i = a
      BY <3>1, <3>3, <2>2
    <3>4. CASE i # k /\ i # a
      <4>1. i \in (a + 1)..(k - 1) /\ i - 1 \in a..k /\ i - 1 # k
        BY <3>4, <2>3
      <4> QED BY <4>1, <3>1, <3>4
    <3> QED BY <3>2, <3>3, <3>4, Zenon
  <2>6. SetTurns(g, d, k)
    <3>1. g = [i \in a..k |-> g[i]]
      OBVIOUS
    <3> HIDE DEF g
    <3> QED BY <2>5, <3>1, Zenon DEF SetTurns
  <2> QED BY <2>3, <2>6
<1> QED BY <1>1

LEMMA SetTurnsEnd ==
    ASSUME NEW d, d.pos \in Nat, NEW p \in Nat, d.pos <= p
    PROVE  \E f : SetTurns(f, d, p) /\ set_payload(d, p) = f[p]
<1> DEFINE g == CHOOSE f : SetTurns(f, d, p)
<1>1. SetTurns(g, d, p)
  <2>1. \E f : SetTurns(f, d, p)
    BY SetTurnsExist
  <2> QED BY <2>1
<1>2. set_payload(d, p) = g[p]
  BY DEF set_payload, SetTurns, SetNext
<1> HIDE DEF g
<1> QED BY <1>1, <1>2

SetFields == {"enc", "g", "p_conc", "p_list", "p_win", "s", "fault", "tx", "err"}
SetSoFar(g, d) ==
    /\ Good(g, 0) /\ Same(g, d, SetFields) /\ Named(g, d)
    /\ g.tx <= d.tx + 1 /\ (g.err = "OK" => g.tx = d.tx)

LEMMA SetKeeps ==
    ASSUME NEW d, Good(d, 0), d.err = "OK", d.tx < TX, NEW p \in Nat, d.pos <= p, p <= Len(d.f.v),
           d.f.t = "SETTINGS"
    PROVE  SetSoFar(set_payload(d, p), d)
<1>1. d.pos \in Nat /\ d.tx \in Nat /\ d.f.v \in Seq(SettingList)
  <2>1. Typed(d)
    BY Zenon DEF Good, Kept
  <2>2. d.f \in Frames
    BY <2>1 DEF Typed, NoFrame
  <2> QED BY <2>1, <2>2, Zenon DEF Typed, Simple, Frames
<1>2. PICK f : SetTurns(f, d, p) /\ set_payload(d, p) = f[p]
  BY <1>1, SetTurnsEnd
<1>3. f[d.pos] = d /\ \A i \in (d.pos + 1)..p : f[i] = SetNext(f[i - 1], d.f.v[i])
  <2>1. SetTurns(f, d, p) /\ d.pos \in Nat
    BY <1>1, <1>2
  <2>2. SetRun(f, d, p)
    BY <2>1, SetTurnsStep, Zenon
  <2> QED BY <2>2 DEF SetRun
<1> DEFINE Bad == {i \in d.pos..p : ~SetSoFar(f[i], d)}
<1>4. Bad = {}
  <2> SUFFICES ASSUME Bad # {} PROVE FALSE
    OBVIOUS
  <2>0. Bad \in SUBSET Nat
    BY <1>1
  <2>1. PICK i \in Bad : \A j \in Bad : i <= j
    <3> HIDE DEF Bad
    <3> QED BY <2>0, LeastNatural
  <2>2. i \in (d.pos + 1)..p
    <3>1. SetSoFar(d, d)
      BY <1>1 DEF SetSoFar, Same, Named
    <3>2. i # d.pos
      BY <1>3, <3>1
    <3> QED BY <1>1, <3>2
  <2>3. i - 1 \in d.pos..p /\ i - 1 \notin Bad
    BY <1>1, <2>1, <2>2
  <2> DEFINE g == f[i - 1]
             s == d.f.v[i]
             e == h2_setting(g, s)
  <2>4. SetSoFar(g, d)
    BY <2>3
  <2>5. f[i] = SetNext(g, s)
    BY <1>3, <2>2
  <2>6. s \in SettingList
    BY <1>1, <2>2
  <2> HIDE DEF Bad, g, s
  <2>7. CASE g.err # "OK"
    <3>1. f[i] = g
      BY <2>5, <2>7 DEF SetNext
    <3> QED BY <2>1, <2>4, <3>1 DEF Bad
  <2>8. CASE g.err = "OK"
    <3>1. f[i] = e
      BY <2>5, <2>8 DEF SetNext
    <3>2. g.tx = d.tx /\ Good(g, 0) /\ Same(g, d, SetFields) /\ Named(g, d)
      BY <2>4, <2>8 DEF SetSoFar
    <3>3. /\ Good(e, 0) /\ Same(e, g, SetFields)
          /\ e.tx <= g.tx + 1 /\ (e.err = "OK" => e.tx = g.tx) /\ Named(e, g)
      BY <2>6, <2>8, <3>2, SettingKeeps DEF SetFields
    <3> HIDE DEF e
    <3>4. Same(e, d, SetFields) /\ Named(e, d)
      BY <3>2, <3>3 DEF Same, Named
    <3> QED BY <2>1, <3>1, <3>2, <3>3, <3>4 DEF Bad, SetSoFar
  <2> QED BY <2>7, <2>8
<1>5. p \in d.pos..p /\ p \notin Bad
  BY <1>1, <1>4
<1> QED BY <1>2, <1>5

\* The payload of any frame: queued at most the frame that fails the connection.
Moved == SetFields \cup {"b", "dat", "pos"}
PayloadDone(e, d, p) ==
    /\ Good(e, 0) /\ Same(e, d, Moved) /\ Named(e, d)
    /\ d.f.t \notin {"HEADERS", "CONT"} => e.b = d.b
    /\ e.tx <= d.tx + 1 /\ (e.err = "OK" => e.tx = d.tx) /\ (d.err # "OK" => e.err # "OK")
    /\ e.pos = p

LEMMA PayloadKeeps ==
    ASSUME NEW d, Good(d, 0), d.err = "OK", d.tx < TX,
           NEW p \in Nat, d.pos <= p, p <= FrameEnd(d.f)
    PROVE  PayloadDone(h2_payload(d, p), d, p)
<1>1. Kept(d) /\ Typed(d) /\ Shape(d) /\ d.tx \in Nat /\ d.pos \in Nat /\ d.f \in Frames \cup {NoFrame}
      /\ Conn(d)
  BY Zenon DEF Good, Kept, Typed, Simple
<1>2. CASE p = d.pos
  <2>1. h2_payload(d, p) = d
    BY <1>2 DEF h2_payload
  <2> QED BY <1>1, <1>2, <2>1 DEF PayloadDone, Same, Named
<1>3. CASE p # d.pos /\ d.f.t = "DATA"
  <2> DEFINE e == [data_payload(d, p) EXCEPT !.pos = p]
  <2>1. h2_payload(d, p) = e
    BY <1>3 DEF h2_payload
  <2>2. p <= d.f.len
    BY <1>3 DEF FrameEnd
  <2>3. /\ Good(e, 0) /\ Same(e, d, {"s", "dat", "pos", "fault", "tx", "err"}) /\ Named(e, d)
        /\ e.tx <= d.tx + 1 /\ (e.err = "OK" => e.tx = d.tx) /\ e.pos = p
    BY <1>3, <2>2, DataPayloadKeeps
  <2> HIDE DEF e
  <2>4. Same(e, d, Moved) /\ e.b = d.b
    BY <2>3 DEF Same, Moved, SetFields, Fields
  <2> QED BY <2>1, <2>3, <2>4 DEF PayloadDone
<1>4. CASE p # d.pos /\ d.f.t \in {"HEADERS", "CONT"}
  <2> DEFINE e == [block_payload(d, p) EXCEPT !.pos = p]
  <2>1. h2_payload(d, p) = e
    BY <1>4 DEF h2_payload
  <2>2. p <= d.f.len
    BY <1>4 DEF FrameEnd
  <2>3. /\ Good(e, 0) /\ Same(e, d, {"b", "pos", "fault", "tx", "err"})
        /\ e.tx <= d.tx + 1 /\ (e.err = "OK" => e.tx = d.tx) /\ e.pos = p
    BY <1>4, <2>2, BlockPayloadKeeps
  <2> HIDE DEF e
  <2>4. Same(e, d, Moved) /\ Named(e, d)
    BY <2>3 DEF Same, Moved, SetFields, Fields, Named
  <2> QED BY <1>4, <2>1, <2>3, <2>4 DEF PayloadDone
<1>5. CASE p # d.pos /\ d.f.t = "SETTINGS"
  <2> DEFINE r == set_payload(d, p)
             e == [r EXCEPT !.pos = p]
  <2>1. h2_payload(d, p) = e
    BY <1>5 DEF h2_payload
  <2>2. SetSoFar(r, d)
    BY <1>5, SetKeeps DEF FrameEnd
  <2> HIDE DEF r
  <2>3. Good(r, 0) /\ Same(r, d, SetFields) /\ Named(r, d) /\ r.tx <= d.tx + 1 /\ (r.err = "OK" => r.tx = d.tx)
    BY <2>2 DEF SetSoFar
  <2>4. Shape(r) /\ Kept(r) /\ r.fs = d.fs /\ r.b = d.b
    BY <2>3, Zenon DEF Good, Kept, Typed, Same, SetFields, Fields
  <2>5. Shape(e) /\ Same(e, r, {"pos"}) /\ e.pos = p
    BY <2>4, PosMoves
  <2> HIDE DEF e
  <2>6. Good(e, 0)
    <3>1. CASE r.err = "OK"
      <4>1. r.fs = 0
        BY <1>1, <1>5, <2>4 DEF Conn, Taking
      <4> QED BY <2>3, <2>5, <3>1, <4>1, PlaceMoved
    <3>2. CASE r.err # "OK"
      BY <2>4, <2>5, <3>2, PlaceKept
    <3> QED BY <3>1, <3>2
  <2>7. Same(e, d, Moved) /\ e.b = d.b /\ e.tx = r.tx /\ e.err = r.err /\ Named(e, d)
    BY <2>3, <2>5 DEF Same, Moved, SetFields, Fields, Named
  <2> QED BY <2>1, <2>3, <2>5, <2>6, <2>7 DEF PayloadDone
<1>6. CASE p # d.pos /\ d.f.t \notin {"DATA", "HEADERS", "CONT", "SETTINGS"}
  <2> DEFINE e == [d EXCEPT !.pos = p]
  <2>1. h2_payload(d, p) = e
    BY <1>6 DEF h2_payload
  <2>2. Shape(e) /\ Same(e, d, {"pos"}) /\ e.pos = p
    BY <1>1, PosMoves
  <2> HIDE DEF e
  <2>3. d.fs = 0
    BY <1>1, <1>6 DEF Conn, Taking
  <2>4. Good(e, 0)
    BY <2>2, <2>3, PlaceMoved
  <2>5. Same(e, d, Moved) /\ e.b = d.b /\ e.tx = d.tx /\ e.err = d.err /\ Named(e, d)
    BY <2>2 DEF Same, Moved, SetFields, Fields, Named
  <2> QED BY <1>1, <2>1, <2>2, <2>4, <2>5 DEF PayloadDone
<1> QED BY <1>2, <1>3, <1>4, <1>5, <1>6

\* On a connection that failed only the place moves, or nothing the invariant reads.
LEMMA PayloadFailed ==
    ASSUME NEW d, Good(d, 0), d.err # "OK", d.fs = 0, NEW p \in Nat, d.pos <= p, p <= FrameEnd(d.f)
    PROVE  /\ Good(h2_payload(d, p), 0) /\ h2_payload(d, p).err # "OK"
           /\ h2_payload(d, p).tx <= d.tx /\ h2_payload(d, p).eof = d.eof
<1> DEFINE e == h2_payload(d, p)
<1>1. Kept(d) /\ Typed(d) /\ Shape(d) /\ d.tx \in Nat /\ d.pos \in Nat /\ d.f \in Frames \cup {NoFrame}
      /\ d.b \in BlockType
  BY Zenon DEF Good, Kept, Typed, Simple
<1>2. h2_conn_err(d) = d
  BY DEF h2_conn_err
<1>3. CASE p = d.pos
  BY <1>1, <1>3 DEF h2_payload
<1>4. CASE p # d.pos /\ e = [d EXCEPT !.pos = p]
  <2>1. Shape(e) /\ Same(e, d, {"pos"}) /\ e.pos = p
    BY <1>1, <1>4, PosMoves
  <2> HIDE DEF e
  <2>2. Good(e, 0)
    BY <1>1, <2>1, PlaceKept
  <2>3. e.tx = d.tx /\ e.err = d.err /\ e.eof = d.eof
    BY <2>1 DEF Same, Fields
  <2> QED BY <1>1, <2>2, <2>3 DEF e
<1>5. CASE p # d.pos /\ d.f.t = "DATA"
  <2>1. e = [d EXCEPT !.pos = p]
    BY <1>2, <1>5 DEF h2_payload, data_payload
  <2> QED BY <1>4, <1>5, <2>1
<1>6. CASE p # d.pos /\ d.f.t = "SETTINGS"
  <2>1. set_payload(d, p) = d
    <3>1. PICK f : SetTurns(f, d, p) /\ set_payload(d, p) = f[p]
      BY <1>1, SetTurnsEnd
    <3>2. f[d.pos] = d /\ \A i \in (d.pos + 1)..p : f[i] = SetNext(f[i - 1], d.f.v[i])
      <4>1. SetTurns(f, d, p) /\ d.pos \in Nat
        BY <1>1, <3>1
      <4>2. SetRun(f, d, p)
        BY <4>1, SetTurnsStep
      <4> QED BY <4>2 DEF SetRun
    <3> DEFINE Bad == {i \in d.pos..p : f[i] # d}
    <3>3. Bad = {}
      <4> SUFFICES ASSUME Bad # {} PROVE FALSE
        OBVIOUS
      <4>0. Bad \in SUBSET Nat
        BY <1>1
      <4>1. PICK i \in Bad : \A j \in Bad : i <= j
        <5> HIDE DEF Bad
        <5> QED BY <4>0, LeastNatural
      <4>2. i \in (d.pos + 1)..p /\ i - 1 \in d.pos..p
        BY <1>1, <3>2
      <4>3. i - 1 \notin Bad
        BY <1>1, <4>1, <4>2
      <4>4. f[i - 1] = d
        BY <4>2, <4>3
      <4>5. f[i] = d
        BY <3>2, <4>2, <4>4 DEF SetNext
      <4> QED BY <4>5
    <3>4. p \in d.pos..p /\ p \notin Bad
      BY <1>1, <3>3
    <3> QED BY <3>1, <3>4
  <2>2. e = [d EXCEPT !.pos = p]
    BY <1>6, <2>1 DEF h2_payload
  <2> QED BY <1>4, <1>6, <2>2
<1>7. CASE p # d.pos /\ d.f.t \in {"HEADERS", "CONT"}
  <2> DEFINE o == BlockOctets(d, p)
             a == BlockFields(d, p)
             q == [d EXCEPT !.b.len = @ + o, !.b.rep = @ \o a]
             over == d.f.pad >= d.f.len \/ d.b.len + o > MAX_LIST
  <2>1. CASE over
    <3>1. e = [d EXCEPT !.pos = p]
      BY <1>2, <1>7, <2>1 DEF h2_payload, block_payload
    <3> QED BY <1>4, <1>7, <3>1
  <2>2. CASE ~over
    <3>1. e = [q EXCEPT !.pos = p]
      BY <1>7, <2>2 DEF h2_payload, block_payload
    <3>2. d.f \in Frames
      BY <1>1, <1>7 DEF NoFrame
    <3>3. d.b.len + o \in Nat /\ a \in Seq(Representations) /\ d.b.rep \in Seq(Representations)
      <4>1. o \in Nat /\ a \in Seq(Representations)
        BY <1>1, <1>7, <3>2, PieceTyped DEF FrameEnd
      <4>2. d.b.len \in Nat /\ d.b.rep \in Seq(Representations)
        <5> HIDE DEF e, o, a
        <5> DEFINE b == d.b
        <5>1. b \in BlockType
          BY <1>1
        <5> HIDE DEF b
        <5>2. b.len \in Nat /\ b.rep \in Seq(Representations)
          BY <5>1 DEF BlockType
        <5> QED BY <5>2 DEF b
      <4> HIDE DEF o, a
      <4> QED BY <4>1, <4>2
    <3> DEFINE n == d.b.len + o
               v == d.b.rep \o a
               b == [d.b EXCEPT !.len = n, !.rep = v]
    <3>4. n \in Nat /\ v \in Seq(Representations)
      <4> HIDE DEF Representations
      <4> QED BY <3>3
    <3>5. b \in BlockType
      <4> HIDE DEF n, v
      <4> QED BY <1>1, <3>4 DEF BlockType
    <3>6. Shape(q) /\ Same(q, d, {"b"}) /\ q.b = b
      BY <1>1, Zenon DEF Shape, Same, Fields, BlockType
    <3> HIDE DEF q, b, n, v
    <3>7. Shape(e) /\ Same(e, q, {"pos"}) /\ e.pos = p
      BY <3>1, <3>6, PosMoves
    <3> HIDE DEF e
    <3>8. Same(e, d, {"b", "pos"}) /\ e.b = b
      BY <3>6, <3>7 DEF Same, Fields
    <3>9. /\ e.err = d.err /\ e.eof = d.eof /\ e.goaway = d.goaway /\ e.last_id = d.last_id
          /\ e.next_id = d.next_id /\ e.p_win = d.p_win /\ e.cpend = d.cpend /\ e.cwin = d.cwin
          /\ e.tx = d.tx /\ e.fault = d.fault /\ e.rx = d.rx /\ e.f = d.f /\ e.fs = d.fs /\ e.dat = d.dat
          /\ e.enc = d.enc /\ e.s = d.s /\ e.g = d.g /\ e.crwin = d.crwin
      BY <3>8 DEF Same, Fields
    <3>10. Typed(e)
      <4>1. Simple(e) /\ Typed(d)
        BY <1>1, <3>7, <3>9 DEF Simple, Typed
      <4> QED BY <3>5, <3>7, <3>8, <3>9, <4>1 DEF Typed
    <3>11. Kept(e)
      BY <1>1, <3>9, <3>10, KeptSame, Zenon DEF Kept
    <3> QED BY <1>1, <3>9, <3>11 DEF Good, e
  <2> QED BY <2>1, <2>2
<1>8. CASE p # d.pos /\ d.f.t \notin {"DATA", "HEADERS", "CONT", "SETTINGS"}
  <2>1. e = [d EXCEPT !.pos = p]
    BY <1>8 DEF h2_payload
  <2> QED BY <1>4, <1>8, <2>1
<1> QED BY <1>3, <1>5, <1>6, <1>7, <1>8
-----------------------------------------------------------------------------
(* The start of a frame *)

LEMMA LiveIs ==
    ASSUME NEW d, NEW sid
    PROVE  LET k == Live(d, sid)
           IN  /\ k \in 0..N
               /\ k # 0 => /\ k \in Slots /\ sid # 0 /\ d.s[k].id = sid
                           /\ ~Has(d.s[k], "RST") /\ ~BothEnds(d.s[k])
               /\ k = 0 /\ sid # 0 =>
                     \A j \in Slots : d.s[j].id = sid => Has(d.s[j], "RST") \/ BothEnds(d.s[j])
<1> DEFINE live == {k \in Slots : d.s[k].id = sid /\ ~Has(d.s[k], "RST") /\ ~BothEnds(d.s[k])}
           k == CHOOSE x \in live : TRUE
<1>1. Slots \subseteq 0..N /\ 0 \notin Slots /\ 0 \in 0..N
  BY Consts
<1>2. Live(d, sid) = IF sid = 0 \/ live = {} THEN 0 ELSE k
  BY DEF Live
<1>3. live # {} => k \in live
  OBVIOUS
<1> HIDE DEF k
<1> QED BY <1>1, <1>2, <1>3, Zenon

LEMMA SaidIs ==
    ASSUME NEW st \in StreamType, NEW fr \in Frames
    PROVE  LET u == Said(st, fr)
           IN  /\ u \in StreamType
               /\ u = [st EXCEPT !.unproc = u.unproc, !.es = u.es, !.dat = u.dat]
               /\ (st.unproc => u.unproc) /\ (st.es => u.es)
               /\ fr.t # "RST" => u.unproc = st.unproc
               /\ fr.t = "RST" /\ fr.code = "REFUSED" => u.unproc
               /\ IF fr.t \in {"DATA", "HEADERS"} /\ ~st.es
                  THEN u.es = fr.es /\ u.dat = st.dat + (IF fr.t = "DATA" THEN FrameData(fr, fr.len) ELSE 0)
                  ELSE u.es = st.es /\ u.dat = st.dat
<1> DEFINE u == Said(st, fr)
           n == IF fr.t = "DATA" THEN FrameData(fr, fr.len) ELSE 0
<1>1. n \in Nat /\ fr.es \in BOOLEAN
  <2>1. fr.len \in Nat /\ fr.es \in BOOLEAN
    BY FrameTyped
  <2> QED BY <2>1, FrameDataGrows
<1>2. st.dat \in Nat
  BY DEF StreamType
<1> DEFINE a == st.dat + n  b == fr.es
<1>3. CASE fr.t \in {"DATA", "HEADERS"} /\ ~st.es
  <2>1. u = [st EXCEPT !.dat = a, !.es = b]
    BY <1>3 DEF Said, StreamType
  <2>2. a \in Nat /\ b \in BOOLEAN
    BY <1>1, <1>2
  <2>3. fr.t # "RST"
    BY <1>3
  <2> HIDE DEF a, b, u, n
  <2>4. u \in StreamType /\ u.dat = a /\ u.es = b /\ u.unproc = st.unproc
    BY <2>1, <2>2 DEF StreamType
  <2>5. u = [st EXCEPT !.unproc = u.unproc, !.es = u.es, !.dat = u.dat]
    BY <2>1, <2>4, Zenon DEF StreamType
  <2> QED BY <1>3, <2>3, <2>4, <2>5, Zenon DEF a, b, u, n
<1>4. CASE ~(fr.t \in {"DATA", "HEADERS"} /\ ~st.es) /\ fr.t = "RST" /\ fr.code = "REFUSED"
  <2>1. u = [st EXCEPT !.unproc = TRUE]
    BY <1>4, Zenon DEF Said
  <2> HIDE DEF u
  <2>2. u \in StreamType /\ u.unproc /\ u.es = st.es /\ u.dat = st.dat
    BY <2>1, Zenon DEF StreamType
  <2>3. u = [st EXCEPT !.unproc = u.unproc, !.es = u.es, !.dat = u.dat]
    BY <2>1, <2>2, Zenon DEF StreamType
  <2> QED BY <1>4, <2>2, <2>3, Zenon DEF u
<1>5. CASE ~(fr.t \in {"DATA", "HEADERS"} /\ ~st.es) /\ ~(fr.t = "RST" /\ fr.code = "REFUSED")
  <2>1. u = st
    BY <1>5, Zenon DEF Said
  <2> HIDE DEF u
  <2>2. st = [st EXCEPT !.unproc = st.unproc, !.es = st.es, !.dat = st.dat]
    BY Zenon DEF StreamType
  <2> QED BY <1>5, <2>1, <2>2, Zenon DEF u
<1> QED BY <1>3, <1>4, <1>5, Zenon

\* What a frame says of each stream.
Told1(st, i, fr) ==
    IF fr.t = "GOAWAY" THEN IF i > fr.n THEN [st EXCEPT !.unproc = TRUE] ELSE st
    ELSE IF i = fr.sid THEN Said(st, fr) ELSE st
Told1Says(st, i, fr, u) ==
    /\ u \in StreamType
    /\ u = [st EXCEPT !.unproc = u.unproc, !.es = u.es, !.dat = u.dat]
    /\ (st.unproc => u.unproc) /\ (st.es => u.es)
    /\ fr.t = "GOAWAY" /\ i > fr.n => u.unproc
    /\ fr.t = "RST" /\ fr.code = "REFUSED" /\ i = fr.sid => u.unproc
    /\ fr.t \notin {"RST", "GOAWAY"} => u.unproc = st.unproc
    /\ IF fr.t \in {"DATA", "HEADERS"} /\ i = fr.sid /\ ~st.es
       THEN u.es = fr.es /\ u.dat = st.dat + (IF fr.t = "DATA" THEN FrameData(fr, fr.len) ELSE 0)
       ELSE u.es = st.es /\ u.dat = st.dat

LEMMA Told1Is ==
    ASSUME NEW st \in StreamType, NEW i, NEW fr \in Frames
    PROVE  Told1Says(st, i, fr, Told1(st, i, fr))
<1> USE DEF Told1Says
<1>1. CASE fr.t = "GOAWAY" /\ i > fr.n
  <2> DEFINE u == [st EXCEPT !.unproc = TRUE]
  <2>1. u \in StreamType /\ u.unproc /\ u.es = st.es /\ u.dat = st.dat
    BY Zenon DEF StreamType
  <2>2. u = [st EXCEPT !.unproc = u.unproc, !.es = u.es, !.dat = u.dat]
    BY Zenon DEF StreamType
  <2>3. Told1(st, i, fr) = u
    BY <1>1, Zenon DEF Told1
  <2> HIDE DEF u
  <2> QED BY <1>1, <2>1, <2>2, <2>3, Zenon
<1>2. CASE fr.t # "GOAWAY" /\ i = fr.sid
  <2> DEFINE u == Said(st, fr)
  <2>1. /\ u \in StreamType
        /\ u = [st EXCEPT !.unproc = u.unproc, !.es = u.es, !.dat = u.dat]
        /\ (st.unproc => u.unproc) /\ (st.es => u.es)
        /\ fr.t # "RST" => u.unproc = st.unproc
        /\ fr.t = "RST" /\ fr.code = "REFUSED" => u.unproc
        /\ IF fr.t \in {"DATA", "HEADERS"} /\ ~st.es
           THEN u.es = fr.es /\ u.dat = st.dat + (IF fr.t = "DATA" THEN FrameData(fr, fr.len) ELSE 0)
           ELSE u.es = st.es /\ u.dat = st.dat
    BY SaidIs, Zenon
  <2>2. Told1(st, i, fr) = u
    BY <1>2, Zenon DEF Told1
  <2> HIDE DEF u
  <2> QED BY <1>2, <2>1, <2>2, Zenon
<1>3. CASE ~(fr.t = "GOAWAY" /\ i > fr.n) /\ ~(fr.t # "GOAWAY" /\ i = fr.sid)
  <2>1. Told1(st, i, fr) = st
    BY <1>3 DEF Told1
  <2>2. st = [st EXCEPT !.unproc = st.unproc, !.es = st.es, !.dat = st.dat]
    BY Zenon DEF StreamType
  <2> QED BY <1>3, <2>1, <2>2, Zenon
<1> QED BY <1>1, <1>2, <1>3, Zenon

LEMMA SaidDoes ==
    ASSUME NEW g, PastTyped(g), NEW fr \in Frames
    PROVE  LET h == server_said(g, fr)
           IN  /\ PastTyped(h) /\ \A x \in Past \ {"st", "tab"} : h[x] = g[x]
               /\ \A i \in Ids : h.st[i] = Told1(g.st[i], i, fr)
<1> DEFINE h == server_said(g, fr)
           st == [i \in Ids |-> Told1(g.st[i], i, fr)]
<1>1. g = [x \in Past |-> g[x]] /\ g.st \in [Ids -> StreamType]
  BY Zenon DEF PastTyped
<1>2. st \in [Ids -> StreamType]
  <2>1. \A i \in Ids : Told1(g.st[i], i, fr) \in StreamType
    <3> TAKE i \in Ids
    <3>1. g.st[i] \in StreamType
      BY <1>1, Zenon
    <3>2. Told1Says(g.st[i], i, fr, Told1(g.st[i], i, fr))
      BY <3>1, Told1Is
    <3> QED BY <3>2 DEF Told1Says
  <2> QED BY <2>1
<1>3. \E tab : h = [g EXCEPT !.st = st, !.tab = tab]
  <2>1. CASE fr.t = "GOAWAY"
    <3> DEFINE m == [i \in Ids |-> IF i > fr.n THEN [g.st[i] EXCEPT !.unproc = TRUE] ELSE g.st[i]]
    <3>1. h = [g EXCEPT !.st = m]
      BY <1>1, <2>1 DEF server_said, Past
    <3>2. m = st
      BY <2>1 DEF Told1
    <3> HIDE DEF m, st
    <3>3. h = [g EXCEPT !.st = st, !.tab = g.tab]
      BY <1>1, <3>1, <3>2, Zenon DEF Past
    <3> QED BY <3>3, Zenon
  <2>2. CASE fr.t # "GOAWAY" /\ fr.sid \in Ids
    <3> DEFINE m == [g.st EXCEPT ![fr.sid] = Said(g.st[fr.sid], fr)]
               tab == IF fr.t \in {"HEADERS", "CONT"} /\ Sendable(g.tab, fr.v)
                      THEN FoldLeft(Encoded, g.tab, fr.v) ELSE g.tab
    <3>1. h = [g EXCEPT !.st[fr.sid] = Said(@, fr), !.tab = IF fr.t \in {"HEADERS", "CONT"} /\ Sendable(@, fr.v)
                      THEN FoldLeft(Encoded, @, fr.v) ELSE @]
      BY <2>2 DEF server_said
    <3>2. m = st
      BY <1>1, <2>2, Zenon DEF Told1
    <3>3. h = [g EXCEPT !.st = m, !.tab = tab]
      BY <1>1, <3>1 DEF Past
    <3> HIDE DEF m, st, tab
    <3> QED BY <3>2, <3>3
  <2>3. CASE fr.t # "GOAWAY" /\ fr.sid \notin Ids
    <3>1. h = g
      BY <2>3 DEF server_said
    <3>2. st = g.st
      BY <1>1, <2>3 DEF Told1
    <3> HIDE DEF st
    <3>3. g = [g EXCEPT !.st = st, !.tab = g.tab]
      BY <1>1, <3>2, Zenon DEF Past
    <3> QED BY <3>1, <3>3, Zenon
  <2> QED BY <2>1, <2>2, <2>3, Zenon
<1> HIDE DEF h
<1>4. PICK tab : h = [g EXCEPT !.st = st, !.tab = tab]
  BY <1>3, Zenon
<1> DEFINE q == st
<1>5. q \in [Ids -> StreamType] /\ h = [g EXCEPT !.st = q, !.tab = tab]
  BY <1>2, <1>4
<1> HIDE DEF q
<1>6. h = [x \in Past |-> h[x]] /\ h.st = q /\ \A x \in Past \ {"st", "tab"} : h[x] = g[x]
  BY <1>1, <1>5, Zenon DEF Past
<1>7. PastTyped(h)
  BY <1>5, <1>6, Zenon DEF PastTyped, Past
<1>8. \A i \in Ids : h.st[i] = Told1(g.st[i], i, fr)
  <2>1. h.st = [i \in Ids |-> Told1(g.st[i], i, fr)]
    BY <1>6 DEF q
  <2> QED BY <2>1
<1> QED BY <1>6, <1>7, <1>8 DEF h
Begun(d, fr) == [d EXCEPT !.f = fr, !.pos = 0, !.fs = 0, !.dat = 0, !.idle = @ + 1, !.fh = 9,
                          !.g = server_said(@, fr)]
\* The connection between two frames, and r where it has a new header.
Between(d) == Good(d, 0) /\ d.err = "OK" /\ d.f = NoFrame /\ d.pos = 0 /\ d.dat = 0 /\ d.fs = 0
BegunFrom(r, d, fr) ==
    /\ Kept(r) /\ Told(r)
    /\ Same(r, d, {"f", "pos", "fs", "dat", "idle", "fh", "g"}) /\ PastSame(r, d, {"st", "tab"})
    /\ r.f = fr /\ r.pos = 0 /\ r.fs = 0 /\ r.dat = 0 /\ r.fh = 9
    /\ \A i \in Ids : r.g.st[i] = Told1(d.g.st[i], i, fr)

LEMMA BegunIs ==
    ASSUME NEW d, Between(d), NEW fr \in Frames
    PROVE  BegunFrom(Begun(d, fr), d, fr)
<1> DEFINE r == Begun(d, fr)
           h == server_said(d.g, fr)
<1>1. Kept(d) /\ Typed(d) /\ Shape(d) /\ PastTyped(d.g) /\ Simple(d) /\ Conn(d)
  BY Zenon DEF Between, Good, Kept, Typed
<1>2. /\ PastTyped(h) /\ \A x \in Past \ {"st", "tab"} : h[x] = d.g[x]
      /\ \A i \in Ids : h.st[i] = Told1(d.g.st[i], i, fr)
  BY <1>1, SaidDoes
<1>3. r = [d EXCEPT !.f = fr, !.pos = 0, !.fs = 0, !.dat = 0, !.idle = d.idle + 1, !.fh = 9, !.g = h]
  BY <1>1 DEF Begun, Shape, Fields
<1> HIDE DEF r, h
<1>4. /\ Shape(r) /\ Same(r, d, {"f", "pos", "fs", "dat", "idle", "fh", "g"})
      /\ r.f = fr /\ r.pos = 0 /\ r.fs = 0 /\ r.dat = 0 /\ r.fh = 9 /\ r.g = h
  BY <1>1, <1>3 DEF Shape, Same, Fields
<1>5. /\ r.s = d.s /\ r.b = d.b /\ r.enc = d.enc /\ r.fault = d.fault /\ r.goaway = d.goaway
      /\ r.rx = d.rx /\ r.p_win = d.p_win /\ r.next_id = d.next_id /\ r.tx = d.tx
      /\ r.cpend = d.cpend /\ r.last_id = d.last_id /\ r.cwin = d.cwin /\ r.crwin = d.crwin
  BY <1>4 DEF Same, Fields
<1>6. Simple(r)
  BY <1>1, <1>4, <1>5, Consts DEF Simple
<1>7. Typed(r)
  BY <1>1, <1>2, <1>4, <1>5, <1>6 DEF Typed
<1>8. ASSUME NEW i \in Ids
      PROVE  LET u == r.g.st[i]  st == d.g.st[i]
             IN  /\ u.whole = st.whole /\ u.retry = st.retry /\ (st.unproc => u.unproc)
                 /\ fr.t = "GOAWAY" /\ i > fr.n => u.unproc
                 /\ fr.t = "RST" /\ fr.code = "REFUSED" /\ i = fr.sid => u.unproc
  <2> DEFINE st == d.g.st[i]
  <2>1. st \in StreamType
    BY <1>1, StreamTyped
  <2> HIDE DEF st
  <2> DEFINE u == Told1(st, i, fr)
  <2>2. Told1Says(st, i, fr, u)
    BY <2>1, Told1Is
  <2>3. r.g.st[i] = u
    BY <1>2, <1>4 DEF st
  <2> HIDE DEF u
  <2> DEFINE a == u.unproc  b == u.es  n == u.dat
  <2>4. u = [st EXCEPT !.unproc = a, !.es = b, !.dat = n]
    BY <2>2 DEF Told1Says
  <2> HIDE DEF a, b, n
  <2>5. u.whole = st.whole /\ u.retry = st.retry
    BY <2>1, <2>4 DEF StreamType
  <2> QED BY <2>2, <2>3, <2>5 DEF st, Told1Says
<1>9. r.g.wire = d.g.wire
  BY <1>2, <1>4 DEF Past
<1>10. Kept(r)
  BY <1>1, <1>5, <1>7, <1>8, <1>9 DEF Kept
<1>11. Told(r)
  BY <1>1, <1>4, <1>5, <1>8, Zenon DEF Conn, Told
<1>12. PastSame(r, d, {"st", "tab"})
  BY <1>2, <1>4 DEF PastSame
<1> QED BY <1>2, <1>4, <1>10, <1>11, <1>12 DEF BegunFrom, r

\* A frame that changes no slot.
LEMMA StartKeeps ==
    ASSUME NEW d, Between(d), NEW fr \in Frames, NEW r, BegunFrom(r, d, fr), NEW e, Typed(e),
           Same(e, r, {"b", "crwin", "cpend"}), e.crwin + e.cpend = d.crwin + d.cpend,
           fr.t \in {"DATA", "HEADERS"} => Live(d, fr.sid) = 0 /\ ~ZeroOrIdle(d, fr.sid),
           fr.t # "DATA" => e.cpend = d.cpend,
           \A k \in Slots : Ending(e, k) = Ending(d, k), InBlock(e)
    PROVE  Good(e, 0)
<1>1. /\ Kept(d) /\ Typed(d) /\ Conn(d) /\ Owing(d, 0) /\ d.err = "OK" /\ d.fs = 0
      /\ (\A k \in Slots : SlotOK(d, k)) /\ d.f = NoFrame /\ Good(d, 0)
  BY Zenon DEF Between, Good, Kept
<1>2. /\ e.g = r.g /\ e.fault = r.fault /\ e.tx = r.tx /\ e.f = fr /\ e.fs = 0 /\ r.tx = d.tx
      /\ e.goaway = r.goaway /\ e.last_id = r.last_id /\ e.enc = d.enc /\ e.eof = d.eof /\ e.rx = d.rx
  BY DEF BegunFrom, Same, Fields
<1>3. Same(e, d, Neutral \cup {"pos", "dat", "f", "fs", "b", "enc", "g", "crwin", "cpend"})
  BY DEF BegunFrom, Same, Neutral, Untyped, Fields
<1>4. PastSame(e, d, {"st", "tab", "believed", "low"}) /\ e.g.believed = d.g.believed /\ e.g.low = d.g.low
  BY <1>2 DEF BegunFrom, PastSame, Past
<1>5. Heard(e, d)
  <2> SUFFICES ASSUME NEW i \in Ids
               PROVE  LET u == e.g.st[i]  st == d.g.st[i]
                      IN  /\ u = [st EXCEPT !.unproc = u.unproc, !.es = u.es, !.dat = u.dat]
                          /\ (st.unproc => u.unproc) /\ (st.es => u.es)
                          /\ \/ u.es = st.es /\ u.dat = st.dat
                             \/ i < d.next_id /\ \A k \in Slots : d.s[k].id = i => d.s[k].err # "OK"
    BY Zenon DEF Heard
  <2> DEFINE st == d.g.st[i]
  <2>1. st \in StreamType
    BY <1>1, StreamTyped
  <2> HIDE DEF st
  <2> DEFINE u == Told1(st, i, fr)
  <2>2. Told1Says(st, i, fr, u)
    BY <2>1, Told1Is
  <2>3. e.g.st[i] = u
    BY <1>2 DEF BegunFrom, st
  <2> HIDE DEF u
  <2>4. \/ u.es = st.es /\ u.dat = st.dat
        \/ i < d.next_id /\ \A k \in Slots : d.s[k].id = i => d.s[k].err # "OK"
    <3> SUFFICES ASSUME fr.t \in {"DATA", "HEADERS"}, i = fr.sid, ~st.es
                 PROVE  i < d.next_id /\ \A k \in Slots : d.s[k].id = i => d.s[k].err # "OK"
      BY <2>2 DEF Told1Says
    <3>1. i < d.next_id
      <4>1. ~(i >= d.next_id)
        BY DEF ZeroOrIdle
      <4>2. i \in Nat /\ d.next_id \in Nat
        BY <1>1, Consts DEF Typed, Simple
      <4> QED BY <4>1, <4>2
    <3>2. ASSUME NEW k \in Slots, d.s[k].id = i PROVE d.s[k].err # "OK"
      <4> USE DEF st
      <4>1. i # 0 /\ SlotOK(d, k)
        BY <1>1, Consts, Zenon
      <4>2. Has(d.s[k], "RST") \/ BothEnds(d.s[k])
        BY <3>2, <4>1, LiveIs
      <4>3. Closing(d.s[k], st, Part(d, k).es \/ Ending(d, k))
        BY <3>2, <4>1 DEF SlotOK
      <4>4. ~Has(d.s[k], "RECV_END")
        BY <4>3, Zenon DEF Closing
      <4>5. ~BothEnds(d.s[k])
        BY <4>4 DEF BothEnds, Has
      <4> QED BY <4>2, <4>3, <4>5, Zenon DEF Closing
    <3> QED BY <3>1, <3>2
  <2> QED BY <2>2, <2>3, <2>4, Zenon DEF st, Told1Says
<1>6. ~e.fault /\ e.tx <= TX
  BY <1>2, Zenon DEF BegunFrom, Kept
<1>7. \A k \in Slots : Part(e, k) = Part(d, k)
  BY <1>1, <1>2, Consts DEF Part
<1>8. Taking(e)
  BY <1>2 DEF Taking
<1>9. Told(e)
  BY <1>2 DEF BegunFrom, Told
<1>10. Encoding(e) /\ (e.eof # "no" => ~e.rx)
  BY <1>1, <1>2, <1>4 DEF Conn, Encoding
<1>11. e.f.t # "DATA" => e.cpend < CREDIT
  <2>1. d.cpend < CREDIT
    BY <1>1 DEF Owing, NoFrame
  <2> QED BY <1>2, <2>1
<1> QED BY <1>1, <1>3, <1>4, <1>5, <1>6, <1>7, <1>8, <1>9, <1>10, <1>11, HeardKeeps, Zenon
\* The stream of a DATA or HEADERS frame that is not reset nor closed at both ends.
Addressed(r, d, fr, k) ==
    LET s == d.s[k]  st == d.g.st[s.id]  u == r.g.st[s.id]
    IN  /\ s \in SlotType /\ s.id = fr.sid /\ s.id \in Ids /\ s.id < d.next_id
        /\ u \in StreamType
        /\ u.ph = st.ph /\ u.sent = st.sent /\ u.wu = st.wu /\ u.read = st.read
        /\ u.whole /\ u.retry /\ (u.unproc <=> st.unproc)
        /\ st.ph \in {"open", "ended"} /\ s.err = "OK"
        /\ ~Has(s, "RST") /\ ~BothEnds(s)
        /\ st.ph = IF Has(s, "SENT_END") THEN "ended" ELSE "open"
        /\ Has(s, "RECV_END") => u.es
        /\ ~Has(s, "RECV_END") =>
              /\ u.es = fr.es
              /\ u.dat = st.dat + (IF fr.t = "DATA" THEN FrameData(fr, fr.len) ELSE 0)
        /\ Counting(s, st, Idle0) /\ Granted(s, st, d.p_win) /\ Paid(s)

LEMMA AddressedIs ==
    ASSUME NEW d, Between(d), ~d.b.in, NEW fr \in Frames, fr.t \in {"DATA", "HEADERS"},
           NEW r, BegunFrom(r, d, fr), NEW k \in Slots, d.s[k].id = fr.sid, fr.sid # 0,
           ~Has(d.s[k], "RST"), ~BothEnds(d.s[k])
    PROVE  Addressed(r, d, fr, k) /\ Aside(r, d, k) /\ d.b.s = 0
<1> DEFINE s == d.s[k]  id == s.id  st == d.g.st[id]  u == r.g.st[id]
<1>1. /\ Kept(d) /\ Typed(d) /\ Conn(d) /\ Owing(d, 0) /\ d.err = "OK" /\ d.fs = 0
      /\ SlotOK(d, k) /\ d.f = NoFrame /\ Kept(r) /\ Typed(r)
  BY Zenon DEF Between, Good, Kept, BegunFrom
<1>2. d.b.s = 0
  BY <1>1, Zenon DEF Conn, InBlock
<1>3. Part(d, k) = Idle0 /\ ~Ending(d, k) /\ ~Part(d, k).es
  BY <1>1, <1>2, Consts DEF Part, Ending, Idle0
<1>4. /\ id \in Ids /\ id < d.next_id
      /\ Closing(s, st, Part(d, k).es \/ Ending(d, k)) /\ Counting(s, st, Part(d, k))
      /\ Granted(s, st, d.p_win)
  BY <1>1, Zenon DEF SlotOK
<1>5. s \in SlotType /\ st \in StreamType /\ u \in StreamType
  BY <1>1, <1>4, SlotTyped, StreamTyped, Zenon
<1>6. Told1Says(st, id, fr, Told1(st, id, fr)) /\ u = Told1(st, id, fr)
  <2>1. u = Told1(st, id, fr)
    BY <1>4 DEF BegunFrom
  <2> HIDE DEF u, st, id
  <2> QED BY <1>5, <2>1, Told1Is
<1> HIDE DEF u, st
<1>7. /\ u = [st EXCEPT !.unproc = u.unproc, !.es = u.es, !.dat = u.dat]
      /\ (st.unproc => u.unproc) /\ (st.es => u.es) /\ u.unproc = st.unproc
      /\ IF ~st.es
         THEN u.es = fr.es /\ u.dat = st.dat + (IF fr.t = "DATA" THEN FrameData(fr, fr.len) ELSE 0)
         ELSE u.es = st.es /\ u.dat = st.dat
  <2>1. Told1Says(st, id, fr, u) /\ id = fr.sid /\ fr.t \notin {"RST", "GOAWAY"}
    BY <1>6
  <2> HIDE DEF id
  <2> QED BY <2>1 DEF Told1Says
<1>8. u.ph = st.ph /\ u.sent = st.sent /\ u.wu = st.wu /\ u.read = st.read
      /\ u.whole = st.whole /\ u.retry = st.retry
  <2> DEFINE a == u.unproc  b == u.es  n == u.dat
  <2>1. u = [st EXCEPT !.unproc = a, !.es = b, !.dat = n]
    BY <1>7
  <2> HIDE DEF a, b, n
  <2> QED BY <1>5, <2>1 DEF StreamType
<1>9. st.whole /\ st.retry
  BY <1>1, <1>4, Zenon DEF Kept, st
<1>10. /\ s.err = "OK" /\ (Has(s, "RECV_END") => st.es) /\ (~Has(s, "RECV_END") => ~st.es)
       /\ st.ph = IF Has(s, "SENT_END") THEN "ended" ELSE "open"
  BY <1>3, <1>4 DEF Closing
<1>11. Paid(s)
  BY <1>1, Consts DEF Owing
<1>12. Addressed(r, d, fr, k)
  <2>1. /\ s \in SlotType /\ id = fr.sid /\ id \in Ids /\ id < d.next_id
        /\ ~Has(s, "RST") /\ ~BothEnds(s) /\ s.err = "OK"
    BY <1>4, <1>5, <1>10
  <2>2. /\ u \in StreamType
        /\ u.ph = st.ph /\ u.sent = st.sent /\ u.wu = st.wu /\ u.read = st.read
        /\ u.whole /\ u.retry /\ (u.unproc <=> st.unproc)
    BY <1>5, <1>7, <1>8, <1>9
  <2>3. /\ Has(s, "RECV_END") => u.es
        /\ ~Has(s, "RECV_END") =>
              /\ u.es = fr.es
              /\ u.dat = st.dat + (IF fr.t = "DATA" THEN FrameData(fr, fr.len) ELSE 0)
    BY <1>7, <1>10
  <2>4. Counting(s, st, Idle0) /\ Granted(s, st, d.p_win) /\ Paid(s)
    BY <1>3, <1>4, <1>11
  <2>5. st.ph \in {"open", "ended"} /\ st.ph = IF Has(s, "SENT_END") THEN "ended" ELSE "open"
    BY <1>10
  <2> HIDE DEF id, s
  <2> QED BY <2>1, <2>2, <2>3, <2>4, <2>5, Zenon DEF Addressed, id, s, st, u
<1>13. Aside(r, d, k)
  <2>1. /\ r.s = d.s /\ r.p_win = d.p_win /\ r.next_id = d.next_id /\ r.goaway = d.goaway
        /\ r.last_id = d.last_id /\ r.enc = d.enc /\ r.eof = d.eof /\ r.rx = d.rx /\ r.b = d.b
        /\ r.g.believed = d.g.believed /\ r.g.low = d.g.low /\ r.fs = 0
    BY DEF BegunFrom, Same, Fields, PastSame, Past
  <2>2. \A j \in Slots : Part(r, j) = Part(d, j) /\ Ending(r, j) = Ending(d, j)
    BY <1>1, <2>1, Consts DEF Part, Ending
  <2>3. \A i \in Ids : i # id => r.g.st[i] = d.g.st[i]
    <3> TAKE i \in Ids
    <3> HAVE i # id
    <3>1. r.g.st[i] = Told1(d.g.st[i], i, fr)
      BY Zenon DEF BegunFrom
    <3>2. i # fr.sid /\ fr.t # "GOAWAY"
      OBVIOUS
    <3> QED BY <3>1, <3>2 DEF Told1
  <2> QED BY <2>1, <2>2, <2>3 DEF Aside
<1> QED BY <1>2, <1>12, <1>13

StartDone(e, d, fr) ==
    /\ Good(e, 0) /\ e.tx <= d.tx + 1 /\ e.f = fr /\ e.pos = 0 /\ e.fh = 9 /\ e.eof = d.eof /\ Named(e, d)
    /\ e.err # "OK" => e.fs = 0

LEMMA StartRefused ==
    ASSUME NEW d, Between(d), d.tx < TX, NEW fr \in Frames, NEW r, BegunFrom(r, d, fr)
    PROVE  StartDone(h2_conn_err(r), d, fr)
<1> DEFINE e == h2_conn_err(r)
<1>1. r.tx = d.tx /\ r.s = d.s /\ r.eof = d.eof /\ Kept(r) /\ r.f = fr /\ r.pos = 0 /\ r.fs = 0
      /\ r.fh = 9
  BY DEF BegunFrom, Same, Fields
<1>2. Good(e, 0) /\ Same(e, r, {"fault", "tx", "err"}) /\ e.err # "OK" /\ e.tx <= r.tx + 1
  BY <1>1, ConnErrKeeps
<1> HIDE DEF e
<1>3. e.f = r.f /\ e.fh = r.fh /\ e.pos = r.pos /\ e.eof = r.eof /\ e.s = r.s /\ e.fs = r.fs
  BY <1>2 DEF Same, Fields
<1> QED BY <1>1, <1>2, <1>3 DEF StartDone, Named, e

\* What is left of Aside when no clause of it reads the fields that changed.
LEMMA AsideAfter ==
    ASSUME NEW d, NEW k \in Slots, NEW r, Aside(r, d, k), NEW e,
           Same(e, r, (Neutral \ {"eof", "rx"}) \cup {"pos", "dat", "f", "fs", "b", "crwin", "cpend", "dec"}),
           \A j \in Slots : j # k => Part(e, j) = Part(d, j) /\ Ending(e, j) = Ending(d, j)
    PROVE  Aside(e, d, k)
<1>1. /\ e.s = r.s /\ e.g = r.g /\ e.p_win = r.p_win /\ e.next_id = r.next_id /\ e.goaway = r.goaway
      /\ e.last_id = r.last_id /\ e.enc = r.enc /\ e.eof = r.eof /\ e.rx = r.rx
  BY DEF Same, Neutral, Untyped, Fields
<1> QED BY <1>1 DEF Aside
Dropped(r, n) == [[r EXCEPT !.crwin = @ - n] EXCEPT !.cpend = @ + n]
LEMMA DroppedIs ==
    ASSUME NEW r, Typed(r), NEW n \in Nat
    PROVE  LET q == Dropped(r, n)
           IN  /\ Typed(q) /\ Same(q, r, {"crwin", "cpend"})
               /\ q.crwin = r.crwin - n /\ q.cpend = r.cpend + n
               /\ q.crwin + q.cpend = r.crwin + r.cpend
<1> DEFINE m == [r EXCEPT !.crwin = @ - n]
           q == [m EXCEPT !.cpend = @ + n]
<1>1. Shape(r) /\ Simple(r)
  BY DEF Typed
<1>2. Shape(m) /\ Same(m, r, {"crwin"}) /\ m.crwin = r.crwin - n
  BY <1>1 DEF Shape, Same, Fields
<1> HIDE DEF m
<1>3. Shape(q) /\ Same(q, m, {"cpend"}) /\ q.cpend = m.cpend + n
  BY <1>2, Zenon DEF Shape, Same, Fields
<1>4. Dropped(r, n) = q
  BY DEF Dropped, m
<1> HIDE DEF q
<1>5. Same(q, r, {"crwin", "cpend"}) /\ q.crwin = r.crwin - n /\ q.cpend = r.cpend + n
  BY <1>2, <1>3 DEF Same, Fields
<1>6. r.crwin \in Int /\ r.cpend \in Nat
  BY <1>1 DEF Simple
<1>7. q.crwin \in Int /\ q.cpend \in Nat /\ q.crwin + q.cpend = r.crwin + r.cpend
  BY <1>5, <1>6
<1>8. Simple(q) /\ Same(q, r, Scalars)
  BY <1>1, <1>5, <1>7 DEF Same, Scalars, Fields, Simple
<1>9. Typed(q)
  BY <1>3, <1>8, TypedAfter
<1> QED BY <1>4, <1>5, <1>7, <1>9

\* A live stream fails at the start of its frame.
LEMMA StartFails ==
    ASSUME NEW d, Between(d), ~d.b.in, d.tx < TX, NEW fr \in Frames, fr.t \in {"DATA", "HEADERS"},
           NEW r, BegunFrom(r, d, fr), NEW k \in Slots, d.s[k].id = fr.sid, fr.sid # 0,
           ~Has(d.s[k], "RST"), ~BothEnds(d.s[k]), NEW q, Typed(q),
           Same(q, r, {"b", "crwin", "cpend"}), q.crwin + q.cpend = r.crwin + r.cpend, q.b.s = 0,
           q.b.in => fr.t = "HEADERS", fr.t # "DATA" => q.cpend = r.cpend
    PROVE  StartDone(h2_stream_err(q, k), d, fr)
<1> DEFINE s == d.s[k]  st == d.g.st[s.id]  u == r.g.st[s.id]
           e == h2_stream_err(q, k)
<1>1. /\ Kept(d) /\ Typed(d) /\ Conn(d) /\ Owing(d, 0) /\ d.err = "OK" /\ d.fs = 0
      /\ d.f = NoFrame /\ Kept(r) /\ Typed(r) /\ Told(r) /\ Good(d, 0)
  BY Zenon DEF Between, Good, Kept, BegunFrom
<1>2. Addressed(r, d, fr, k) /\ Aside(r, d, k) /\ d.b.s = 0
  BY AddressedIs
<1>3. /\ r.s = d.s /\ r.tx = d.tx /\ r.fs = 0 /\ r.f = fr /\ r.pos = 0 /\ r.crwin = d.crwin
      /\ r.cpend = d.cpend /\ r.p_win = d.p_win /\ r.eof = d.eof /\ r.g.extra = d.g.extra
  BY DEF BegunFrom, Same, Fields, PastSame, Past
<1>4. /\ q.s = r.s /\ q.g = r.g /\ q.tx = r.tx /\ q.fault = r.fault /\ q.fs = 0 /\ q.f = fr
      /\ q.p_win = r.p_win /\ q.pos = 0 /\ q.eof = r.eof /\ q.goaway = r.goaway /\ q.last_id = r.last_id
  BY <1>3 DEF Same, Fields
<1>5. \A j \in Slots : Part(d, j) = Idle0 /\ Part(q, j) = Idle0 /\ Ending(q, j) = Ending(d, j)
  BY <1>1, <1>2, <1>4, Consts DEF Part, Ending
<1>6. Aside(q, d, k)
  <2>1. Same(q, r, (Neutral \ {"eof", "rx"}) \cup {"pos", "dat", "f", "fs", "b", "crwin", "cpend", "dec"})
    BY DEF Same
  <2> QED BY <1>2, <1>5, <2>1, AsideAfter, Zenon
<1>7. q.g.wire /\ ~q.fault /\ q.tx <= TX
  BY <1>1, <1>4, Zenon DEF Kept
<1>8. Resettable(q, k)
  <2>1. q.s[k] = s /\ q.g.st[s.id] = u /\ q.p_win = d.p_win
    BY <1>3, <1>4
  <2>2. /\ u.whole /\ u.retry /\ s.err = "OK" /\ s.hdr <= s.rlen /\ (Has(s, "RECV_END") => u.es)
        /\ ~Has(s, "RST") /\ ~BothEnds(s) /\ u.ph \in {"open", "ended"}
        /\ Granted(s, u, d.p_win)
    BY <1>2, Zenon DEF Addressed, Counting, Granted
  <2>3. q.tx < TX
    BY <1>3, <1>4
  <2> HIDE DEF s, u
  <2> QED BY <2>1, <2>2, <2>3 DEF Resettable
<1>9. d.g.st[d.s[k].id].unproc => q.g.st[d.s[k].id].unproc
  BY <1>2, <1>4, Zenon DEF Addressed
<1>10. Told(q)
  BY <1>1, <1>3, <1>4, Zenon DEF Told
<1>11. Books(q, k) = Books(d, k)
  <2>1. Rest(q.s[k]) = Rest(d.s[k]) /\ q.g.extra = d.g.extra /\ q.crwin + q.cpend = d.crwin + d.cpend
        /\ Part(q, k) = Part(d, k)
    BY <1>3, <1>4, <1>5
  <2> QED BY <2>1 DEF Books
<1>12. fr.t # "DATA" => q.cpend < CREDIT
  <2>1. d.cpend < CREDIT
    BY <1>1 DEF Owing, NoFrame
  <2> QED BY <1>3, <2>1
<1>13. d.s[k].id # 0
  OBVIOUS
<1> HIDE DEF s, st, u
<1>14. /\ Good(e, 0) /\ Same(e, q, {"s", "g", "fault", "tx"}) /\ e.tx <= q.tx + 1
       /\ SlotBecomes(e, q, k, FailedSlot(q.s[k]))
  <2>1. 0 = 0 /\ q.f.t # "DATA" => q.cpend < CREDIT
    BY <1>4, <1>12
  <2>2. q.b.in => q.f.t \in {"none", "HEADERS", "CONT"}
    BY <1>4
  <2>3. 0 \in {0, k, 0}
    OBVIOUS
  <2>4. Failing(q, d, k, 0)
    BY <1>4, <1>6, <1>7, <1>8, <1>9, <1>10, <1>11, <2>1, <2>2 DEF Failing
  <2>5. FailedDone(e, q, k, 0)
    BY <1>1, <1>13, <2>3, <2>4, FailedKeeps, Zenon
  <2> HIDE DEF e
  <2> QED BY <2>5 DEF FailedDone
<1>15. Named(e, d)
  <2>1. q.s[k] \in SlotType
    BY SlotTyped, Zenon
  <2>2. FailedSlot(q.s[k]) \in SlotType /\ FailedSlot(q.s[k]).id = q.s[k].id
    BY <2>1, FailedSlotIs
  <2> DEFINE t == FailedSlot(q.s[k])
  <2> HIDE DEF t, e
  <2>3. e.s[k] = t /\ \A j \in Slots : j # k => e.s[j] = q.s[j]
    BY <1>14, <2>2, SlotChanged DEF t
  <2> QED BY <1>3, <1>4, <2>2, <2>3 DEF Named, t
<1> HIDE DEF e
<1>16. e.f = fr /\ e.pos = 0 /\ e.eof = d.eof /\ e.fs = 0
  BY <1>3, <1>4, <1>14 DEF Same, Fields
<1>17. e.fh = 9
  <2>1. r.fh = 9 /\ q.fh = r.fh
    BY DEF BegunFrom, Same, Fields
  <2> QED BY <1>14, <2>1 DEF Same, Fields
<1> QED BY <1>3, <1>4, <1>14, <1>15, <1>16, <1>17 DEF StartDone, e

\* The DATA of the frame go to the stream.
LEMMA StartTakes ==
    ASSUME NEW d, Between(d), ~d.b.in, NEW fr \in Frames, fr.t = "DATA",
           NEW r, BegunFrom(r, d, fr), NEW k \in Slots, d.s[k].id = fr.sid, fr.sid # 0,
           ~Has(d.s[k], "RST"), ~BothEnds(d.s[k]), ~Has(d.s[k], "RECV_END"), Has(d.s[k], "FINAL"),
           fr.len <= d.s[k].rwin
    PROVE  StartDone([[r EXCEPT !.crwin = @ - fr.len] EXCEPT !.s[k].rwin = @ - fr.len, !.fs = k], d, fr)
<1> DEFINE s == d.s[k]  st == d.g.st[s.id]  u == r.g.st[s.id]  n == fr.len
           m == [r EXCEPT !.crwin = @ - n]
           e == [m EXCEPT !.s[k].rwin = @ - n, !.fs = k]
           t == [s EXCEPT !.rwin = s.rwin - n]
           whole == FrameData(fr, n)
<1>1. /\ Kept(d) /\ Typed(d) /\ Conn(d) /\ Owing(d, 0) /\ d.err = "OK" /\ d.fs = 0 /\ Shape(r) /\ Simple(r)
      /\ d.f = NoFrame /\ Kept(r) /\ Typed(r) /\ Told(r) /\ Good(d, 0) /\ r.s \in [Slots -> SlotType]
  BY Zenon DEF Between, Good, Kept, BegunFrom, Typed
<1>2. Addressed(r, d, fr, k) /\ Aside(r, d, k) /\ d.b.s = 0
  BY AddressedIs
<1>3. /\ r.s = d.s /\ r.tx = d.tx /\ r.fs = 0 /\ r.f = fr /\ r.pos = 0 /\ r.crwin = d.crwin
      /\ r.cpend = d.cpend /\ r.p_win = d.p_win /\ r.eof = d.eof /\ r.g.extra = d.g.extra
      /\ r.dat = 0 /\ r.b = d.b /\ r.err = d.err
  BY DEF BegunFrom, Same, Fields, PastSame, Past
<1>4. /\ s \in SlotType /\ u \in StreamType /\ s.id \in Ids /\ s.id < d.next_id /\ s.err = "OK"
      /\ u.ph = st.ph /\ u.sent = st.sent /\ u.wu = st.wu /\ u.read = st.read
      /\ u.whole /\ u.retry /\ (u.unproc <=> st.unproc)
      /\ st.ph = (IF Has(s, "SENT_END") THEN "ended" ELSE "open")
      /\ u.es = fr.es /\ u.dat = st.dat + whole
      /\ Counting(s, st, Idle0) /\ Granted(s, st, d.p_win) /\ Paid(s)
  BY <1>2, Zenon DEF Addressed
<1>5. n \in Nat /\ whole \in Nat /\ FrameData(fr, 0) = 0
  <2>1. n \in Nat
    BY FrameTyped
  <2> QED BY <2>1, FrameDataGrows
<1>6. /\ s.rwin \in Int /\ s.pend \in Nat /\ s.rlen \in Nat /\ s.hdr \in Nat /\ s.ready \in Nat /\ s.got \in Nat
      /\ Rest(s) \in Int
  BY <1>4 DEF SlotType, Rest
<1>7. /\ s.hdr <= s.rlen /\ s.rwin + s.pend + Rest(s) = W /\ s.hdr <= MAX_LIST /\ s.ready = Rest(s)
      /\ st.dat = st.read + Rest(s) /\ s.got = st.dat /\ st.dat \in Nat /\ st.read \in Nat /\ W \in Nat
  <2>1. st \in StreamType
    BY <1>1, <1>4, StreamTyped, Zenon
  <2>2. st.dat \in Nat /\ st.read \in Nat
    BY <2>1, Zenon DEF StreamType
  <2>3. ~Has(s, "RST") /\ ~Has(s, "RECV_END") /\ Has(s, "FINAL")
    BY Zenon
  <2>4. ~Idle0.on /\ Idle0.len = 0 /\ Idle0.taken = 0 /\ Idle0.whole = 0
    BY Zenon DEF Idle0
  <2> HIDE DEF s, st
  <2>5. /\ s.hdr <= s.rlen /\ s.rwin + s.pend + Rest(s) + 0 - 0 = W /\ s.hdr <= MAX_LIST /\ s.ready = Rest(s)
        /\ st.dat = st.read + Rest(s) + 0 - 0 /\ s.got = st.dat - 0
    BY <1>4, <2>3, <2>4, Zenon DEF Counting
  <2>6. W \in Nat
    BY Consts
  <2> QED BY <1>6, <2>2, <2>5, <2>6
<1> HIDE DEF n, whole, s, st, u
<1>8. Shape(m) /\ Same(m, r, {"crwin"}) /\ m.crwin = r.crwin - n
  BY <1>1, Zenon DEF Shape, Same, Fields
<1> HIDE DEF m
<1>9. m.s = d.s /\ m.s \in [Slots -> SlotType]
  BY <1>1, <1>3, <1>8 DEF Same, Fields
<1>10. /\ Shape(e) /\ Same(e, m, {"s", "fs"}) /\ e.fs = k /\ SlotBecomes(e, d, k, t)
  <2>1. Shape(e) /\ Same(e, m, {"s", "fs"}) /\ e.fs = k
    BY <1>8, Zenon DEF Shape, Same, Fields
  <2>2. e.s = [m.s EXCEPT ![k].rwin = @ - n]
    BY <1>8, Zenon DEF Shape, Fields
  <2>3. e.s = [d.s EXCEPT ![k] = t]
    BY <1>9, <2>2, Zenon DEF s
  <2> HIDE DEF e, t
  <2> QED BY <2>1, <2>3, Zenon DEF SlotBecomes
<1> HIDE DEF e
<1>11. /\ t \in SlotType /\ t.rwin = s.rwin - n
       /\ t.id = s.id /\ t.swin = s.swin /\ t.rlen = s.rlen /\ t.pend = s.pend /\ t.hdr = s.hdr
       /\ t.ready = s.ready /\ t.got = s.got /\ t.cl = s.cl /\ t.err = s.err /\ t.fl = s.fl
  <2> DEFINE a == s.rwin - n
  <2>1. a \in Int /\ t = [s EXCEPT !.rwin = a]
    BY <1>5, <1>6
  <2> HIDE DEF a, t
  <2> QED BY <1>4, <2>1 DEF SlotType, a
<1> HIDE DEF t
<1>12. e.s \in [Slots -> SlotType] /\ e.s[k] = t /\ \A j \in Slots : j # k => e.s[j] = d.s[j]
  BY <1>1, <1>10, <1>11, SlotChanged
<1>13. /\ e.crwin = d.crwin - n /\ e.g = r.g /\ e.tx = d.tx /\ e.f = fr /\ e.pos = 0 /\ e.dat = 0
       /\ e.cpend = d.cpend /\ e.p_win = d.p_win /\ e.eof = d.eof /\ e.b = d.b /\ e.err = d.err
       /\ e.fault = r.fault /\ e.goaway = r.goaway /\ e.last_id = r.last_id /\ e.next_id = r.next_id
       /\ e.enc = r.enc /\ e.rx = r.rx /\ e.cwin = r.cwin
  BY <1>3, <1>8, <1>10 DEF Same, Fields
<1>14. d.crwin \in Int /\ d.cpend \in Int /\ d.g.extra \in Int
  BY <1>1 DEF Typed, Simple, PastTyped
<1>15. Typed(e)
  <2>1. Same(e, r, Scalars \cup {"s", "g"})
    BY <1>8, <1>10 DEF Same, Scalars, Fields
  <2>2. e.fs \in 0..N /\ e.crwin \in Int
    <3>1. e.fs \in 0..N
      BY <1>10, SlotNumbers, Zenon
    <3>2. e.crwin = d.crwin - n
      BY <1>13, Zenon
    <3> QED BY <1>5, <1>14, <3>1, <3>2
  <2>3. Simple(e)
    <3>1. /\ r.fault \in BOOLEAN /\ r.goaway \in BOOLEAN /\ r.rx \in BOOLEAN
          /\ d.p_win \in Nat /\ r.next_id \in Nat /\ d.tx \in Nat /\ d.cpend \in Nat /\ r.last_id \in Nat
          /\ r.cwin \in Int
      BY <1>1, <1>3, Zenon DEF Simple
    <3> QED BY <1>13, <2>2, <3>1 DEF Simple
  <2> QED BY <1>1, <1>10, <1>12, <1>13, <2>1, <2>3, TypedWith DEF Typed
<1>16. Part(e, k) = [on |-> TRUE, len |-> n, whole |-> whole, taken |-> 0, es |-> fr.es]
       /\ Part(d, k) = Idle0
  BY <1>1, <1>10, <1>13, Consts DEF Part, n, whole
<1>17. Aside(e, d, k)
  <2>1. \A j \in Slots : j # k => Part(e, j) = Part(d, j) /\ Ending(e, j) = Ending(d, j)
    BY <1>1, <1>10, <1>13, Consts DEF Part, Ending
  <2> QED BY <1>2, <1>11, <1>12, <1>13, <2>1 DEF Aside, s
<1>18. SlotOK(e, k)
  <2>1. Closing(t, u, Part(e, k).es \/ Ending(e, k))
    <3>1. ~Has(t, "RST") /\ ~Has(t, "RECV_END") /\ t.err = "OK" /\ (Has(t, "SENT_END") <=> Has(s, "SENT_END"))
      BY <1>4, <1>11 DEF Has, s
    <3>2. Part(e, k).es = fr.es
      BY <1>16
    <3> QED BY <1>4, <3>1, <3>2 DEF Closing
  <2>2. Counting(t, u, Part(e, k))
    <3>1. Part(e, k).on /\ Part(e, k).len = n /\ Part(e, k).whole = whole /\ Part(e, k).taken = 0
      BY <1>16
    <3>2. Rest(t) = Rest(s)
      BY <1>11 DEF Rest
    <3>3. /\ t.rwin + t.pend + Rest(t) + n - 0 = W /\ t.pend + Rest(t) + n - 0 <= W
          /\ t.ready <= Rest(t) /\ u.dat = u.read + Rest(t) + whole - 0 /\ t.got = u.dat - whole
      <4>1. n <= s.rwin
        BY DEF n, s
      <4> DEFINE a == Rest(s)
      <4>2. a \in Int /\ a = s.ready /\ s.rwin + s.pend + a = W /\ st.dat = st.read + a
        BY <1>6, <1>7
      <4> HIDE DEF a
      <4>3. /\ t.rwin + t.pend + a + n - 0 = W /\ t.pend + a + n - 0 <= W
            /\ t.ready <= a /\ u.dat = u.read + a + whole - 0 /\ t.got = u.dat - whole
        BY <1>4, <1>5, <1>6, <1>7, <1>11, <4>1, <4>2
      <4> QED BY <3>2, <4>3 DEF a
    <3>4. Has(t, "FINAL") /\ ~Has(t, "RECV_END")
      BY <1>11 DEF Has, s
    <3>5. t.hdr <= t.rlen /\ t.hdr <= MAX_LIST
      BY <1>7, <1>11
    <3> QED BY <3>1, <3>3, <3>4, <3>5 DEF Counting
  <2>3. Granted(t, u, e.p_win)
    BY <1>4, <1>11, <1>13 DEF Granted
  <2>4. e.s[k].id = s.id /\ e.g.st[s.id] = u /\ e.s[k] = t /\ e.next_id = d.next_id
    BY <1>11, <1>12, <1>13, <1>17 DEF u, s, Aside
  <2> QED BY <1>4, <2>1, <2>2, <2>3, <2>4 DEF SlotOK
<1>19. Books(e, k) = Books(d, k)
  <2>1. Part(e, k).len = n /\ Part(e, k).taken = 0 /\ Part(d, k).len = 0 /\ Part(d, k).taken = 0
    BY <1>16 DEF Idle0
  <2>2. Rest(e.s[k]) = Rest(s) /\ d.s[k] = s /\ e.g.extra = d.g.extra
    BY <1>3, <1>11, <1>12, <1>13 DEF Rest, s
  <2> DEFINE a == d.crwin  b == d.cpend  z == d.g.extra  y == Rest(s)
  <2>3. a \in Int /\ b \in Int /\ z \in Int /\ y \in Int
    BY <1>6, <1>14
  <2>4. Books(e, k) = (a - n) + b + y + n - 0 - z /\ Books(d, k) = a + b + y + 0 - 0 - z
    BY <1>13, <2>1, <2>2 DEF Books
  <2> HIDE DEF a, b, y, z
  <2> QED BY <1>5, <2>3, <2>4
<1>20. Paid(e.s[k])
  BY <1>4, <1>11, <1>12 DEF Paid, Has
<1>21. Taking(e)
  <2>1. t.id = fr.sid /\ Has(t, "FINAL") /\ ~Has(t, "RST") /\ ~Has(t, "RECV_END")
    BY <1>11 DEF Has, s
  <2>2. e.f.len \in Nat /\ e.f.t = "DATA"
    BY <1>5, <1>13 DEF n
  <2>3. e.f.es => e.g.st[e.f.sid].es
    BY <1>4, <1>13, Zenon DEF u, s
  <2> QED BY <1>5, <1>10, <1>12, <1>13, <2>1, <2>2, <2>3 DEF Taking
<1>22. InBlock(e) /\ Told(e)
  BY <1>1, <1>2, <1>13, Zenon DEF InBlock, Told
<1>23. e.g.wire /\ ~e.fault /\ e.tx <= TX
  BY <1>1, <1>3, <1>13, Zenon DEF Kept
<1>24. LET v == e.g.st[d.s[k].id]
       IN  /\ v.whole /\ v.retry /\ (d.g.st[d.s[k].id].unproc => v.unproc)
           /\ e.s[k].err = "RETRY" => v.unproc
  BY <1>4, <1>11, <1>12, <1>13, Zenon DEF u, s, st
<1>25. e.err = "OK" => /\ SlotOK(e, k) /\ (k # 0 => Paid(e.s[k])) /\ Books(e, k) = Books(d, k)
                       /\ (0 = 0 /\ e.f.t # "DATA" => e.cpend < CREDIT)
                       /\ Taking(e) /\ InBlock(e) /\ Told(e)
  BY <1>13, <1>18, <1>19, <1>20, <1>21, <1>22
<1>26. Good(e, 0)
  <2>1. d.s[k].id # 0 /\ 0 \in {0, k, 0}
    OBVIOUS
  <2> QED BY <1>1, <1>15, <1>17, <1>23, <1>24, <1>25, <2>1, OneSlot, Zenon
<1>27. Named(e, d)
  BY <1>11, <1>12 DEF Named, s
<1>28. d.tx \in Nat
  BY <1>1 DEF Typed, Simple
<1>29. e.fh = 9
  <2>1. r.fh = 9 /\ m.fh = r.fh
    BY <1>8 DEF BegunFrom, Same, Fields
  <2> QED BY <1>10, <2>1 DEF Same, Fields
<1> QED BY <1>13, <1>26, <1>27, <1>28, <1>29, <1>1 DEF StartDone, e, m, n
LEMMA BlockSet ==
    ASSUME NEW r, Typed(r), NEW b \in BlockType
    PROVE  LET e == [r EXCEPT !.b = b] IN Typed(e) /\ Same(e, r, {"b"}) /\ e.b = b
<1> DEFINE e == [r EXCEPT !.b = b]
<1>1. Shape(r) /\ Simple(r)
  BY DEF Typed
<1>2. Shape(e) /\ Same(e, r, {"b"}) /\ e.b = b
  BY <1>1 DEF Shape, Same, Fields
<1> HIDE DEF e
<1>3. /\ e.s = r.s /\ e.g = r.g /\ e.enc = r.enc /\ e.f = r.f /\ Simple(e)
  BY <1>1, <1>2 DEF Same, Fields, Simple
<1> QED BY <1>2, <1>3 DEF Typed, e

OpenedBlock(fr) == [Block0 EXCEPT !.in = TRUE, !.sid = fr.sid, !.es = fr.es]
LEMMA OpenedBlockIs ==
    ASSUME NEW fr \in Frames
    PROVE  LET b == OpenedBlock(fr)
           IN  b \in BlockType /\ b.in /\ b.sid = fr.sid /\ b.es = fr.es /\ b.s = 0
<1>1. fr.sid \in Nat /\ fr.es \in BOOLEAN /\ 0 \in 0..N
  BY FrameTyped, Consts
<1>2. <<>> \in Seq(Representations)
  OBVIOUS
<1> DEFINE i == fr.sid  y == fr.es
<1>3. OpenedBlock(fr) = [Block0 EXCEPT !.in = TRUE, !.sid = i, !.es = y]
  BY DEF OpenedBlock
<1>4. i \in Nat /\ y \in BOOLEAN
  BY <1>1
<1> HIDE DEF i, y, Representations
<1> DEFINE x == <<>>
<1>6. OpenedBlock(fr) = [in |-> TRUE, sid |-> i, s |-> 0, es |-> y, cont |-> 0, trailer |-> FALSE,
                         pre |-> 0, len |-> 0, rep |-> x]
  BY <1>3, Zenon DEF Block0
<1>7. x \in Seq(Representations)
  BY <1>2
<1> HIDE DEF x
<1>5. /\ OpenedBlock(fr) \in BlockType /\ OpenedBlock(fr).in /\ OpenedBlock(fr).sid = i
      /\ OpenedBlock(fr).es = y /\ OpenedBlock(fr).s = 0
  BY <1>1, <1>4, <1>6, <1>7 DEF BlockType
<1> QED BY <1>5 DEF i, y

\* The block is for the stream.
LEMMA StartOpens ==
    ASSUME NEW d, Between(d), ~d.b.in, NEW fr \in Frames, fr.t = "HEADERS",
           NEW r, BegunFrom(r, d, fr), NEW k \in Slots, d.s[k].id = fr.sid, fr.sid # 0,
           ~Has(d.s[k], "RST"), ~BothEnds(d.s[k]), ~Has(d.s[k], "RECV_END"),
           NEW b \in BlockType, b.in, b.sid = fr.sid, b.es = fr.es, b.s = k,
           b.trailer <=> Has(d.s[k], "FINAL"), b.pre = d.s[k].rlen
    PROVE  StartDone([r EXCEPT !.b = b], d, fr)
<1> DEFINE s == d.s[k]  st == d.g.st[s.id]  u == r.g.st[s.id]
           e == [r EXCEPT !.b = b]
<1>1. /\ Kept(d) /\ Typed(d) /\ Conn(d) /\ Owing(d, 0) /\ d.err = "OK" /\ d.fs = 0
      /\ d.f = NoFrame /\ Kept(r) /\ Typed(r) /\ Told(r) /\ Good(d, 0)
  BY Zenon DEF Between, Good, Kept, BegunFrom
<1>2. Addressed(r, d, fr, k) /\ Aside(r, d, k) /\ d.b.s = 0
  BY AddressedIs
<1>3. /\ r.s = d.s /\ r.tx = d.tx /\ r.fs = 0 /\ r.f = fr /\ r.pos = 0 /\ r.crwin = d.crwin
      /\ r.cpend = d.cpend /\ r.p_win = d.p_win /\ r.eof = d.eof /\ r.g.extra = d.g.extra
      /\ r.err = d.err /\ r.next_id = d.next_id
  BY DEF BegunFrom, Same, Fields, PastSame, Past
<1>4. /\ s.id \in Ids /\ s.id < d.next_id /\ s.err = "OK"
      /\ u.ph = st.ph /\ u.sent = st.sent /\ u.wu = st.wu /\ u.read = st.read
      /\ u.whole /\ u.retry /\ (u.unproc <=> st.unproc)
      /\ st.ph = (IF Has(s, "SENT_END") THEN "ended" ELSE "open")
      /\ u.es = fr.es /\ u.dat = st.dat + 0
      /\ Counting(s, st, Idle0) /\ Granted(s, st, d.p_win) /\ Paid(s)
  BY <1>2, Zenon DEF Addressed
<1>5. st.dat \in Nat
  BY <1>1, <1>4, StreamTyped, Zenon DEF StreamType
<1> HIDE DEF s, st, u
<1>6. u.dat = st.dat
  BY <1>4, <1>5
<1>7. Typed(e) /\ Same(e, r, {"b"}) /\ e.b = b
  BY <1>1, BlockSet
<1> HIDE DEF e
<1>8. /\ e.s = d.s /\ e.g = r.g /\ e.tx = d.tx /\ e.f = fr /\ e.pos = 0 /\ e.fs = 0 /\ e.fault = r.fault
      /\ e.cpend = d.cpend /\ e.p_win = d.p_win /\ e.eof = d.eof /\ e.err = d.err /\ e.crwin = d.crwin
      /\ e.next_id = d.next_id /\ e.goaway = r.goaway /\ e.last_id = r.last_id
  BY <1>3, <1>7 DEF Same, Fields
<1>9. \A j \in Slots : Part(d, j) = Idle0 /\ Part(e, j) = Idle0
  BY <1>1, <1>8, Consts DEF Part
<1>10. Aside(e, d, k)
  <2>1. Same(e, r, (Neutral \ {"eof", "rx"}) \cup {"pos", "dat", "f", "fs", "b", "crwin", "cpend", "dec"})
    BY <1>7, Zenon DEF Same
  <2>2. \A j \in Slots : j # k => Ending(e, j) = Ending(d, j)
    BY <1>2, <1>7, Consts, Zenon DEF Ending
  <2> QED BY <1>2, <1>9, <2>1, <2>2, AsideAfter, Zenon
<1>11. SlotOK(e, k)
  <2>1. Closing(s, u, Part(e, k).es \/ Ending(e, k))
    <3>1. ~Has(s, "RST") /\ ~Has(s, "RECV_END")
      BY Zenon DEF s
    <3>2. Ending(e, k) <=> fr.es
      BY <1>7 DEF Ending
    <3> QED BY <1>4, <3>1, <3>2 DEF Closing
  <2>2. Counting(s, u, Part(e, k))
    BY <1>4, <1>6, <1>9 DEF Counting
  <2>3. Granted(s, u, e.p_win)
    BY <1>4, <1>8 DEF Granted
  <2>4. e.s[k] = s /\ e.g.st[s.id] = u
    BY <1>8 DEF s, u
  <2> QED BY <1>4, <1>8, <2>1, <2>2, <2>3, <2>4 DEF SlotOK
<1>12. Books(e, k) = Books(d, k)
  <2>1. Part(e, k) = Part(d, k) /\ e.g.extra = d.g.extra
    BY <1>3, <1>8, <1>9
  <2> QED BY <1>8, <2>1, Zenon DEF Books
<1>13. Paid(e.s[k]) /\ Taking(e) /\ Told(e)
  BY <1>1, <1>3, <1>4, <1>8, Zenon DEF Taking, Told, s
<1>14. InBlock(e)
  <2>1. s.hdr <= s.rlen
    BY <1>4, Zenon DEF Counting
  <2>2. e.s[k] = s /\ e.g.st[s.id] = u
    BY <1>8, Zenon DEF s, u
  <2>3. /\ s.id = b.sid /\ s.id # 0 /\ ~Has(s, "RST") /\ ~Has(s, "RECV_END")
        /\ (b.trailer <=> Has(s, "FINAL")) /\ s.hdr <= b.pre /\ (b.es <=> u.es)
    BY <1>4, <2>1, Zenon DEF s
  <2> QED BY <1>7, <1>8, <2>2, <2>3, Zenon DEF InBlock
<1>15. e.g.wire /\ ~e.fault /\ e.tx <= TX
  BY <1>1, <1>3, <1>8, Zenon DEF Kept
<1>16. LET v == e.g.st[d.s[k].id]
       IN  /\ v.whole /\ v.retry /\ (d.g.st[d.s[k].id].unproc => v.unproc)
           /\ e.s[k].err = "RETRY" => v.unproc
  BY <1>4, <1>8, Zenon DEF u, s, st
<1>17. d.cpend < CREDIT
  BY <1>1 DEF Owing, NoFrame
<1>18. GoesOn(e, d, k)
  <2>1. e.cpend = d.cpend
    BY <1>8, Zenon
  <2>2. e.cpend < CREDIT
    BY <1>17, <2>1, Zenon
  <2> QED BY <1>8, <1>11, <1>12, <1>13, <1>14, <2>2, Zenon DEF GoesOn
<1>19. Good(e, 0)
  <2>1. d.s[k].id # 0
    BY Zenon
  <2>2. Remembers(e, d, k)
    BY <1>16, Zenon DEF Remembers
  <2> QED BY <1>1, <1>7, <1>10, <1>15, <1>18, <2>1, <2>2, OneSlotPaid, Zenon
<1>20. d.tx \in Nat
  BY <1>1 DEF Typed, Simple
<1>21. e.fh = 9
  <2>1. r.fh = 9
    BY DEF BegunFrom
  <2> QED BY <1>7, <2>1 DEF Same, Fields
<1> QED BY <1>1, <1>8, <1>19, <1>20, <1>21 DEF StartDone, Named, e

LEMMA StartPlain ==
    ASSUME NEW d, Between(d), NEW fr \in Frames, NEW r, BegunFrom(r, d, fr), NEW e, Typed(e),
           Same(e, r, {"b", "crwin", "cpend"}), e.crwin + e.cpend = d.crwin + d.cpend,
           fr.t \in {"DATA", "HEADERS"} => Live(d, fr.sid) = 0 /\ ~ZeroOrIdle(d, fr.sid),
           fr.t # "DATA" => e.cpend = d.cpend,
           \A k \in Slots : Ending(e, k) = Ending(d, k), InBlock(e)
    PROVE  StartDone(e, d, fr)
<1>1. Good(e, 0)
  BY StartKeeps
<1>2. /\ e.s = d.s /\ e.tx = d.tx /\ e.f = fr /\ e.pos = 0 /\ e.fs = 0 /\ e.eof = d.eof /\ d.tx \in Nat
      /\ e.fh = 9
  <2>1. d.tx \in Nat
    BY Zenon DEF Between, Good, Kept, Typed, Simple
  <2> QED BY <2>1 DEF BegunFrom, Same, Fields
<1> QED BY <1>1, <1>2 DEF StartDone, Named
LEMMA DataStart ==
    ASSUME NEW d, Between(d), ~d.b.in, d.tx < TX, NEW fr \in Frames, fr.t = "DATA",
           NEW r, BegunFrom(r, d, fr)
    PROVE  StartDone(data_start(r, fr, Live(d, fr.sid)), d, fr)
<1> DEFINE k == Live(d, fr.sid)
           q == Dropped(r, fr.len)
<1>1. /\ Kept(r) /\ Typed(r) /\ Conn(d) /\ r.s = d.s /\ r.next_id = d.next_id /\ r.crwin = d.crwin
      /\ r.cpend = d.cpend /\ r.b = d.b
  BY Zenon DEF BegunFrom, Same, Fields, Kept, Between, Good
<1>2. d.b.s = 0
  BY <1>1, Zenon DEF Conn, InBlock
<1>3. fr.len \in Nat
  BY FrameTyped
<1>4. Typed(q) /\ Same(q, r, {"crwin", "cpend"}) /\ q.crwin + q.cpend = r.crwin + r.cpend
  BY <1>1, <1>3, DroppedIs
<1>5. q.b = d.b /\ Same(q, r, {"b", "crwin", "cpend"})
  <2> HIDE DEF q
  <2> QED BY <1>1, <1>4 DEF Same, Fields
<1>6. /\ k \in 0..N
      /\ k # 0 => /\ k \in Slots /\ fr.sid # 0 /\ d.s[k].id = fr.sid
                  /\ ~Has(d.s[k], "RST") /\ ~BothEnds(d.s[k])
  BY LiveIs
<1>7. ZeroOrIdle(r, fr.sid) <=> ZeroOrIdle(d, fr.sid)
  BY <1>1 DEF ZeroOrIdle
<1>8. CASE ZeroOrIdle(r, fr.sid) \/ fr.len > r.crwin
  <2>1. data_start(r, fr, k) = h2_conn_err(r)
    BY <1>8 DEF data_start
  <2> QED BY <2>1, StartRefused
<1>9. CASE ~(ZeroOrIdle(r, fr.sid) \/ fr.len > r.crwin) /\ k = 0
  <2>1. data_start(r, fr, k) = q
    BY <1>9 DEF data_start, Dropped
  <2> HIDE DEF q
  <2>2. \A j \in Slots : Ending(q, j) = Ending(d, j)
    BY <1>5 DEF Ending
  <2>3. InBlock(q)
    BY <1>2, <1>5, Zenon DEF InBlock
  <2>4. q.crwin + q.cpend = d.crwin + d.cpend
    BY <1>1, <1>4
  <2>5. StartDone(q, d, fr)
    BY <1>4, <1>5, <1>7, <1>9, <2>2, <2>3, <2>4, StartPlain, Zenon
  <2> QED BY <2>1, <2>5
<1> DEFINE s == d.s[k]
           failed == Has(s, "RECV_END") \/ ~Has(s, "FINAL") \/ fr.len > s.rwin
<1>10. CASE ~(ZeroOrIdle(r, fr.sid) \/ fr.len > r.crwin) /\ k # 0 /\ failed
  <2>1. data_start(r, fr, k) = h2_stream_err(q, k)
    BY <1>1, <1>10 DEF data_start, Dropped
  <2>2. q.b.s = 0 /\ ~q.b.in
    BY <1>2, <1>5
  <2> HIDE DEF q, k
  <2>3. StartDone(h2_stream_err(q, k), d, fr)
    BY <1>4, <1>5, <1>6, <1>10, <2>2, StartFails
  <2> QED BY <2>1, <2>3 DEF k
<1>11. CASE ~(ZeroOrIdle(r, fr.sid) \/ fr.len > r.crwin) /\ k # 0 /\ ~failed
  <2> DEFINE e == [[r EXCEPT !.crwin = @ - fr.len] EXCEPT !.s[k].rwin = @ - fr.len, !.fs = k]
  <2>1. data_start(r, fr, k) = e
    BY <1>1, <1>11, Zenon DEF data_start
  <2>2. fr.len <= s.rwin
    <3>1. s.rwin \in Int
      BY <1>1, <1>6, <1>11, SlotTyped DEF SlotType
    <3> QED BY <1>3, <1>11, <3>1
  <2> HIDE DEF k
  <2>3. StartDone(e, d, fr)
    BY <1>6, <1>11, <2>2, StartTakes, Zenon
  <2> QED BY <2>1, <2>3 DEF k
<1> QED BY <1>8, <1>9, <1>10, <1>11

LEMMA HeadersStart ==
    ASSUME NEW d, Between(d), ~d.b.in, d.tx < TX, NEW fr \in Frames, fr.t = "HEADERS",
           NEW r, BegunFrom(r, d, fr)
    PROVE  StartDone(headers_start(r, fr, Live(d, fr.sid)), d, fr)
<1> DEFINE k == Live(d, fr.sid)
           s == d.s[k]
           b == OpenedBlock(fr)
           q == [r EXCEPT !.b = b]
<1>1. /\ Kept(r) /\ Typed(r) /\ Shape(r) /\ Conn(d) /\ r.s = d.s /\ r.next_id = d.next_id /\ r.crwin = d.crwin
      /\ r.cpend = d.cpend /\ r.b = d.b /\ r.f = fr
  BY Zenon DEF BegunFrom, Same, Fields, Kept, Between, Good, Typed
<1>2. d.b.s = 0
  BY <1>1, Zenon DEF Conn, InBlock
<1>3. b \in BlockType /\ b.in /\ b.sid = fr.sid /\ b.es = fr.es /\ b.s = 0
  BY OpenedBlockIs
<1> HIDE DEF b
<1>4. Typed(q) /\ Same(q, r, {"b"}) /\ q.b = b
  BY <1>1, <1>3, BlockSet
<1>5. Same(q, r, {"b", "crwin", "cpend"}) /\ q.crwin = r.crwin /\ q.cpend = r.cpend /\ q.f = fr
  <2> HIDE DEF q
  <2> QED BY <1>1, <1>4 DEF Same, Fields
<1>6. /\ k \in 0..N
      /\ k # 0 => /\ k \in Slots /\ fr.sid # 0 /\ d.s[k].id = fr.sid
                  /\ ~Has(d.s[k], "RST") /\ ~BothEnds(d.s[k])
  BY LiveIs
<1>7. ZeroOrIdle(r, fr.sid) <=> ZeroOrIdle(d, fr.sid)
  BY <1>1 DEF ZeroOrIdle
<1>8. CASE ZeroOrIdle(r, fr.sid)
  <2>1. headers_start(r, fr, k) = h2_conn_err(r)
    BY <1>8 DEF headers_start
  <2> QED BY <2>1, StartRefused
<1>9. CASE ~ZeroOrIdle(r, fr.sid) /\ k = 0
  <2>1. headers_start(r, fr, k) = q
    BY <1>9 DEF headers_start, b, OpenedBlock
  <2> HIDE DEF q
  <2>2. \A j \in Slots : Ending(q, j) = Ending(d, j)
    BY <1>2, <1>3, <1>4, Consts, Zenon DEF Ending
  <2>3. InBlock(q)
    BY <1>3, <1>4, <1>5, Zenon DEF InBlock
  <2>4. q.crwin + q.cpend = d.crwin + d.cpend /\ q.cpend = d.cpend
    BY <1>1, <1>5
  <2>5. StartDone(q, d, fr)
    BY <1>4, <1>5, <1>7, <1>9, <2>2, <2>3, <2>4, StartPlain
  <2> QED BY <2>1, <2>5
<1>10. CASE ~ZeroOrIdle(r, fr.sid) /\ k # 0 /\ Has(s, "RECV_END")
  <2>1. headers_start(r, fr, k) = h2_stream_err(q, k)
    BY <1>1, <1>10 DEF headers_start, b, OpenedBlock
  <2> HIDE DEF q, k
  <2>2. q.b.s = 0 /\ q.crwin + q.cpend = r.crwin + r.cpend
    BY <1>3, <1>4, <1>5
  <2>3. StartDone(h2_stream_err(q, k), d, fr)
    BY <1>4, <1>5, <1>6, <1>10, <2>2, StartFails
  <2> QED BY <2>1, <2>3 DEF k
<1>11. CASE ~ZeroOrIdle(r, fr.sid) /\ k # 0 /\ ~Has(s, "RECV_END")
  <2> DEFINE x == Has(s, "FINAL")  n == s.rlen
             y == [b EXCEPT !.s = k, !.trailer = x, !.pre = n]
             e == [r EXCEPT !.b = y]
  <2>1. headers_start(r, fr, k) = [q EXCEPT !.b.s = k, !.b.trailer = Has(s, "FINAL"), !.b.pre = s.rlen]
    BY <1>1, <1>11 DEF headers_start, b, OpenedBlock
  <2>2. n \in Nat /\ x \in BOOLEAN
    <3>1. s \in SlotType
      <4>1. Typed(d)
        BY Zenon DEF Between, Good, Kept
      <4> QED BY <1>6, <1>11, <4>1, SlotTyped
    <3> QED BY <3>1 DEF SlotType, Has
  <2>3. [q EXCEPT !.b.s = k, !.b.trailer = x, !.b.pre = n] = e
    <3> HIDE DEF x, n, k
    <3> QED BY <1>1, <1>3 DEF Shape, Fields, BlockType
  <2>4. headers_start(r, fr, k) = e
    BY <2>1, <2>3
  <2> HIDE DEF x, n, k
  <2>5. y \in BlockType /\ y.in /\ y.sid = fr.sid /\ y.es = fr.es /\ y.s = k /\ y.trailer = x /\ y.pre = n
    BY <1>3, <1>6, <2>2 DEF BlockType
  <2> HIDE DEF y
  <2>6. (y.trailer <=> Has(d.s[k], "FINAL")) /\ y.pre = d.s[k].rlen
    BY <2>5 DEF x, n
  <2>7. StartDone(e, d, fr)
    BY <1>6, <1>11, <2>5, <2>6, StartOpens, Zenon
  <2> QED BY <2>4, <2>7 DEF k
<1> QED BY <1>8, <1>9, <1>10, <1>11

LEMMA ContStart ==
    ASSUME NEW d, Between(d), d.b.in, d.tx < TX, NEW fr \in Frames, fr.t = "CONT",
           NEW r, BegunFrom(r, d, fr)
    PROVE  StartDone(cont_start(r), d, fr)
<1>1. /\ Typed(r) /\ Conn(d) /\ r.s = d.s /\ r.crwin = d.crwin /\ r.cpend = d.cpend /\ r.b = d.b /\ r.f = fr
      /\ d.b \in BlockType
  BY Zenon DEF BegunFrom, Same, Fields, Kept, Between, Good, Typed
<1>2. CASE r.b.cont = CONT_MAX
  <2>1. cont_start(r) = h2_conn_err(r)
    BY <1>2 DEF cont_start
  <2> QED BY <2>1, StartRefused
<1>3. CASE r.b.cont # CONT_MAX
  <2> DEFINE n == d.b.cont + 1
             b == [d.b EXCEPT !.cont = n]
             e == [r EXCEPT !.b = b]
  <2>1. cont_start(r) = [r EXCEPT !.b.cont = @ + 1]
    BY <1>3 DEF cont_start
  <2>2. cont_start(r) = e
    BY <1>1, <2>1, Zenon DEF Typed, Shape, Fields, BlockType
  <2>3. n \in Nat
    BY <1>1 DEF BlockType
  <2> HIDE DEF n
  <2>4. /\ b \in BlockType /\ b.in = d.b.in /\ b.s = d.b.s /\ b.es = d.b.es /\ b.sid = d.b.sid
        /\ b.trailer = d.b.trailer /\ b.pre = d.b.pre
    BY <1>1, <2>3, Zenon DEF BlockType
  <2> HIDE DEF b
  <2>5. Typed(e) /\ Same(e, r, {"b"}) /\ e.b = b
    BY <1>1, <2>4, BlockSet
  <2> HIDE DEF e
  <2>6. Same(e, r, {"b", "crwin", "cpend"}) /\ e.crwin = r.crwin /\ e.cpend = r.cpend /\ e.f = fr
        /\ e.s = d.s /\ e.g = r.g
    BY <1>1, <2>5 DEF Same, Fields
  <2>7. \A j \in Slots : Ending(e, j) = Ending(d, j)
    BY <2>4, <2>5 DEF Ending
  <2>8. InBlock(e)
    <3>1. CASE b.s = 0
      BY <2>5, <2>6, <3>1 DEF InBlock
    <3>2. CASE b.s # 0
      <4> DEFINE s == d.s[b.s]
      <4>1. /\ d.b.in /\ s.id = d.b.sid /\ s.id # 0 /\ ~Has(s, "RST") /\ ~Has(s, "RECV_END")
            /\ (d.b.trailer <=> Has(s, "FINAL")) /\ s.hdr <= d.b.pre /\ (d.b.es <=> d.g.st[s.id].es)
        BY <1>1, <2>4, <3>2, Zenon DEF Conn, InBlock
      <4>2. b.s \in Slots
        <5>1. b.s \in 0..N
          <6> HIDE DEF Representations
          <6> QED BY <2>4 DEF BlockType
        <5> QED BY <3>2, <5>1, Consts
      <4>3. s.id \in Ids
        BY <4>1, <4>2, Zenon DEF Between, Good, SlotOK
      <4> HIDE DEF s
      <4>4. e.g.st[s.id].es = d.g.st[s.id].es
        <5>1. e.g.st[s.id] = Told1(d.g.st[s.id], s.id, fr)
          BY <2>6, <4>3 DEF BegunFrom
        <5>2. d.g.st[s.id] \in StreamType
          BY <4>3, StreamTyped DEF Between, Good, Kept
        <5> DEFINE st == d.g.st[s.id]
        <5> HIDE DEF st
        <5>3. Told1Says(st, s.id, fr, Told1(st, s.id, fr))
          BY <5>2, Told1Is DEF st
        <5> QED BY <5>1, <5>3, Zenon DEF Told1Says, st
      <4>5. e.s[b.s] = s
        BY <2>6 DEF s
      <4> QED BY <2>4, <2>5, <2>6, <4>1, <4>4, <4>5, Zenon DEF InBlock
    <3> QED BY <3>1, <3>2
  <2>9. e.crwin + e.cpend = d.crwin + d.cpend /\ e.cpend = d.cpend
    BY <1>1, <2>6, Zenon
  <2>10. StartDone(e, d, fr)
    BY <2>5, <2>6, <2>7, <2>8, <2>9, StartPlain, Zenon
  <2> QED BY <2>2, <2>10
<1> QED BY <1>2, <1>3

LEMMA FrameStartKeeps ==
    ASSUME NEW d, Between(d), d.tx < TX, NEW fr \in Frames
    PROVE  StartDone(h2_frame_start(d, fr), d, fr)
<1> DEFINE r == Begun(d, fr)
           k == Live(d, fr.sid)
           refused == \/ r.idle > IDLE_MAX
                      \/ fr.t = "FLAWED"
                      \/ ~r.got_settings /\ fr.t # "SETTINGS"
                      \/ r.b.in /\ (fr.t # "CONT" \/ fr.sid # r.b.sid)
                      \/ ~r.b.in /\ fr.t = "CONT"
<1>1. BegunFrom(r, d, fr)
  BY BegunIs
<1>2. h2_frame_start(d, fr) = frame_class(r, fr, k)
  BY DEF h2_frame_start, Begun
<1> HIDE DEF r, k
<1>3. r.b = d.b /\ r.crwin = d.crwin /\ r.cpend = d.cpend /\ r.s = d.s /\ Typed(r) /\ Conn(d)
  BY <1>1, Zenon DEF BegunFrom, Same, Fields, Kept, Between, Good
<1>4. CASE refused
  <2>1. frame_class(r, fr, k) = h2_conn_err(r)
    BY <1>4 DEF frame_class
  <2> QED BY <1>1, <1>2, <2>1, StartRefused
<1>5. CASE ~refused /\ fr.t = "DATA"
  <2>1. frame_class(r, fr, k) = data_start(r, fr, k) /\ ~d.b.in
    BY <1>3, <1>5 DEF frame_class
  <2> QED BY <1>1, <1>2, <1>5, <2>1, DataStart DEF k
<1>6. CASE ~refused /\ fr.t = "HEADERS"
  <2>1. frame_class(r, fr, k) = headers_start(r, fr, k) /\ ~d.b.in
    BY <1>3, <1>6 DEF frame_class
  <2> QED BY <1>1, <1>2, <1>6, <2>1, HeadersStart, Zenon DEF k
<1>7. CASE ~refused /\ fr.t = "CONT"
  <2>1. frame_class(r, fr, k) = cont_start(r) /\ d.b.in
    BY <1>3, <1>7 DEF frame_class
  <2> QED BY <1>1, <1>2, <1>7, <2>1, ContStart, Zenon
<1>8. CASE ~refused /\ fr.t \notin {"DATA", "HEADERS", "CONT"}
  <2>1. frame_class(r, fr, k) \in {r, h2_conn_err(r)} /\ ~d.b.in
    BY <1>3, <1>8 DEF frame_class
  <2>2. StartDone(r, d, fr)
    <3>1. \A j \in Slots : Ending(r, j) = Ending(d, j)
      BY <1>3 DEF Ending
    <3>2. InBlock(r)
      <4>1. d.b.s = 0
        BY <1>3, <2>1, Zenon DEF Conn, InBlock
      <4> QED BY <1>3, <2>1, <4>1 DEF InBlock
    <3>3. Same(r, r, {"b", "crwin", "cpend"})
      BY DEF Same
    <3> QED BY <1>1, <1>3, <1>8, <3>1, <3>2, <3>3, StartPlain
  <2>3. StartDone(h2_conn_err(r), d, fr)
    BY <1>1, StartRefused
  <2> QED BY <1>2, <2>1, <2>2, <2>3
<1> QED BY <1>4, <1>5, <1>6, <1>7, <1>8
-----------------------------------------------------------------------------
(* The end of a frame: DATA *)

\* The slot k alone has changed, and its identity, flags and header block have not.
LEMMA TakingKept ==
    ASSUME NEW d, NEW e, NEW k \in Slots, Taking(d), e.fs = d.fs, e.f = d.f, e.dat = d.dat, e.pos = d.pos,
           \A j \in Slots : j # k => e.s[j] = d.s[j], d.fs \in 0..N,
           e.s[k].id = d.s[k].id, e.s[k].fl = d.s[k].fl, e.g.st[d.f.sid].es = d.g.st[d.f.sid].es
    PROVE  Taking(e)
<1> SUFFICES ASSUME e.fs # 0 PROVE Taking(e)
  BY Zenon DEF Taking
<1>1. e.fs \in Slots
  BY Consts
<1>2. e.s[e.fs].id = d.s[d.fs].id /\ e.s[e.fs].fl = d.s[d.fs].fl
  BY <1>1
<1> QED BY <1>2, Zenon DEF Taking, Has

LEMMA InBlockKept ==
    ASSUME NEW d, NEW e, NEW k \in Slots, InBlock(d), e.b = d.b, e.f = d.f, d.b.s \in 0..N,
           \A j \in Slots : j # k => e.s[j] = d.s[j],
           e.s[k].id = d.s[k].id, e.s[k].fl = d.s[k].fl, e.s[k].hdr <= d.s[k].hdr,
           e.s[k].hdr \in Nat, d.s[k].hdr \in Nat, d.b.pre \in Nat,
           e.g.st[d.s[k].id].es = d.g.st[d.s[k].id].es,
           \A j \in Slots : j # k => e.g.st[d.s[j].id] = d.g.st[d.s[j].id]
    PROVE  InBlock(e)
<1>1. CASE d.b.s = 0
  BY <1>1, Zenon DEF InBlock
<1>2. CASE d.b.s # 0
  <2>1. d.b.s \in Slots
    BY <1>2, SlotNumbers, Zenon
  <2> DEFINE s == d.s[d.b.s]  t == e.s[d.b.s]
  <2>2. /\ d.b.in /\ s.id = d.b.sid /\ s.id # 0 /\ ~Has(s, "RST") /\ ~Has(s, "RECV_END")
        /\ (d.b.trailer <=> Has(s, "FINAL")) /\ s.hdr <= d.b.pre /\ (d.b.es <=> d.g.st[s.id].es)
    BY <1>2, Zenon DEF InBlock
  <2>3. t.id = s.id /\ t.fl = s.fl /\ t.hdr <= d.b.pre /\ e.g.st[s.id].es = d.g.st[s.id].es
    <3>1. CASE d.b.s = k
      <4>1. t.id = s.id /\ t.fl = s.fl /\ e.g.st[s.id].es = d.g.st[s.id].es /\ t.hdr <= s.hdr
        BY <3>1, Zenon
      <4>2. t.hdr \in Nat /\ s.hdr \in Nat /\ d.b.pre \in Nat /\ s.hdr <= d.b.pre
        BY <2>2, <3>1, Zenon
      <4> HIDE DEF s, t
      <4> QED BY <4>1, <4>2
    <3>2. CASE d.b.s # k
      BY <2>1, <2>2, <3>2, Zenon
    <3> QED BY <3>1, <3>2, Zenon
  <2>4. d.b.in => d.f.t \in {"none", "HEADERS", "CONT"}
    BY Zenon DEF InBlock
  <2>5. /\ t.id = d.b.sid /\ t.id # 0 /\ ~Has(t, "RST") /\ ~Has(t, "RECV_END")
        /\ (d.b.trailer <=> Has(t, "FINAL")) /\ t.hdr <= d.b.pre /\ (d.b.es <=> e.g.st[t.id].es)
    BY <2>2, <2>3, Zenon DEF Has
  <2> QED BY <2>2, <2>4, <2>5, ZenonT(40) DEF InBlock
<1> QED BY <1>1, <1>2, Zenon

\* The credit of the slot k is paid.
Credited(e, d, k) ==
    /\ Good(e, 0) /\ Same(e, d, {"s", "fault", "tx", "crwin", "cpend"}) /\ Named(e, d)
    /\ SlotBecomes(e, d, k, CreditedSlot(d.s[k]))
    /\ e.cpend < CREDIT /\ e.tx <= d.tx + 2
    /\ CREDIT * e.tx + e.s[k].pend + Capped(e.cpend) <= CREDIT * d.tx + d.s[k].pend + Capped(d.cpend)

LEMMA CreditKeeps ==
    ASSUME NEW d, NEW k \in Slots, Good(d, k), d.err = "OK", d.s[k].id # 0,
           Ample(d.tx, d.s[k].pend + Capped(d.cpend))
    PROVE  Credited(h2_credit(d, k), d, k)
<1> DEFINE e  == h2_credit(d, k)
           s  == d.s[k]
           t  == CreditedSlot(s)
           id == s.id
           st == d.g.st[id]
           x  == Part(d, k)
<1>1. /\ Kept(d) /\ Typed(d) /\ Conn(d) /\ Owing(d, k) /\ SlotOK(d, k) /\ Simple(d) /\ d.b \in BlockType
  BY Zenon DEF Good, Kept, Typed
<1>2. /\ id \in Ids /\ id < d.next_id /\ Closing(s, st, x.es \/ Ending(d, k)) /\ Counting(s, st, x)
      /\ Granted(s, st, d.p_win)
  BY <1>1, Zenon DEF SlotOK
<1>3. ~Has(s, "RST") => st.ph \in {"open", "ended"}
  BY <1>2, Zenon DEF Closing
<1>4. d.g.wire /\ ~d.fault
  BY <1>1, Zenon DEF Kept
<1>5. /\ Typed(e) /\ Same(e, d, {"s", "fault", "tx", "crwin", "cpend"}) /\ ~e.fault
      /\ SlotBecomes(e, d, k, t)
      /\ e.crwin + e.cpend = d.crwin + d.cpend /\ e.cpend < CREDIT
      /\ e.tx <= d.tx + 2 /\ e.tx <= TX
      /\ CREDIT * e.tx + e.s[k].pend + Capped(e.cpend) <= CREDIT * d.tx + d.s[k].pend + Capped(d.cpend)
  BY <1>1, <1>2, <1>3, <1>4, CreditDoes, Zenon
<1>6. s \in SlotType
  BY <1>1, SlotTyped
<1> HIDE DEF e, s, st, x
<1>7. /\ t \in SlotType
      /\ t.id = s.id /\ t.rlen = s.rlen /\ t.hdr = s.hdr /\ t.swin = s.swin /\ t.got = s.got
      /\ t.ready = s.ready /\ t.cl = s.cl /\ t.err = s.err /\ t.fl = s.fl /\ t.n1xx = s.n1xx
      /\ t.rwin + t.pend = s.rwin + s.pend /\ t.pend <= s.pend /\ t.rwin \in Int
      /\ Paid(t)
  BY <1>6, CreditedSlotIs
<1> HIDE DEF t
<1>8. e.s[k] = t /\ \A j \in Slots : j # k => e.s[j] = d.s[j]
  BY <1>1, <1>5, <1>7, SlotChanged
<1>9. /\ e.err = d.err /\ e.eof = d.eof /\ e.goaway = d.goaway /\ e.last_id = d.last_id
      /\ e.next_id = d.next_id /\ e.p_win = d.p_win /\ e.rx = d.rx /\ e.f = d.f /\ e.fs = d.fs
      /\ e.b = d.b /\ e.enc = d.enc /\ e.g = d.g /\ e.dat = d.dat /\ e.pos = d.pos
  BY <1>5 DEF Same, Fields
<1>10. \A j \in Slots : Part(e, j) = Part(d, j) /\ Ending(e, j) = Ending(d, j)
  BY <1>9 DEF Part, Ending
<1>11. Aside(e, d, k)
  BY <1>7, <1>8, <1>9, <1>10 DEF Aside, s
<1>12. SlotOK(e, k)
  <2>1. Closing(t, st, x.es \/ Ending(d, k))
    BY <1>2, <1>7 DEF Closing, Has, BothEnds
  <2>2. Counting(t, st, x)
    <3>1. Rest(t) = Rest(s) /\ Rest(s) \in Int /\ t.pend \in Nat /\ s.pend \in Nat /\ s.rwin \in Int
      BY <1>6, <1>7 DEF Rest, SlotType
    <3>2. x.len \in Nat /\ x.taken \in Nat
      BY <1>1, PartTyped DEF x
    <3>3. W \in Nat
      BY Consts
    <3>4. ~Has(s, "RST") /\ ~Has(s, "RECV_END") => t.rwin + t.pend + Rest(t) + x.len - x.taken = W
      BY <1>2, <1>7, <3>1, <3>2 DEF Counting
    <3>5. s.err = "OK" => t.pend + Rest(t) + x.len - x.taken <= W
      BY <1>2, <1>7, <3>1, <3>2, <3>3 DEF Counting
    <3>6. s.err = "OK" /\ ~Has(s, "FINAL") => t.rlen = 0 /\ t.pend = 0 /\ ~x.on /\ ~Has(s, "RECV_END")
      BY <1>2, <1>7, <3>1 DEF Counting
    <3>7. /\ Has(t, "RST") = Has(s, "RST") /\ Has(t, "RECV_END") = Has(s, "RECV_END")
          /\ Has(t, "FINAL") = Has(s, "FINAL") /\ ClChecked(t) = ClChecked(s)
      BY <1>7, Zenon DEF Has, ClChecked
    <3> DEFINE cs == ClChecked(s)  ct == ClChecked(t)
    <3> HIDE DEF cs, ct
    <3>8. s.err = "OK" => /\ s.hdr <= MAX_LIST /\ s.ready <= Rest(s) /\ (~x.on => s.ready = Rest(s))
                          /\ st.dat = st.read + Rest(s) + x.whole - x.taken /\ s.got = st.dat - x.whole
                          /\ (Has(s, "RECV_END") /\ ClChecked(s) => s.got = s.cl)
      BY <1>2 DEF Counting
    <3> QED BY <1>2, <1>7, <3>1, <3>4, <3>5, <3>6, <3>7, <3>8 DEF Counting
  <2>3. Granted(t, st, e.p_win)
    BY <1>2, <1>7, <1>9 DEF Granted
  <2>4. Part(e, k) = x /\ Ending(e, k) = Ending(d, k) /\ e.s[k] = t /\ t.id = id
    BY <1>7, <1>8, <1>10 DEF x
  <2>5. e.g.st[t.id] = st /\ id < e.next_id
    BY <1>2, <1>9, <2>4, Zenon DEF st
  <2> HIDE DEF id
  <2> QED BY <1>2, <2>1, <2>2, <2>3, <2>4, <2>5 DEF SlotOK
<1>13. Books(e, k) = Books(d, k)
  <2>1. Rest(e.s[k]) = Rest(d.s[k]) /\ e.g.extra = d.g.extra /\ Part(e, k) = Part(d, k)
    BY <1>7, <1>8, <1>9, <1>10, Zenon DEF Rest, s
  <2> QED BY <1>5, <2>1 DEF Books
<1>14. d.fs \in 0..N /\ d.b.s \in 0..N /\ d.b.pre \in Nat
  <2>1. d.b.s \in 0..N /\ d.b.pre \in Nat
    <3> DEFINE b == d.b
    <3>1. b \in BlockType
      BY <1>1
    <3> HIDE DEF b, Representations
    <3>2. b.s \in 0..N /\ b.pre \in Nat
      BY <3>1 DEF BlockType
    <3> QED BY <3>2 DEF b
  <2> QED BY <1>1, <2>1 DEF Simple
<1>15. Taking(e)
  BY <1>1, <1>7, <1>8, <1>9, <1>14, TakingKept, Zenon DEF Conn, s
<1>16. InBlock(e)
  <2>1. e.s[k].hdr <= d.s[k].hdr /\ e.s[k].hdr \in Nat /\ d.s[k].hdr \in Nat
    BY <1>6, <1>7, <1>8 DEF SlotType, s
  <2> QED BY <1>1, <1>7, <1>8, <1>9, <1>14, <2>1, InBlockKept, Zenon DEF Conn, s
<1>17. Told(e)
  BY <1>1, <1>9, Zenon DEF Conn, Told
<1>18. LET v == e.g.st[d.s[k].id]
       IN  /\ v.whole /\ v.retry /\ (d.g.st[d.s[k].id].unproc => v.unproc)
           /\ e.s[k].err = "RETRY" => v.unproc
  BY <1>1, <1>2, <1>7, <1>8, <1>9, Zenon DEF Kept, s
<1>19. e.err = "OK" => /\ SlotOK(e, k) /\ (k # 0 => Paid(e.s[k])) /\ Books(e, k) = Books(d, k)
                       /\ (0 = 0 /\ e.f.t # "DATA" => e.cpend < CREDIT)
                       /\ Taking(e) /\ InBlock(e) /\ Told(e)
  BY <1>5, <1>7, <1>8, <1>12, <1>13, <1>15, <1>16, <1>17, Zenon
<1>20. Good(e, 0)
  <2>1. k \in {0, k, 0} /\ e.g.wire
    BY <1>4, <1>9, Zenon
  <2> QED BY <1>5, <1>11, <1>18, <1>19, <2>1, OneSlot, Zenon
<1>21. Named(e, d)
  BY <1>7, <1>8, Zenon DEF Named, s
<1> QED BY <1>5, <1>20, <1>21, Zenon DEF Credited, e, t, s
\* A stream that has all the server sends, and whose end is not noted yet.
Finishing(r, k) ==
    LET s == r.s[k]  st == r.g.st[s.id]
    IN  /\ ~Has(s, "RST") /\ ~Has(s, "RECV_END") /\ Has(s, "FINAL") /\ s.err = "OK"
        /\ st.es /\ st.whole /\ st.retry
        /\ st.ph = IF Has(s, "SENT_END") THEN "ended" ELSE "open"
        /\ Counting(s, st, Idle0) /\ Granted(s, st, r.p_win)
EndedSlot(s) == [s EXCEPT !.fl = @ \cup {"RECV_END"}]
\* One stream's step is done.
StepDone(e, r, y) ==
    Good(e, y) /\ Same(e, r, {"s", "g", "fault", "tx"}) /\ e.tx <= r.tx + 1 /\ Named(e, r)

\* One slot of a connection is replaced.
SlotIs(e, r, k, t) ==
    /\ Typed(e) /\ SlotBecomes(e, r, k, t)
    /\ e.s[k] = t /\ \A j \in Slots : j # k => e.s[j] = r.s[j]
LEMMA SlotSet ==
    ASSUME NEW r, Typed(r), NEW k \in Slots, NEW t \in SlotType, NEW e, Shape(e), Same(e, r, {"s"}),
           e.s = [r.s EXCEPT ![k] = t]
    PROVE  SlotIs(e, r, k, t)
<1>1. SlotBecomes(e, r, k, t)
  BY DEF SlotBecomes
<1>2. e.s \in [Slots -> SlotType] /\ e.s[k] = t /\ \A j \in Slots : j # k => e.s[j] = r.s[j]
  BY <1>1 DEF Typed, SlotBecomes
<1>3. Simple(r) /\ PastTyped(r.g)
  BY Zenon DEF Typed
<1>4. e.g = r.g /\ Simple(e) /\ Same(e, r, Scalars \cup {"s", "g"})
  BY <1>3 DEF Same, Fields, Scalars, Simple
<1>5. Typed(e)
  BY <1>2, <1>3, <1>4, TypedWith, Zenon
<1> QED BY <1>1, <1>2, <1>5 DEF SlotIs

LEMMA EndedSlotIs ==
    ASSUME NEW s \in SlotType
    PROVE  LET t == EndedSlot(s)
           IN  /\ t \in SlotType /\ t = [s EXCEPT !.fl = s.fl \cup {"RECV_END"}]
               /\ t.id = s.id /\ t.rlen = s.rlen /\ t.hdr = s.hdr /\ t.swin = s.swin /\ t.got = s.got
               /\ t.ready = s.ready /\ t.cl = s.cl /\ t.err = s.err /\ t.rwin = s.rwin /\ t.pend = s.pend
               /\ t.fl = s.fl \cup {"RECV_END"}
<1> DEFINE fl == s.fl \cup {"RECV_END"}  t == EndedSlot(s)
<1>1. fl \in SUBSET Flags
  BY Zenon DEF SlotType, Flags
<1>2. t = [s EXCEPT !.fl = fl]
  BY DEF EndedSlot
<1> HIDE DEF fl, t
<1>3. /\ t \in SlotType
      /\ t.id = s.id /\ t.rlen = s.rlen /\ t.hdr = s.hdr /\ t.swin = s.swin /\ t.got = s.got
      /\ t.ready = s.ready /\ t.cl = s.cl /\ t.err = s.err /\ t.rwin = s.rwin /\ t.pend = s.pend
      /\ t.fl = fl
  BY <1>1, <1>2 DEF SlotType
<1> QED BY <1>2, <1>3, Zenon DEF fl, t

LEMMA EndKeeps ==
    ASSUME NEW d, NEW x, Good(d, x), d.err = "OK", NEW k \in Slots, d.s[k].id # 0, NEW r, Typed(r),
           Aside(r, d, k), r.g.wire, ~r.fault, r.tx < TX, Finishing(r, k),
           d.g.st[d.s[k].id].unproc => r.g.st[d.s[k].id].unproc,
           r.fs = 0, r.b.s = 0, r.b.in => r.f.t \in {"none", "HEADERS", "CONT"}, Told(r),
           Books(r, k) = Books(d, k),
           NEW y, x \in {0, k, y}, y = 0 /\ r.f.t # "DATA" => r.cpend < CREDIT
    PROVE  StepDone(h2_recv_end(r, k), r, y)
<1> DEFINE q  == [r EXCEPT !.s[k].fl = @ \cup {"RECV_END"}]
           e  == h2_recv_end(r, k)
           s  == r.s[k]
           id == d.s[k].id
           t  == EndedSlot(s)
           st == r.g.st[id]
<1>1. /\ Kept(d) /\ Typed(d) /\ SlotOK(d, k) /\ r.s[k].id = id /\ Shape(r) /\ r.s \in [Slots -> SlotType]
      /\ r.tx \in Nat /\ TX \in Nat
  BY Consts, Zenon DEF Good, Kept, Aside, Typed, Simple
<1>2. id \in Ids /\ id < d.next_id
  BY <1>1, Zenon DEF SlotOK
<1>3. e = IF ClChecked(s) /\ s.got # s.cl THEN h2_stream_err(q, k) ELSE q
  BY Zenon DEF h2_recv_end
<1>4. s \in SlotType /\ st \in StreamType
  BY <1>2, SlotTyped, StreamTyped, Zenon
<1>5. /\ t \in SlotType
      /\ t.id = s.id /\ t.rlen = s.rlen /\ t.hdr = s.hdr /\ t.swin = s.swin /\ t.got = s.got
      /\ t.ready = s.ready /\ t.cl = s.cl /\ t.err = s.err /\ t.rwin = s.rwin /\ t.pend = s.pend
      /\ t.fl = s.fl \cup {"RECV_END"}
  BY <1>4, EndedSlotIs, Zenon
<1>6. Shape(q) /\ Same(q, r, {"s"}) /\ q.s = [r.s EXCEPT ![k] = t]
  <2>1. Shape(q) /\ Same(q, r, {"s"})
    BY <1>1, Zenon DEF Shape, Same, Fields
  <2>2. q.s = [r.s EXCEPT ![k] = t]
    BY <1>1, Zenon DEF EndedSlot, Shape, Fields
  <2> QED BY <2>1, <2>2, Zenon
<1> HIDE DEF e, q, t
<1>7. /\ Typed(q) /\ q.s[k] = t /\ \A j \in Slots : j # k => q.s[j] = r.s[j]
  <2>1. t \in SlotType
    BY <1>5, Zenon
  <2>2. SlotIs(q, r, k, t)
    BY <1>6, <2>1, SlotSet, Zenon
  <2> QED BY <2>2, Zenon DEF SlotIs
<1>8. /\ q.err = r.err /\ q.eof = r.eof /\ q.goaway = r.goaway /\ q.last_id = r.last_id
      /\ q.next_id = r.next_id /\ q.p_win = r.p_win /\ q.rx = r.rx /\ q.f = r.f /\ q.fs = r.fs
      /\ q.b = r.b /\ q.enc = r.enc /\ q.g = r.g /\ q.dat = r.dat /\ q.pos = r.pos /\ q.tx = r.tx
      /\ q.fault = r.fault /\ q.crwin = r.crwin /\ q.cpend = r.cpend
  BY <1>6 DEF Same, Fields
<1>9. \A j \in Slots : Part(q, j) = Part(r, j) /\ Ending(q, j) = Ending(r, j)
  BY <1>8, Zenon DEF Part, Ending
<1>10. Aside(q, d, k)
  BY <1>5, <1>7, <1>8, <1>9 DEF Aside
<1>11. /\ ~Has(s, "RST") /\ ~Has(s, "RECV_END") /\ Has(s, "FINAL") /\ s.err = "OK"
       /\ st.es /\ st.whole /\ st.retry
       /\ st.ph = (IF Has(s, "SENT_END") THEN "ended" ELSE "open")
       /\ Counting(s, st, Idle0) /\ Granted(s, st, r.p_win)
  BY <1>1, Zenon DEF Finishing
<1>12. Books(q, k) = Books(d, k)
  <2>1. Rest(q.s[k]) = Rest(r.s[k]) /\ Part(q, k) = Part(r, k)
    BY <1>5, <1>7, <1>9, Zenon DEF Rest
  <2> QED BY <1>8, <2>1, Zenon DEF Books
<1>13. Told(q)
  BY <1>8, Zenon DEF Told
<1>14. Named(q, r)
  BY <1>5, <1>7, Zenon DEF Named
<1> HIDE DEF s, st, id
<1>15. q.s[k] = t /\ q.g.st[t.id] = st /\ t.id = id /\ q.p_win = r.p_win
  BY <1>1, <1>5, <1>7, <1>8, Zenon DEF s, st
<1>16. /\ ~Has(t, "RST") /\ Has(t, "RECV_END") /\ Has(t, "FINAL") /\ (Has(t, "SENT_END") <=> Has(s, "SENT_END"))
       /\ (ClChecked(t) <=> ClChecked(s))
  BY <1>5, <1>11, Zenon DEF Has, ClChecked
<1>17. CASE ClChecked(s) /\ s.got # s.cl
  <2>1. Resettable(q, k)
    <3>1. /\ st.whole /\ st.retry /\ (t.err = "RETRY" => st.unproc) /\ t.hdr <= t.rlen
          /\ Granted(t, st, q.p_win) /\ st.es
      BY <1>5, <1>11, <1>15, Zenon DEF Counting, Granted
    <3>2. IF Has(t, "RST") \/ BothEnds(t) THEN st.ph = "reset" \/ (st.ph = "ended" /\ st.es)
          ELSE st.ph \in {"open", "ended"} /\ q.tx < TX
      <4>1. BothEnds(t) <=> Has(s, "SENT_END")
        BY <1>16, Zenon DEF BothEnds, Has
      <4> QED BY <1>8, <1>11, <1>16, <4>1, Zenon
    <3> QED BY <1>15, <3>1, <3>2, Zenon DEF Resettable
  <2> DEFINE z == h2_stream_err(q, k)
  <2>2. e = z
    BY <1>3, <1>17, Zenon
  <2>3. Failing(q, d, k, y)
    <3>1. q.g.wire /\ ~q.fault /\ q.tx <= TX /\ q.fs = 0 /\ q.b.s = 0
          /\ (q.b.in => q.f.t \in {"none", "HEADERS", "CONT"})
          /\ (d.g.st[d.s[k].id].unproc => q.g.st[d.s[k].id].unproc)
          /\ (y = 0 /\ q.f.t # "DATA" => q.cpend < CREDIT)
      BY <1>1, <1>8
    <3> QED BY <1>7, <1>10, <1>12, <1>13, <2>1, <3>1, Zenon DEF Failing
  <2>4. /\ Good(z, y) /\ Same(z, q, {"s", "g", "fault", "tx"}) /\ z.tx <= q.tx + 1
        /\ SlotBecomes(z, q, k, FailedSlot(q.s[k]))
    <3>1. FailedDone(z, q, k, y)
      BY <2>3, FailedKeeps
    <3> HIDE DEF z
    <3> QED BY <3>1, Zenon DEF FailedDone
  <2> HIDE DEF z
  <2>5. Same(z, r, {"s", "g", "fault", "tx"})
    BY <1>6, <2>4, Zenon DEF Same, Fields
  <2>6. Named(z, r)
    <3> DEFINE f == FailedSlot(t)
    <3>1. f \in SlotType /\ f.id = t.id
      BY <1>5, FailedSlotIs, Zenon
    <3> HIDE DEF f
    <3>2. z.s[k] = f /\ \A j \in Slots : j # k => z.s[j] = q.s[j]
      BY <1>7, <2>4, <3>1, SlotChanged DEF f
    <3> QED BY <1>14, <1>15, <3>1, <3>2 DEF Named
  <2> QED BY <1>8, <2>2, <2>4, <2>5, <2>6, Zenon DEF StepDone, e
<1>18. CASE ~(ClChecked(s) /\ s.got # s.cl)
  <2>1. e = q
    BY <1>3, <1>18, Zenon
  <2>2. SlotOK(q, k)
    <3>1. Part(q, k) = Idle0
      BY <1>8, Consts DEF Part
    <3>2. Closing(t, st, Part(q, k).es \/ Ending(q, k))
      BY <1>5, <1>11, <1>16, Zenon DEF Closing
    <3>3. Counting(t, st, Idle0)
      <4>1. Rest(t) = Rest(s)
        BY <1>5, Zenon DEF Rest
      <4> QED BY <1>5, <1>11, <1>16, <1>18, <4>1 DEF Counting
    <3>4. Granted(t, st, q.p_win)
      BY <1>5, <1>11, <1>15, Zenon DEF Granted
    <3>5. id < q.next_id
      BY <1>2, <1>10, Zenon DEF Aside
    <3> QED BY <1>2, <1>15, <3>1, <3>2, <3>3, <3>4, <3>5, Zenon DEF SlotOK
  <2>3. LET v == q.g.st[d.s[k].id]
        IN  /\ v.whole /\ v.retry /\ (d.g.st[d.s[k].id].unproc => v.unproc)
            /\ q.s[k].err = "RETRY" => v.unproc
    BY <1>5, <1>7, <1>8, <1>11, Zenon DEF id, st
  <2>4. q.err = "OK" => /\ SlotOK(q, k) /\ (k # y => Paid(q.s[k])) /\ Books(q, k) = Books(d, k)
                        /\ (y = 0 /\ q.f.t # "DATA" => q.cpend < CREDIT)
                        /\ Taking(q) /\ InBlock(q) /\ Told(q)
    <3>1. Paid(t)
      BY <1>16, Zenon DEF Paid
    <3> QED BY <1>7, <1>8, <1>12, <1>13, <2>2, <3>1, Zenon DEF Taking, InBlock
  <2>5. q.g.wire /\ ~q.fault /\ q.tx <= TX
    BY <1>1, <1>8
  <2>6. Good(q, y)
    BY <1>7, <1>10, <2>3, <2>4, <2>5, OneSlot
  <2>7. Same(q, r, {"s", "g", "fault", "tx"}) /\ q.tx <= r.tx + 1
    BY <1>1, <1>6, <1>8 DEF Same
  <2> QED BY <1>14, <2>1, <2>6, <2>7, Zenon DEF StepDone, e
<1> QED BY <1>17, <1>18, Zenon

\* The DATA of a whole frame count for the stream, its padding is owed.
CountedSlot(s, n, data) ==
    [s EXCEPT !.ready = s.rlen - s.hdr, !.pend = s.pend + n - data, !.got = s.got + data]
LEMMA CountedSlotIs ==
    ASSUME NEW s \in SlotType, s.hdr <= s.rlen, NEW n \in Nat, NEW data \in Nat, data <= n
    PROVE  LET t == CountedSlot(s, n, data)
           IN  /\ t \in SlotType
               /\ t.id = s.id /\ t.rlen = s.rlen /\ t.hdr = s.hdr /\ t.swin = s.swin
               /\ t.cl = s.cl /\ t.err = s.err /\ t.fl = s.fl /\ t.rwin = s.rwin
               /\ t.ready = Rest(s) /\ t.pend = s.pend + n - data /\ t.got = s.got + data
<1> DEFINE a == s.rlen - s.hdr  p == s.pend + n - data  g == s.got + data  t == CountedSlot(s, n, data)
<1>1. a \in Nat /\ p \in Nat /\ g \in Nat /\ a = Rest(s)
  <2>1. s.rlen \in Nat /\ s.hdr \in Nat /\ s.pend \in Nat /\ s.got \in Nat
    BY DEF SlotType
  <2> QED BY <2>1 DEF Rest
<1>2. t = [s EXCEPT !.ready = a, !.pend = p, !.got = g]
  BY DEF CountedSlot
<1> HIDE DEF a, p, g, t
<1>3. /\ t \in SlotType
      /\ t.id = s.id /\ t.rlen = s.rlen /\ t.hdr = s.hdr /\ t.swin = s.swin
      /\ t.cl = s.cl /\ t.err = s.err /\ t.fl = s.fl /\ t.rwin = s.rwin
      /\ t.ready = a /\ t.pend = p /\ t.got = g
  BY <1>1, <1>2, Zenon DEF SlotType
<1> QED BY <1>1, <1>3, Zenon DEF p, g, t

\* The connection when the frame that the slot k takes is whole, before it is judged.
Counted(r, d, k) ==
    LET t == r.s[k]  st == r.g.st[t.id]
    IN  /\ Typed(r) /\ Aside(r, d, k) /\ Same(r, d, {"s", "fs", "cpend", "idle"}) /\ r.fs = 0
        /\ t.err = "OK" /\ Has(t, "FINAL") /\ ~Has(t, "RST") /\ ~Has(t, "RECV_END")
        /\ st.whole /\ st.retry /\ st.ph = IF Has(t, "SENT_END") THEN "ended" ELSE "open"
        /\ (st.es <=> d.f.es) /\ Counting(t, st, Idle0) /\ Granted(t, st, r.p_win)
        /\ Books(r, k) = Books(d, k)

LEMMA CountedIs ==
    ASSUME NEW d, Good(d, 0), d.err = "OK", d.fs \in Slots, d.pos = d.f.len
    PROVE  Counted(data_counted([d EXCEPT !.fs = 0], d.fs), d, d.fs)
<1> DEFINE k == d.fs  s == d.s[k]  id == s.id  st == d.g.st[id]  n == d.f.len
           data == FrameData(d.f, d.f.len)
           q == [d EXCEPT !.fs = 0]
           t == CountedSlot(s, n, data)
           r == data_counted(q, k)
<1>1. /\ Kept(d) /\ Typed(d) /\ Conn(d) /\ SlotOK(d, k) /\ Simple(d) /\ Shape(d) /\ k # 0
      /\ d.s \in [Slots -> SlotType] /\ d.f \in Frames \cup {NoFrame}
  BY Consts, Zenon DEF Good, Kept, Typed
<1>2. /\ d.f.t = "DATA" /\ id = d.f.sid /\ id # 0 /\ Has(s, "FINAL") /\ ~Has(s, "RST")
      /\ ~Has(s, "RECV_END") /\ d.dat = data /\ (d.f.es => st.es)
  BY <1>1, Zenon DEF Conn, Taking
<1>3. ~d.b.in /\ d.b.s = 0
  BY <1>1, <1>2, Zenon DEF Conn, InBlock
<1>4. /\ id \in Ids /\ id < d.next_id /\ Closing(s, st, Part(d, k).es \/ Ending(d, k))
      /\ Counting(s, st, Part(d, k)) /\ Granted(s, st, d.p_win)
  BY <1>1, <1>2, Zenon DEF SlotOK
<1>5. s \in SlotType /\ n \in Nat
  BY <1>1, SlotTyped, FrameTyped
<1>6. data \in Nat /\ data <= n
  BY <1>1, <1>5, FrameDataGrows
<1>7. Part(d, k) = [on |-> TRUE, len |-> n, whole |-> data, taken |-> data, es |-> d.f.es]
  BY <1>2, Zenon DEF Part
<1>8. ~Ending(d, k)
  BY <1>1, <1>3 DEF Ending
<1>9. s.err = "OK" /\ (st.es <=> d.f.es) /\ st.ph = IF Has(s, "SENT_END") THEN "ended" ELSE "open"
  <2>1. Part(d, k).es = d.f.es
    BY <1>7
  <2> QED BY <1>2, <1>4, <1>8, <2>1, Zenon DEF Closing
<1>10. /\ s.hdr <= s.rlen /\ s.rwin + s.pend + Rest(s) + n - data = W
       /\ s.pend + Rest(s) + n - data <= W /\ s.hdr <= MAX_LIST
       /\ st.dat = st.read + Rest(s) + data - data /\ s.got = st.dat - data
  BY <1>2, <1>4, <1>7, <1>9 DEF Counting
<1> HIDE DEF data, s, n, st, t
<1>11. /\ t \in SlotType
       /\ t.id = s.id /\ t.rlen = s.rlen /\ t.hdr = s.hdr /\ t.swin = s.swin
       /\ t.cl = s.cl /\ t.err = s.err /\ t.fl = s.fl /\ t.rwin = s.rwin
       /\ t.ready = Rest(s) /\ t.pend = s.pend + n - data /\ t.got = s.got + data
  BY <1>5, <1>6, <1>10, CountedSlotIs, Zenon DEF t
<1>12. Shape(q) /\ Same(q, d, {"fs"}) /\ q.fs = 0
  BY <1>1, Zenon DEF Shape, Same, Fields
<1>13. /\ Shape(r) /\ Same(r, d, {"s", "fs", "cpend", "idle"}) /\ r.fs = 0
       /\ r.s = [d.s EXCEPT ![k] = t] /\ r.cpend = d.cpend + n - data
  <2>1. q.f = d.f /\ q.s = d.s /\ q.cpend = d.cpend
    BY <1>12, Zenon DEF Same, Fields
  <2> DEFINE i == IF data > 0 \/ d.f.es THEN 0 ELSE q.idle
  <2> HIDE DEF q
  <2>2. r = [q EXCEPT !.s = [d.s EXCEPT ![k] = t], !.cpend = d.cpend + n - data, !.idle = i]
    <3>1. q = [z \in Fields |-> q[z]]
      BY <1>12, Zenon DEF Shape
    <3>2. q.idle = q["idle"] /\ q.s[k] = s
      BY <2>1, Zenon DEF s
    <3>3. r = [q EXCEPT !.s[k] = t, !.cpend = @ + d.f.len - data, !.idle = IF data > 0 \/ d.f.es THEN 0 ELSE @]
      BY <2>1 DEF data_counted, data, t, CountedSlot, s, n
    <3> HIDE DEF r, k
    <3> QED BY <2>1, <3>1, <3>3, Zenon DEF n, Fields
  <2> HIDE DEF r, i, k
  <2>3. /\ Shape(r) /\ Same(r, q, {"s", "cpend", "idle"}) /\ r.s = [d.s EXCEPT ![k] = t]
        /\ r.cpend = d.cpend + n - data
    BY <1>12, <2>2, Zenon DEF Shape, Same, Fields
  <2> QED BY <1>12, <2>3 DEF Same, Fields
<1> HIDE DEF r, q
<1>14. r.s \in [Slots -> SlotType] /\ r.s[k] = t /\ \A j \in Slots : j # k => r.s[j] = d.s[j]
  <2>1. SlotBecomes(r, d, k, t)
    BY <1>13 DEF SlotBecomes
  <2>2. k \in Slots /\ t \in SlotType
    BY <1>11, Zenon
  <2> HIDE DEF k
  <2> QED BY <1>1, <2>1, <2>2, SlotChanged
<1>15. /\ r.err = d.err /\ r.eof = d.eof /\ r.goaway = d.goaway /\ r.last_id = d.last_id
       /\ r.next_id = d.next_id /\ r.p_win = d.p_win /\ r.rx = d.rx /\ r.f = d.f /\ r.g = d.g
       /\ r.b = d.b /\ r.enc = d.enc /\ r.dat = d.dat /\ r.pos = d.pos /\ r.tx = d.tx
       /\ r.fault = d.fault /\ r.crwin = d.crwin /\ r.cwin = d.cwin
  BY <1>13 DEF Same, Fields
<1>16. d.cpend \in Nat /\ r.cpend \in Nat
  <2>1. d.cpend \in Nat
    BY <1>1 DEF Simple
  <2> QED BY <1>5, <1>6, <1>13, <2>1
<1>17. Typed(r)
  <2>1. Same(r, d, Scalars \cup {"s", "g"})
    BY <1>13 DEF Same, Scalars, Fields
  <2>2. Simple(r)
    BY <1>1, <1>13, <1>15, <1>16, Consts DEF Simple
  <2>3. PastTyped(r.g)
    BY <1>1, <1>15 DEF Typed
  <2> QED BY <1>1, <1>13, <1>14, <2>1, <2>2, <2>3, TypedWith, Zenon
<1>18. Aside(r, d, k)
  <2>1. \A j \in Slots : j # k => Part(r, j) = Part(d, j) /\ Ending(r, j) = Ending(d, j)
    BY <1>1, <1>13, <1>15, Consts, Zenon DEF Part, Ending
  <2> QED BY <1>11, <1>14, <1>15, <2>1, Zenon DEF Aside, s
<1>19. /\ s.rlen \in Nat /\ s.hdr \in Nat /\ s.pend \in Nat /\ s.rwin \in Int /\ s.got \in Nat
       /\ Rest(s) \in Int /\ Rest(t) = Rest(s) /\ W \in Nat /\ d.crwin \in Int /\ d.g.extra \in Int
       /\ st.dat \in Nat /\ st.read \in Nat
  <2>1. s.rlen \in Nat /\ s.hdr \in Nat /\ s.pend \in Nat /\ s.rwin \in Int /\ s.got \in Nat
    BY <1>5 DEF SlotType
  <2>2. st \in StreamType
    BY <1>1, <1>4, StreamTyped, Zenon DEF st
  <2>3. st.dat \in Nat /\ st.read \in Nat
    BY <2>2 DEF StreamType
  <2>4. d.crwin \in Int /\ d.g.extra \in Int
    BY <1>1, Zenon DEF Simple, Typed, PastTyped
  <2>5. Rest(s) \in Int /\ Rest(t) = Rest(s)
    BY <1>11, <2>1 DEF Rest
  <2> QED BY <2>1, <2>3, <2>4, <2>5, Consts, Zenon
<1>20. Counting(t, st, Idle0)
  <2> DEFINE a == Rest(s)
  <2>1. t.rwin + t.pend + a + 0 - 0 = W /\ t.pend + a + 0 - 0 <= W
    <3> HIDE DEF a
    <3> QED BY <1>5, <1>6, <1>10, <1>11, <1>19 DEF a
  <2>2. st.dat = st.read + a + 0 - 0 /\ t.got = st.dat - 0
    <3> HIDE DEF a
    <3> QED BY <1>6, <1>10, <1>11, <1>19 DEF a
  <2>3. Has(t, "FINAL") /\ ~Has(t, "RECV_END")
    BY <1>2, <1>11, Zenon DEF Has, s
  <2>4. t.hdr <= t.rlen /\ t.hdr <= MAX_LIST /\ t.ready = Rest(t) /\ Rest(t) = a
    BY <1>10, <1>11, <1>19, Zenon
  <2>5. t.ready <= Rest(t)
    BY <1>19, <2>4
  <2> HIDE DEF a
  <2> QED BY <2>1, <2>2, <2>3, <2>4, <2>5, Zenon DEF Counting, Idle0
<1>21. Books(r, k) = Books(d, k)
  <2>1. Part(r, k) = Idle0
    BY <1>1, <1>13 DEF Part
  <2> DEFINE a == d.crwin  b == d.cpend  z == d.g.extra  y == Rest(s)
  <2>2. Books(r, k) = a + (b + n - data) + y + 0 - 0 - z
    BY <1>13, <1>14, <1>15, <1>19, <2>1 DEF Books, Idle0
  <2>3. Books(d, k) = a + b + y + n - data - z
    BY <1>7 DEF Books, s
  <2>4. a \in Int /\ b \in Int /\ z \in Int /\ y \in Int
    BY <1>16, <1>19
  <2> HIDE DEF a, b, y, z
  <2> QED BY <1>5, <1>6, <2>2, <2>3, <2>4
<1>22. /\ t.err = "OK" /\ Has(t, "FINAL") /\ ~Has(t, "RST") /\ ~Has(t, "RECV_END")
       /\ st.ph = (IF Has(t, "SENT_END") THEN "ended" ELSE "open")
       /\ Granted(t, st, r.p_win) /\ r.s[k] = t /\ r.g.st[t.id] = st
  BY <1>2, <1>4, <1>9, <1>11, <1>14, <1>15, Zenon DEF Has, Granted, s, st
<1>23. st.whole /\ st.retry
  BY <1>1, <1>4, Zenon DEF Kept, st
<1> QED BY <1>9, <1>13, <1>17, <1>18, <1>20, <1>21, <1>22, <1>23, Zenon DEF Counted, r, q

\* What the whole frame leads to, before the credit of its stream.
LEMMA DataJudged ==
    ASSUME NEW d, Good(d, 0), d.err = "OK", NEW k \in Slots, d.s[k].id # 0, d.f.t = "DATA",
           d.tx < TX, NEW r, Counted(r, d, k)
    PROVE  StepDone(data_judged(r, k), r, k)
<1> DEFINE t == r.s[k]  id == d.s[k].id  st == r.g.st[id]
           e == data_judged(r, k)
<1>1. /\ Kept(d) /\ Conn(d) /\ d.g.wire /\ ~d.fault /\ d.tx <= TX /\ ~d.b.in /\ d.b.s = 0 /\ Told(d)
  BY Zenon DEF Good, Kept, Conn, InBlock
<1>2. /\ Typed(r) /\ Aside(r, d, k) /\ Same(r, d, {"s", "fs", "cpend", "idle"}) /\ r.fs = 0
      /\ Books(r, k) = Books(d, k)
  BY Zenon DEF Counted
<1>3. /\ t.id = id /\ t.err = "OK" /\ Has(t, "FINAL") /\ ~Has(t, "RST") /\ ~Has(t, "RECV_END")
      /\ st.whole /\ st.retry /\ st.ph = (IF Has(t, "SENT_END") THEN "ended" ELSE "open")
      /\ (st.es <=> d.f.es) /\ Counting(t, st, Idle0) /\ Granted(t, st, r.p_win)
  BY <1>2, Zenon DEF Counted, Aside
<1>4. /\ r.g = d.g /\ r.f = d.f /\ r.b = d.b /\ r.tx = d.tx /\ r.fault = d.fault /\ r.goaway = d.goaway
      /\ r.last_id = d.last_id /\ r.err = d.err /\ r.p_win = d.p_win
  BY <1>2, Zenon DEF Same, Fields
<1>5. Told(r)
  BY <1>1, <1>4, Zenon DEF Told
<1>6. /\ r.g.wire /\ ~r.fault /\ r.tx < TX /\ r.tx <= TX /\ r.b.s = 0 /\ ~r.b.in /\ k # 0
      /\ (d.g.st[id].unproc => r.g.st[id].unproc) /\ r.f.t = "DATA"
  BY <1>1, <1>4, Consts, Zenon
<1>7. 0 \in {0, k, k}
  BY Zenon
<1>8. e = IF ClChecked(t) /\ t.got > t.cl THEN h2_stream_err(r, k)
          ELSE IF d.f.es THEN h2_recv_end(r, k) ELSE r
  BY <1>4, Zenon DEF data_judged
<1>9. CASE ClChecked(t) /\ t.got > t.cl
  <2>1. Resettable(r, k)
    <3>1. ~BothEnds(t) /\ st.ph \in {"open", "ended"} /\ t.hdr <= t.rlen
      BY <1>3, Zenon DEF BothEnds, Has, Counting
    <3> QED BY <1>3, <1>6, <3>1, Zenon DEF Resettable
  <2>2. Failing(r, d, k, k)
    BY <1>2, <1>5, <1>6, <2>1, Zenon DEF Failing
  <2> DEFINE z == h2_stream_err(r, k)
  <2>3. FailedDone(z, r, k, k)
    BY <1>7, <2>2, FailedKeeps, Zenon
  <2>4. e = z
    BY <1>8, <1>9, Zenon
  <2> HIDE DEF z, e
  <2>5. Named(z, r)
    <3> DEFINE f == FailedSlot(t)
    <3>1. f \in SlotType /\ f.id = t.id
      <4>1. t \in SlotType
        BY <1>2, SlotTyped, Zenon
      <4> HIDE DEF t
      <4> QED BY <4>1, FailedSlotIs, Zenon
    <3> HIDE DEF f
    <3>2. SlotBecomes(z, r, k, f)
      BY <2>3, Zenon DEF FailedDone, f
    <3>3. z.s[k] = f /\ \A j \in Slots : j # k => z.s[j] = r.s[j]
      BY <1>2, <3>1, <3>2, SlotChanged
    <3> QED BY <3>1, <3>3, Zenon DEF Named
  <2>6. StepDone(z, r, k)
    BY <2>3, <2>5, Zenon DEF FailedDone, StepDone
  <2> QED BY <2>4, <2>6, Zenon DEF e
<1>10. CASE ~(ClChecked(t) /\ t.got > t.cl) /\ d.f.es
  <2>1. e = h2_recv_end(r, k)
    BY <1>8, <1>10, Zenon
  <2>2. Finishing(r, k)
    BY <1>3, <1>10, Zenon DEF Finishing
  <2>3. (k = 0 /\ r.f.t # "DATA" => r.cpend < CREDIT) /\ (r.b.in => r.f.t \in {"none", "HEADERS", "CONT"})
    BY <1>6, Zenon
  <2>4. d.g.st[d.s[k].id].unproc => r.g.st[d.s[k].id].unproc
    BY <1>6, Zenon
  <2> HIDE DEF e, t, st, id
  <2>5. StepDone(h2_recv_end(r, k), r, k)
    BY <1>2, <1>5, <1>6, <1>7, <2>2, <2>3, <2>4, EndKeeps, Zenon
  <2> QED BY <2>1, <2>5, Zenon DEF e
<1>11. CASE ~(ClChecked(t) /\ t.got > t.cl) /\ ~d.f.es
  <2>1. e = r
    BY <1>8, <1>11, Zenon
  <2>2. SlotOK(r, k)
    <3>1. Part(r, k) = Idle0
      BY <1>2, <1>6, Zenon DEF Part
    <3>2. Closing(t, st, Part(r, k).es \/ Ending(r, k))
      BY <1>3, <1>11, Zenon DEF Closing
    <3>3. id \in Ids /\ id < r.next_id
      <4>1. SlotOK(d, k)
        BY Zenon DEF Good
      <4> QED BY <1>2, <4>1, Zenon DEF SlotOK, Aside
    <3>4. r.g.st[t.id] = st /\ t = r.s[k]
      BY <1>3, Zenon
    <3> HIDE DEF t, st, id
    <3> QED BY <1>3, <3>1, <3>2, <3>3, <3>4, Zenon DEF SlotOK
  <2>3. LET v == r.g.st[d.s[k].id]
        IN  /\ v.whole /\ v.retry /\ (d.g.st[d.s[k].id].unproc => v.unproc)
            /\ r.s[k].err = "RETRY" => v.unproc
    BY <1>3, <1>6, Zenon
  <2>4. r.err = "OK" => /\ SlotOK(r, k) /\ (k # k => Paid(r.s[k])) /\ Books(r, k) = Books(d, k)
                        /\ (k = 0 /\ r.f.t # "DATA" => r.cpend < CREDIT)
                        /\ Taking(r) /\ InBlock(r) /\ Told(r)
    BY <1>2, <1>5, <1>6, <2>2, Zenon DEF Taking, InBlock
  <2>5. Good(r, k)
    BY <1>2, <1>6, <1>7, <2>3, <2>4, OneSlot, Zenon
  <2>6. Same(r, r, {"s", "g", "fault", "tx"}) /\ r.tx <= r.tx + 1 /\ Named(r, r)
    <3>1. r.tx \in Nat
      BY <1>2, Zenon DEF Typed, Simple
    <3> QED BY <3>1 DEF Same, Named
  <2> QED BY <2>1, <2>5, <2>6, Zenon DEF StepDone
<1> QED BY <1>9, <1>10, <1>11, Zenon

\* A frame is done.
EndDone(e, d) ==
    /\ Good(e, 0) /\ e.tx <= d.tx + 3 /\ e.eof = d.eof /\ e.rx = d.rx /\ Named(e, d) /\ e.fh = d.fh
    /\ e.err = "OK" => e.fs = 0 /\ e.cpend < CREDIT
LEMMA DataEnd ==
    ASSUME NEW d, Good(d, 0), d.err = "OK", d.f.t = "DATA", d.pos = d.f.len, d.tx + 3 <= TX
    PROVE  EndDone(data_end(d), d)
<1>1. Kept(d) /\ Typed(d) /\ Conn(d) /\ d.tx \in Nat /\ TX \in Nat /\ d.fs \in 0..N /\ ~d.fault /\ d.tx < TX
  <2>1. Kept(d) /\ Typed(d) /\ Conn(d) /\ Simple(d) /\ ~d.fault
    BY Zenon DEF Good, Kept, Typed
  <2>2. d.tx \in Nat /\ TX \in Nat /\ d.fs \in 0..N
    BY <2>1, Consts, Zenon DEF Simple
  <2> QED BY <2>1, <2>2
<1>2. CASE d.fs = 0
  <2> DEFINE e == h2_credit(d, 0)
  <2>1. /\ Typed(e) /\ Same(e, d, {"fault", "tx", "crwin", "cpend"}) /\ ~e.fault
        /\ e.crwin + e.cpend = d.crwin + d.cpend /\ e.cpend < CREDIT
        /\ e.tx <= d.tx + 1
    BY <1>1, CreditZero, Zenon
  <2>2. data_end(d) = e
    BY <1>2, Zenon DEF data_end
  <2> HIDE DEF e
  <2>3. /\ e.err = d.err /\ e.eof = d.eof /\ e.goaway = d.goaway /\ e.last_id = d.last_id
        /\ e.rx = d.rx /\ e.f = d.f /\ e.fs = d.fs /\ e.g = d.g /\ e.fh = d.fh /\ e.s = d.s
        /\ e.b = d.b /\ e.enc = d.enc /\ e.dat = d.dat /\ e.pos = d.pos
    BY <2>1, Zenon DEF Same, Fields
  <2>4. Same(e, d, Neutral \cup {"pos", "dat", "f", "fs", "b", "enc", "g", "crwin", "cpend"})
    BY <2>1, Zenon DEF Same, Neutral, Untyped
  <2>5. PastSame(e, d, {"st", "tab", "believed", "low"}) /\ Heard(e, d)
    <3>1. PastSame(e, d, {"st", "tab", "believed", "low"})
      BY <2>3, Zenon DEF PastSame
    <3>2. ASSUME NEW i \in Ids
          PROVE  d.g.st[i] = [d.g.st[i] EXCEPT !.unproc = d.g.st[i].unproc, !.es = d.g.st[i].es,
                                               !.dat = d.g.st[i].dat]
      <4>1. d.g.st[i] \in StreamType
        BY <1>1, StreamTyped, Zenon
      <4> QED BY <4>1, Zenon DEF StreamType
    <3> QED BY <2>3, <3>1, <3>2, Zenon DEF Heard
  <2>6. Taking(e) /\ InBlock(e) /\ Told(e) /\ Encoding(e) /\ (e.eof # "no" => ~e.rx)
        /\ \A k \in Slots : Part(e, k) = Part(d, k) /\ Ending(e, k) = Ending(d, k)
    BY <1>1, <2>3, Zenon DEF Conn, Taking, InBlock, Told, Encoding, Part, Ending
  <2>7. e.tx <= TX /\ e.tx <= d.tx + 3
    <3>1. e.tx \in Nat
      BY <2>1, Zenon DEF Typed, Simple
    <3> QED BY <1>1, <2>1, <3>1
  <2>8. Good(e, 0)
    BY <2>1, <2>3, <2>4, <2>5, <2>6, <2>7, HeardKeeps, Zenon
  <2> QED BY <1>2, <2>1, <2>2, <2>3, <2>7, <2>8, Zenon DEF EndDone, Named
<1>3. CASE d.fs # 0
  <2> DEFINE k == d.fs
             r == data_counted([d EXCEPT !.fs = 0], k)
             q == data_judged(r, k)
             e == h2_credit(q, k)
  <2>1. data_end(d) = e
    BY <1>3, Zenon DEF data_end
  <2>2. k \in Slots /\ d.s[k].id # 0
    <3>1. k \in Slots
      BY <1>1, <1>3, Consts
    <3> QED BY <1>1, <1>3, <3>1, Zenon DEF Conn, Taking
  <2>3. Counted(r, d, k)
    BY <2>2, CountedIs, Zenon
  <2> HIDE DEF k, r
  <2>4. StepDone(q, r, k)
    BY <1>1, <2>2, <2>3, DataJudged, Zenon
  <2> HIDE DEF q
  <2>5. Good(q, k) /\ q.tx <= d.tx + 1 /\ q.err = "OK" /\ q.s[k].id # 0 /\ q.eof = d.eof /\ q.rx = d.rx
        /\ q.fs = 0 /\ q.tx \in Nat /\ q.fh = d.fh
    <3>1. /\ Good(q, k) /\ Same(q, r, {"s", "g", "fault", "tx"}) /\ q.tx <= r.tx + 1 /\ Named(q, r)
      BY <2>4, Zenon DEF StepDone
    <3>2. Same(r, d, {"s", "fs", "cpend", "idle"}) /\ r.fs = 0 /\ r.s[k].id = d.s[k].id
      BY <2>3, Zenon DEF Counted, Aside
    <3>3. q.tx \in Nat
      BY <3>1, Zenon DEF Good, Kept, Typed, Simple
    <3>4. /\ q.err = r.err /\ q.eof = r.eof /\ q.rx = r.rx /\ q.fs = r.fs /\ q.fh = r.fh
          /\ r.err = d.err /\ r.eof = d.eof /\ r.rx = d.rx /\ r.tx = d.tx /\ r.fh = d.fh
      BY <3>1, <3>2, Zenon DEF Same, Fields
    <3> QED BY <2>2, <3>1, <3>2, <3>3, <3>4, Zenon DEF Named
  <2>6. Ample(q.tx, q.s[k].pend + Capped(q.cpend))
    BY <1>1, <2>5 DEF Ample
  <2>7. Credited(e, q, k)
    BY <2>2, <2>5, <2>6, CreditKeeps, Zenon
  <2> HIDE DEF e
  <2>8. Good(e, 0) /\ Same(e, q, {"s", "fault", "tx", "crwin", "cpend"}) /\ Named(e, q) /\ e.cpend < CREDIT
        /\ e.tx <= q.tx + 2
    BY <2>7, Zenon DEF Credited
  <2>9. e.tx \in Nat
    BY <2>8, Zenon DEF Good, Kept, Typed, Simple
  <2>10. e.tx <= d.tx + 3
    BY <1>1, <2>5, <2>8, <2>9
  <2>11. e.eof = d.eof /\ e.rx = d.rx /\ e.fs = 0 /\ e.fh = d.fh
    BY <2>5, <2>8, Zenon DEF Same, Fields
  <2>12. Named(e, d)
    <3>1. Named(q, r) /\ Named(r, d)
      <4>1. Aside(r, d, k)
        BY <2>3, Zenon DEF Counted
      <4>2. Named(r, d)
        BY <4>1, Zenon DEF Named, Aside
      <4> QED BY <2>4, <4>2, Zenon DEF StepDone
    <3> QED BY <2>8, <3>1, Zenon DEF Named
  <2> QED BY <2>1, <2>8, <2>10, <2>11, <2>12, Zenon DEF EndDone
<1> QED BY <1>2, <1>3, Zenon

-----------------------------------------------------------------------------
(* The end of a frame: a field block *)

\* f is the decoder after each representation of a block.
DecTurns(f, a, v, n) == f = [i \in 0..n |-> IF i = 0 THEN a ELSE represented(f[i - 1], v[i])]
DecRun(f, a, v, n) == f[0] = a /\ \A i \in 1..n : f[i] = represented(f[i - 1], v[i])
LEMMA DecTurnsStep ==
    ASSUME NEW f, NEW a, NEW v, NEW n \in Nat, DecTurns(f, a, v, n)
    PROVE  DecRun(f, a, v, n)
<1> SUFFICES f[0] = a /\ \A i \in 1..n : f[i] = represented(f[i - 1], v[i])
  BY Zenon DEF DecRun
<1>1. \A i \in 0..n : f[i] = IF i = 0 THEN a ELSE represented(f[i - 1], v[i])
  BY Zenon DEF DecTurns
<1>2. 0 \in 0..n /\ \A i \in 1..n : i \in 0..n /\ i # 0
  OBVIOUS
<1> QED BY <1>1, <1>2, Zenon

LEMMA DecTurnsExist ==
    ASSUME NEW a, NEW v, NEW n \in Nat
    PROVE  \E f : DecTurns(f, a, v, n)
<1> DEFINE Bad == {k \in Nat : ~\E f : DecTurns(f, a, v, k)}
<1>1. Bad = {}
  <2> SUFFICES ASSUME Bad # {} PROVE FALSE
    BY Zenon
  <2>1. Bad \in SUBSET Nat
    BY Zenon
  <2>2. PICK k \in Bad : \A j \in Bad : k <= j
    <3> HIDE DEF Bad
    <3> QED BY <2>1, LeastNatural, Zenon
  <2>3. k # 0
    <3>1. DecTurns([i \in 0..0 |-> a], a, v, 0)
      BY DEF DecTurns
    <3> QED BY <3>1, <2>2, Zenon
  <2>4. k \in Nat /\ k - 1 \in Nat /\ k - 1 \notin Bad
    <3>1. k \in Nat
      BY Zenon
    <3> HIDE DEF Bad
    <3> QED BY <2>2, <2>3, <3>1
  <2>5. PICK f : DecTurns(f, a, v, k - 1)
    BY <2>4, Zenon
  <2> DEFINE g == [i \in 0..k |-> IF i = k THEN represented(f[k - 1], v[k]) ELSE f[i]]
  <2>6. \A i \in 0..k : g[i] = IF i = 0 THEN a ELSE represented(g[i - 1], v[i])
    <3> TAKE i \in 0..k
    <3>1. f[0] = a /\ \A j \in 1..(k - 1) : f[j] = represented(f[j - 1], v[j])
      <4> DEFINE m == k - 1
      <4>1. m \in Nat /\ DecTurns(f, a, v, m)
        BY <2>4, <2>5, Zenon
      <4> HIDE DEF Bad, m
      <4>2. DecRun(f, a, v, m)
        BY <4>1, DecTurnsStep, Zenon
      <4> QED BY <4>2, Zenon DEF m, DecRun
    <3>2. CASE i = k
      BY <3>2, <2>3, <2>4
    <3>3. CASE i = 0
      BY <3>1, <3>3, <2>3, Zenon
    <3>4. CASE i # k /\ i # 0
      <4>1. i \in 1..(k - 1) /\ i - 1 \in 0..k /\ i - 1 # k
        BY <3>4, <2>4
      <4> QED BY <4>1, <3>1, <3>4, Zenon
    <3> QED BY <3>2, <3>3, <3>4, Zenon
  <2>7. DecTurns(g, a, v, k)
    <3>1. g = [i \in 0..k |-> g[i]]
      BY Zenon
    <3> HIDE DEF g
    <3> QED BY <2>6, <3>1, Zenon DEF DecTurns
  <2> QED BY <2>4, <2>7, Zenon
<1> QED BY <1>1, Zenon

\* The decoder as it begins, and as it ends.
DecBegun(d) == [d |-> d, fields |-> <<>>, list |-> 0, seen |-> FALSE, ok |-> TRUE]
DecEnded(x) == IF x.d.need_update THEN Failed(x) ELSE x
LEMMA DecTurnsEnd ==
    ASSUME NEW d, NEW v, Len(v) \in Nat
    PROVE  \E f : DecTurns(f, DecBegun(d), v, Len(v)) /\ hpack_decode(d, v) = DecEnded(f[Len(v)])
<1> DEFINE g == CHOOSE f : DecTurns(f, DecBegun(d), v, Len(v))
<1>1. DecTurns(g, DecBegun(d), v, Len(v))
  <2>1. \E f : DecTurns(f, DecBegun(d), v, Len(v))
    BY DecTurnsExist, Zenon
  <2> QED BY <2>1, Zenon
<1>2. hpack_decode(d, v) = DecEnded(g[Len(v)])
  BY Zenon DEF hpack_decode, DecTurns, DecBegun, DecEnded
<1> HIDE DEF g
<1> QED BY <1>1, <1>2, Zenon

\* f is what is known of a block after each of its fields.
JudTurns(f, a, v, n) == f = [i \in 0..n |-> IF i = 0 THEN a ELSE h2_on_field(f[i - 1], v[i])]
JudRun(f, a, v, n) == f[0] = a /\ \A i \in 1..n : f[i] = h2_on_field(f[i - 1], v[i])
LEMMA JudTurnsStep ==
    ASSUME NEW f, NEW a, NEW v, NEW n \in Nat, JudTurns(f, a, v, n)
    PROVE  JudRun(f, a, v, n)
<1> SUFFICES f[0] = a /\ \A i \in 1..n : f[i] = h2_on_field(f[i - 1], v[i])
  BY Zenon DEF JudRun
<1>1. \A i \in 0..n : f[i] = IF i = 0 THEN a ELSE h2_on_field(f[i - 1], v[i])
  BY Zenon DEF JudTurns
<1>2. 0 \in 0..n /\ \A i \in 1..n : i \in 0..n /\ i # 0
  OBVIOUS
<1> QED BY <1>1, <1>2, Zenon

LEMMA JudTurnsExist ==
    ASSUME NEW a, NEW v, NEW n \in Nat
    PROVE  \E f : JudTurns(f, a, v, n)
<1> DEFINE Bad == {k \in Nat : ~\E f : JudTurns(f, a, v, k)}
<1>1. Bad = {}
  <2> SUFFICES ASSUME Bad # {} PROVE FALSE
    BY Zenon
  <2>1. Bad \in SUBSET Nat
    BY Zenon
  <2>2. PICK k \in Bad : \A j \in Bad : k <= j
    <3> HIDE DEF Bad
    <3> QED BY <2>1, LeastNatural, Zenon
  <2>3. k # 0
    <3>1. JudTurns([i \in 0..0 |-> a], a, v, 0)
      BY DEF JudTurns
    <3> QED BY <3>1, <2>2, Zenon
  <2>4. k \in Nat /\ k - 1 \in Nat /\ k - 1 \notin Bad
    <3>1. k \in Nat
      BY Zenon
    <3> HIDE DEF Bad
    <3> QED BY <2>2, <2>3, <3>1
  <2>5. PICK f : JudTurns(f, a, v, k - 1)
    BY <2>4, Zenon
  <2> DEFINE g == [i \in 0..k |-> IF i = k THEN h2_on_field(f[k - 1], v[k]) ELSE f[i]]
  <2>6. \A i \in 0..k : g[i] = IF i = 0 THEN a ELSE h2_on_field(g[i - 1], v[i])
    <3> TAKE i \in 0..k
    <3>1. f[0] = a /\ \A j \in 1..(k - 1) : f[j] = h2_on_field(f[j - 1], v[j])
      <4> DEFINE m == k - 1
      <4>1. m \in Nat /\ JudTurns(f, a, v, m)
        BY <2>4, <2>5, Zenon
      <4> HIDE DEF Bad, m
      <4>2. JudRun(f, a, v, m)
        BY <4>1, JudTurnsStep, Zenon
      <4> QED BY <4>2, Zenon DEF m, JudRun
    <3>2. CASE i = k
      BY <3>2, <2>3, <2>4
    <3>3. CASE i = 0
      BY <3>1, <3>3, <2>3, Zenon
    <3>4. CASE i # k /\ i # 0
      <4>1. i \in 1..(k - 1) /\ i - 1 \in 0..k /\ i - 1 # k
        BY <3>4, <2>4
      <4> QED BY <4>1, <3>1, <3>4, Zenon
    <3> QED BY <3>2, <3>3, <3>4, Zenon
  <2>7. JudTurns(g, a, v, k)
    <3>1. g = [i \in 0..k |-> g[i]]
      BY Zenon
    <3> HIDE DEF g
    <3> QED BY <2>6, <3>1, Zenon DEF JudTurns
  <2> QED BY <2>4, <2>7, Zenon
<1> QED BY <1>1, Zenon

LEMMA JudTurnsEnd ==
    ASSUME NEW b, NEW v, Len(v) \in Nat
    PROVE  \E f : JudTurns(f, Judged0(b), v, Len(v)) /\ judged(b, v) = f[Len(v)]
<1> DEFINE g == CHOOSE f : JudTurns(f, Judged0(b), v, Len(v))
<1>1. JudTurns(g, Judged0(b), v, Len(v))
  <2>1. \E f : JudTurns(f, Judged0(b), v, Len(v))
    BY JudTurnsExist, Zenon
  <2> QED BY <2>1, Zenon
<1>2. judged(b, v) = g[Len(v)]
  BY Zenon DEF judged, JudTurns
<1> HIDE DEF g
<1> QED BY <1>1, <1>2, Zenon

FieldType == [n : DOMAIN Length, v : DOMAIN Length]
\* What the fields weigh, up to each of them.
Weighing(w, fs, n) ==
    /\ w \in [0..Len(fs) -> Nat] /\ w[0] = 0 /\ w[Len(fs)] = n
    /\ \A i \in 1..Len(fs) : w[i] = w[i - 1] + FieldSize(fs[i])
Weighs(fs, n) == \E w : Weighing(w, fs, n)
Decoded(x) ==
    /\ x = [d |-> x.d, fields |-> x.fields, list |-> x.list, seen |-> x.seen, ok |-> x.ok]
    /\ x.ok \in BOOLEAN
    /\ x.ok => /\ x.fields \in Seq(FieldType) /\ x.list \in Nat /\ x.list <= MAX_LIST
               /\ Weighs(x.fields, x.list)

LEMMA FieldSizeIs ==
    ASSUME NEW f \in FieldType
    PROVE  /\ Length[f.n] \in Nat /\ Length[f.v] \in Nat /\ ENTRY_HDR \in Nat /\ FieldSize(f) \in Nat
           /\ ENTRY_HDR + Length[f.n] + Length[f.v] <= FieldSize(f)
<1>1. f.n \in DOMAIN Length /\ f.v \in DOMAIN Length
  BY Zenon DEF FieldType
<1>2. Length[f.n] \in Nat /\ Length[f.v] \in Nat /\ ENTRY_HDR \in Nat /\ ENTRY_SIZE \in Nat /\ ENTRY_HDR <= ENTRY_SIZE
  BY <1>1, HpackAssumption, Zenon
<1> DEFINE a == Length[f.n]  b == Length[f.v]
<1>3. a \in Nat /\ b \in Nat /\ FieldSize(f) = a + b + ENTRY_SIZE
  BY <1>2, Zenon DEF FieldSize
<1> HIDE DEF a, b
<1>4. FieldSize(f) \in Nat /\ ENTRY_HDR + a + b <= FieldSize(f)
  BY <1>2, <1>3
<1> QED BY <1>2, <1>4, Zenon DEF a, b

LEMMA WeighsMore ==
    ASSUME NEW fs \in Seq(FieldType), NEW n \in Nat, Weighs(fs, n), NEW f \in FieldType
    PROVE  Append(fs, f) \in Seq(FieldType) /\ Weighs(Append(fs, f), n + FieldSize(f))
<1> DEFINE m == Len(fs)  gs == Append(fs, f)
<1>1. m \in Nat /\ gs \in Seq(FieldType) /\ Len(gs) = m + 1 /\ gs[m + 1] = f /\ \A i \in 1..m : gs[i] = fs[i]
  OBVIOUS
<1>2. PICK w : Weighing(w, fs, n)
  BY Zenon DEF Weighs
<1>3. w \in [0..m -> Nat] /\ w[0] = 0 /\ w[m] = n /\ \A i \in 1..m : w[i] = w[i - 1] + FieldSize(fs[i])
  BY <1>2, Zenon DEF Weighing
<1>4. FieldSize(f) \in Nat
  BY FieldSizeIs, Zenon
<1> DEFINE u == [i \in 0..(m + 1) |-> IF i = m + 1 THEN n + FieldSize(f) ELSE w[i]]
<1> HIDE DEF m, gs
<1>5. u \in [0..(m + 1) -> Nat] /\ u[0] = 0 /\ u[m + 1] = n + FieldSize(f) /\ \A i \in 0..m : u[i] = w[i]
  BY <1>1, <1>3, <1>4
<1> HIDE DEF u
<1>6. ASSUME NEW i \in 1..(m + 1)
      PROVE  u[i] = u[i - 1] + FieldSize(gs[i])
  <2>1. CASE i = m + 1
    <3>1. u[i - 1] = n
      BY <1>1, <1>3, <1>5, <2>1
    <3> QED BY <1>1, <1>5, <2>1, <3>1, Zenon
  <2>2. CASE i # m + 1
    <3>1. i \in 1..m /\ i \in 0..m /\ i - 1 \in 0..m
      BY <1>1, <2>2
    <3> QED BY <1>1, <1>3, <1>5, <3>1, Zenon
  <2> QED BY <2>1, <2>2, Zenon
<1>7. Weighing(u, gs, n + FieldSize(f))
  BY <1>1, <1>5, <1>6, Zenon DEF Weighing
<1> QED BY <1>1, <1>7, Zenon DEF Weighs, gs

LEMMA FailedIs ==
    ASSUME NEW x, Decoded(x)
    PROVE  Decoded(Failed(x))
<1> DEFINE y == Failed(x)  a == x.d  b == x.fields  n == x.list  m == x.seen  o == x.ok
<1>1. x = [d |-> a, fields |-> b, list |-> n, seen |-> m, ok |-> o]
  BY Zenon DEF Decoded
<1>2. y = [x EXCEPT !.ok = FALSE]
  BY Zenon DEF Failed
<1> HIDE DEF y, a, b, n, m, o
<1>3. y = [d |-> a, fields |-> b, list |-> n, seen |-> m, ok |-> FALSE]
  BY <1>1, <1>2, Zenon
<1>4. Decoded(y)
  BY <1>3, Zenon DEF Decoded
<1> QED BY <1>4, Zenon DEF y

LEMMA EmittedIs ==
    ASSUME NEW x, Decoded(x), x.ok, NEW f, NEW ins,
           f.n # "garbage" /\ f.v # "garbage" => f \in FieldType
    PROVE  Decoded(emitted(x, f, ins))
<1> DEFINE e == emitted(x, f, ins)  d == x.d  fs == x.fields  l == x.list
<1>1. x = [d |-> d, fields |-> fs, list |-> l, seen |-> x.seen, ok |-> TRUE]
  BY Zenon DEF Decoded
<1>2. fs \in Seq(FieldType) /\ l \in Nat /\ l <= MAX_LIST /\ Weighs(fs, l)
  BY Zenon DEF Decoded
<1> HIDE DEF d, fs, l
<1>3. CASE f.n = "garbage" \/ f.v = "garbage"
  <2> DEFINE g == Append(fs, f)  m == x.seen
             y == [x EXCEPT !.fields = Append(@, f)]
  <2>1. e = Failed(y)
    BY <1>3, Zenon DEF emitted
  <2>2. e = [y EXCEPT !.ok = FALSE]
    BY <2>1, Zenon DEF Failed
  <2>3. x = [d |-> d, fields |-> fs, list |-> l, seen |-> m, ok |-> TRUE] /\ y = [x EXCEPT !.fields = g]
    BY <1>1, Zenon DEF fs
  <2> HIDE DEF g, e, m, y
  <2>4. y = [d |-> d, fields |-> g, list |-> l, seen |-> m, ok |-> TRUE]
    BY <2>3, Zenon
  <2>5. e = [d |-> d, fields |-> g, list |-> l, seen |-> m, ok |-> FALSE]
    BY <2>2, <2>4, Zenon
  <2>6. Decoded(e)
    BY <2>5, Zenon DEF Decoded
  <2> QED BY <2>6, Zenon DEF e
<1>4. CASE ~(f.n = "garbage" \/ f.v = "garbage") /\ l + FieldSize(f) > MAX_LIST
  <2>1. e = Failed(x)
    BY <1>4, Zenon DEF emitted, l
  <2> QED BY <2>1, FailedIs, Zenon
<1>5. CASE ~(f.n = "garbage" \/ f.v = "garbage") /\ ~(l + FieldSize(f) > MAX_LIST)
  <2> DEFINE g == Append(fs, f)
             n == l + FieldSize(f)
             h == IF ins THEN insert(d, f.n, f.v) ELSE d
  <2>1. f \in FieldType
    BY <1>5, Zenon
  <2>2. g \in Seq(FieldType) /\ Weighs(g, n)
    BY <1>2, <2>1, WeighsMore, Zenon
  <2>3. n \in Nat /\ n <= MAX_LIST
    <3>1. l \in Nat /\ FieldSize(f) \in Nat
      BY <1>2, <2>1, FieldSizeIs, Zenon
    <3>2. MAX_LIST \in Nat
      BY Consts
    <3> HIDE DEF l
    <3> QED BY <1>5, <3>1, <3>2
  <2>4. e = [d |-> h, fields |-> g, list |-> n, seen |-> TRUE, ok |-> TRUE]
    <3>1. e = [x EXCEPT !.list = @ + FieldSize(f), !.fields = Append(@, f), !.seen = TRUE,
                        !.d = IF ins THEN insert(@, f.n, f.v) ELSE @]
      BY <1>5, Zenon DEF emitted, l
    <3>2. x.d = d /\ x.list = l /\ x.fields = fs
      BY Zenon DEF d, l, fs
    <3> HIDE DEF e
    <3>3. e = [x EXCEPT !.list = n, !.fields = g, !.seen = TRUE, !.d = h]
      BY <3>1, <3>2, Zenon
    <3> DEFINE m == x.seen
    <3>4. x = [d |-> d, fields |-> fs, list |-> l, seen |-> m, ok |-> TRUE]
      BY <1>1, Zenon
    <3> HIDE DEF n, g, h, m
    <3> QED BY <3>3, <3>4, Zenon
  <2> HIDE DEF g, n, h, e
  <2>5. Decoded(e)
    BY <2>2, <2>3, <2>4, Zenon DEF Decoded
  <2> QED BY <2>5, Zenon DEF e
<1> QED BY <1>3, <1>4, <1>5, Zenon

LEMMA EntryIs ==
    ASSUME NEW d, NEW i \in Nat, i > 0
    PROVE  LET f == get_entry(d, i)
           IN  /\ f = [n |-> f.n, v |-> f.v]
               /\ f.n \in DOMAIN Length \cup {"garbage"} /\ f.v \in DOMAIN Length \cup {"garbage"}
<1> DEFINE f == get_entry(d, i)
<1>1. CASE i <= Len(Static)
  <2>1. f = Static[i]
    BY <1>1, Zenon DEF get_entry
  <2> DEFINE D == DOMAIN Length  R == [n : D, v : D]
  <2>2. Static \in Seq(R)
    BY HpackAssumption, Zenon
  <2> HIDE DEF f, R
  <2>5. i \in 1..Len(Static)
    BY <1>1, <2>2
  <2>3. f \in R
    BY <2>1, <2>2, <2>5
  <2> USE DEF R
  <2> HIDE DEF D
  <2>4. f = [n |-> f.n, v |-> f.v] /\ f.n \in D /\ f.v \in D
    BY <2>3, Zenon
  <2> QED BY <2>4, Zenon DEF D, f
<1>2. CASE ~(i <= Len(Static))
  <2> DEFINE j == i - Len(Static) - 1
  <2>1. f = entry_at(d, j)
    BY <1>2, Zenon DEF get_entry
  <2>2. \A octets : Symbol(octets) \in DOMAIN Length \cup {"garbage"}
    BY Zenon DEF Symbol
  <2>3. \E a, b : entry_at(d, j) = [n |-> Symbol(a), v |-> Symbol(b)]
    BY Zenon DEF entry_at
  <2> HIDE DEF f
  <2>4. PICK a, b : f = [n |-> Symbol(a), v |-> Symbol(b)]
    BY <2>1, <2>3, Zenon
  <2> QED BY <2>2, <2>4 DEF f
<1> QED BY <1>1, <1>2, Zenon

LEMMA RepresentedIs ==
    ASSUME NEW x, Decoded(x), NEW r \in Representations
    PROVE  Decoded(represented(x, r))
<1> DEFINE e == represented(x, r)
           D == DOMAIN Length
<1>1. r.i \in Nat /\ r.n \in D /\ r.v \in D
  BY Zenon DEF Representations
<1>2. CASE ~x.ok
  BY <1>2, Zenon DEF represented
<1>3. CASE x.ok /\ r.t = "size"
  <2>1. CASE x.seen \/ r.m > TABLE
    <3>1. e = Failed(x)
      BY <1>3, <2>1, Zenon DEF represented
    <3> QED BY <3>1, FailedIs, Zenon
  <2>2. CASE ~(x.seen \/ r.m > TABLE)
    <3> DEFINE h == [evict_to(x.d, r.m) EXCEPT !.max = r.m, !.need_update = FALSE]
    <3>1. e = [x EXCEPT !.d = [evict_to(@, r.m) EXCEPT !.max = r.m, !.need_update = FALSE]]
      BY <1>3, <2>2, Zenon DEF represented
    <3>2. e = [x EXCEPT !.d = h]
      BY <3>1, Zenon
    <3> HIDE DEF h, e
    <3>3. e = [d |-> h, fields |-> x.fields, list |-> x.list, seen |-> x.seen, ok |-> x.ok]
      BY <3>2, Zenon DEF Decoded
    <3>4. Decoded(e)
      BY <3>3, Zenon DEF Decoded
    <3> QED BY <3>4, Zenon DEF e
  <2> QED BY <2>1, <2>2, Zenon
<1>4. CASE x.ok /\ r.t # "size" /\ x.d.need_update
  <2>1. e = Failed(x)
    BY <1>4, Zenon DEF represented
  <2> QED BY <2>1, FailedIs, Zenon
<1>5. CASE x.ok /\ r.t # "size" /\ ~x.d.need_update /\ r.t = "index"
  <2>1. CASE Found(x.d, r.i)
    <3> DEFINE f == get_entry(x.d, r.i)
    <3>1. e = emitted(x, f, FALSE)
      BY <1>5, <2>1, Zenon DEF represented
    <3>2. r.i > 0
      BY <1>1, <2>1, Zenon DEF Found
    <3>3. f = [n |-> f.n, v |-> f.v] /\ f.n \in D \cup {"garbage"} /\ f.v \in D \cup {"garbage"}
      BY <1>1, <3>2, EntryIs, Zenon
    <3> HIDE DEF f
    <3>4. f.n # "garbage" /\ f.v # "garbage" => f \in FieldType
      BY <3>3, Zenon DEF FieldType
    <3> QED BY <1>5, <3>1, <3>4, EmittedIs, Zenon
  <2>2. CASE ~Found(x.d, r.i)
    <3>1. e = Failed(x)
      BY <1>5, <2>2, Zenon DEF represented
    <3> QED BY <3>1, FailedIs, Zenon
  <2> QED BY <2>1, <2>2, Zenon
<1>6. CASE x.ok /\ r.t # "size" /\ ~x.d.need_update /\ r.t # "index" /\ r.i = 0
  <2> DEFINE f == [n |-> r.n, v |-> r.v]
  <2>1. e = emitted(x, f, r.ins)
    BY <1>6, Zenon DEF represented
  <2>2. f \in FieldType
    BY <1>1, Zenon DEF FieldType
  <2> HIDE DEF f
  <2> QED BY <1>6, <2>1, <2>2, EmittedIs, Zenon
<1>7. CASE x.ok /\ r.t # "size" /\ ~x.d.need_update /\ r.t # "index" /\ r.i # 0
  <2>1. CASE Found(x.d, r.i)
    <3> DEFINE g == get_entry(x.d, r.i)
               f == [n |-> g.n, v |-> r.v]
    <3>1. e = emitted(x, f, r.ins)
      BY <1>7, <2>1, Zenon DEF represented
    <3>2. r.i > 0
      BY <1>1, <2>1, Zenon DEF Found
    <3>3. g.n \in D \cup {"garbage"}
      BY <1>1, <3>2, EntryIs, Zenon
    <3> HIDE DEF g
    <3>4. f.n # "garbage" /\ f.v # "garbage" => f \in FieldType
      BY <1>1, <3>3, Zenon DEF FieldType
    <3> HIDE DEF f
    <3> QED BY <1>7, <3>1, <3>4, EmittedIs, Zenon
  <2>2. CASE ~Found(x.d, r.i)
    <3>1. e = Failed(x)
      BY <1>7, <2>2, Zenon DEF represented
    <3> QED BY <3>1, FailedIs, Zenon
  <2> QED BY <2>1, <2>2, Zenon
<1>8. x.ok \in BOOLEAN
  BY Zenon DEF Decoded
<1> QED BY <1>2, <1>3, <1>4, <1>5, <1>6, <1>7, Zenon

LEMMA DecodeIs ==
    ASSUME NEW d, NEW v \in Seq(Representations)
    PROVE  Decoded(hpack_decode(d, v))
<1> DEFINE n == Len(v)
<1>1. n \in Nat
  OBVIOUS
<1>2. PICK f : DecTurns(f, DecBegun(d), v, n) /\ hpack_decode(d, v) = DecEnded(f[n])
  BY <1>1, DecTurnsEnd, Zenon
<1> HIDE DEF n
<1>3. f[0] = DecBegun(d) /\ \A i \in 1..n : f[i] = represented(f[i - 1], v[i])
  <2>1. DecRun(f, DecBegun(d), v, n)
    BY <1>1, <1>2, DecTurnsStep, Zenon
  <2> QED BY <2>1, Zenon DEF DecRun
<1>4. Decoded(DecBegun(d))
  <2>1. <<>> \in Seq(FieldType) /\ Len(<<>>) = 0 /\ 0 <= MAX_LIST
    BY Consts
  <2>2. Weighing([i \in 0..0 |-> 0], <<>>, 0)
    BY DEF Weighing
  <2>3. Weighs(<<>>, 0)
    BY <2>2, Zenon DEF Weighs
  <2> QED BY <2>1, <2>3 DEF Decoded, DecBegun
<1> DEFINE Bad == {i \in 0..n : ~Decoded(f[i])}
<1>5. Bad = {}
  <2> SUFFICES ASSUME Bad # {} PROVE FALSE
    BY Zenon
  <2>1. Bad \in SUBSET Nat
    BY <1>1
  <2>2. PICK i \in Bad : \A j \in Bad : i <= j
    <3> HIDE DEF Bad
    <3> QED BY <2>1, LeastNatural, Zenon
  <2>3. i \in 1..n
    BY <1>1, <1>3, <1>4
  <2>4. i - 1 \in 0..n /\ i - 1 \notin Bad
    BY <1>1, <2>2, <2>3
  <2>5. Decoded(f[i - 1])
    BY <2>4, Zenon
  <2>6. v[i] \in Representations
    <3> HIDE DEF Representations
    <3> QED BY <2>3 DEF n
  <2>7. f[i] = represented(f[i - 1], v[i])
    BY <1>3, <2>3, Zenon
  <2> DEFINE g == f[i - 1]  r == v[i]
  <2>8. Decoded(g) /\ r \in Representations /\ f[i] = represented(g, r)
    BY <2>5, <2>6, <2>7, Zenon
  <2> HIDE DEF g, r
  <2>9. Decoded(f[i])
    BY <2>8, RepresentedIs, Zenon
  <2> QED BY <2>9, Zenon
<1>6. Decoded(f[n])
  <2>1. n \in 0..n
    BY <1>1
  <2> QED BY <1>5, <2>1, Zenon
<1> DEFINE x == f[n]
<1>7. Decoded(x) /\ hpack_decode(d, v) = IF x.d.need_update THEN Failed(x) ELSE x
  BY <1>2, <1>6, Zenon DEF DecEnded
<1> HIDE DEF x
<1>8. Decoded(Failed(x))
  BY <1>7, FailedIs, Zenon
<1> QED BY <1>7, <1>8, Zenon

JudgedFields == {"bad", "seen", "reg", "park", "status", "has", "cl", "parked", "trailer"}
JudgedShape(j) == j = [x \in JudgedFields |-> j[x]]
JudgedSo(j, n) ==
    JudgedShape(j) /\ j.status \in Nat /\ j.cl \in Int /\ j.parked \in Nat /\ j.parked <= n

LEMMA OnFieldIs ==
    ASSUME NEW j, NEW n \in Nat, JudgedSo(j, n), NEW f \in FieldType
    PROVE  JudgedSo(h2_on_field(j, f), n + FieldSize(f))
<1> DEFINE h == h2_on_field(j, f)  p == j.parked + ENTRY_HDR + Length[f.n] + Length[f.v]
           q == Status(f.v)  r == ContentLength(f.v)  m == n + FieldSize(f)
           v4 == Status(f.v) >= 200
           bad == [j EXCEPT !.bad = TRUE]
           reg == [j EXCEPT !.reg = TRUE]
           put == [reg EXCEPT !.parked = p]
           sta == [j EXCEPT !.seen = TRUE, !.status = q, !.park = v4]
           len == [put EXCEPT !.cl = r, !.has = TRUE]
<1>1. JudgedShape(j) /\ j.status \in Nat /\ j.cl \in Int /\ j.parked \in Nat /\ j.parked <= n
  BY Zenon DEF JudgedSo
<1>2. /\ q \in Nat
      /\ r \in Int
  BY DEF Status, ContentLength
<1>3. m \in Nat /\ p \in Nat /\ p <= m /\ j.parked <= m
  <2> DEFINE a == Length[f.n]  b == Length[f.v]  z == FieldSize(f)  u8 == j.parked
  <2>1. a \in Nat /\ b \in Nat /\ ENTRY_HDR \in Nat /\ z \in Nat /\ ENTRY_HDR + a + b <= z
    BY FieldSizeIs, Zenon
  <2>3. u8 \in Nat /\ u8 <= n
    BY <1>1, Zenon
  <2> HIDE DEF a, b, z, u8
  <2>2. u8 + ENTRY_HDR + a + b \in Nat /\ u8 + ENTRY_HDR + a + b <= n + z /\ n + z \in Nat /\ u8 <= n + z
    BY <2>1, <2>3
  <2> QED BY <2>1, <2>2, Zenon DEF a, b, z, u8
<1>4. h \in {j, bad, reg, put, sta, len}
  <2>1. reg.parked + ENTRY_HDR + Length[f.n] + Length[f.v] = p
    <3>1. reg.parked = j.parked
      BY <1>1, Zenon DEF JudgedShape, JudgedFields
    <3> QED BY <3>1, Zenon
  <2>2. [reg EXCEPT !.parked = @ + ENTRY_HDR + Length[f.n] + Length[f.v]] = put
    BY <2>1, Zenon
  <2> QED BY <2>2, Zenon DEF h2_on_field
<1> HIDE DEF q, r, p, v4, h, m
<1>6. JudgedSo(bad, m)
  BY <1>1, <1>3, Zenon DEF JudgedSo, JudgedShape, JudgedFields
<1>7. JudgedSo(reg, m)
  BY <1>1, <1>3, Zenon DEF JudgedSo, JudgedShape, JudgedFields
<1>8. JudgedSo(sta, m)
  BY <1>1, <1>2, <1>3, Zenon DEF JudgedSo, JudgedShape, JudgedFields
<1> HIDE DEF reg
<1>9. JudgedSo(put, m)
  BY <1>3, <1>7, Zenon DEF JudgedSo, JudgedShape, JudgedFields
<1> HIDE DEF put
<1>10. JudgedSo(len, m)
  BY <1>2, <1>9, Zenon DEF JudgedSo, JudgedShape, JudgedFields
<1>11. JudgedSo(j, m)
  BY <1>1, <1>3, Zenon DEF JudgedSo
<1> HIDE DEF bad, sta, len
<1>12. JudgedSo(h, m)
  BY <1>4, <1>6, <1>7, <1>8, <1>9, <1>10, <1>11, Zenon
<1> QED BY <1>12, Zenon DEF h, m

LEMMA JudgedIs ==
    ASSUME NEW b, NEW v \in Seq(FieldType), NEW n \in Nat, Weighs(v, n)
    PROVE  JudgedSo(judged(b, v), n)
<1> DEFINE m == Len(v)
<1>1. m \in Nat
  OBVIOUS
<1>2. PICK f : JudTurns(f, Judged0(b), v, m) /\ judged(b, v) = f[m]
  BY <1>1, JudTurnsEnd, Zenon
<1>3. PICK w : Weighing(w, v, n)
  BY Zenon DEF Weighs
<1> HIDE DEF m
<1>4. f[0] = Judged0(b) /\ \A i \in 1..m : f[i] = h2_on_field(f[i - 1], v[i])
  <2>1. JudRun(f, Judged0(b), v, m)
    BY <1>1, <1>2, JudTurnsStep, Zenon
  <2> QED BY <2>1, Zenon DEF JudRun
<1>5. w \in [0..m -> Nat] /\ w[0] = 0 /\ w[m] = n /\ \A i \in 1..m : w[i] = w[i - 1] + FieldSize(v[i])
  BY <1>3, Zenon DEF Weighing, m
<1>6. JudgedSo(f[0], w[0])
  <2> DEFINE j == f[0]  t == b.trailer
  <2>1. j = [bad |-> FALSE, seen |-> FALSE, reg |-> FALSE, park |-> FALSE, status |-> 0,
             has |-> FALSE, cl |-> 0, parked |-> 0, trailer |-> t]
    BY <1>4, Zenon DEF Judged0
  <2> HIDE DEF j, t
  <2>2. JudgedSo(j, 0)
    BY <2>1 DEF JudgedSo, JudgedShape, JudgedFields
  <2> QED BY <1>5, <2>2, Zenon DEF j
<1> DEFINE Bad == {i \in 0..m : ~JudgedSo(f[i], w[i])}
<1>7. Bad = {}
  <2> SUFFICES ASSUME Bad # {} PROVE FALSE
    BY Zenon
  <2>1. Bad \in SUBSET Nat
    BY <1>1
  <2>2. PICK i \in Bad : \A j \in Bad : i <= j
    <3> HIDE DEF Bad
    <3> QED BY <2>1, LeastNatural, Zenon
  <2>3. i \in 1..m
    BY <1>1, <1>6, <2>2
  <2>4. i - 1 \in 0..m /\ i - 1 \notin Bad
    BY <1>1, <2>2, <2>3
  <2>5. JudgedSo(f[i - 1], w[i - 1])
    BY <2>4, Zenon
  <2>6. v[i] \in FieldType
    <3> HIDE DEF FieldType
    <3> QED BY <2>3 DEF m
  <2> DEFINE g == f[i - 1]  r == v[i]  a == w[i - 1]
  <2>7. JudgedSo(g, a) /\ r \in FieldType /\ f[i] = h2_on_field(g, r) /\ w[i] = a + FieldSize(r) /\ a \in Nat
    BY <1>4, <1>5, <2>3, <2>4, <2>5, <2>6, Zenon
  <2> HIDE DEF g, r, a
  <2>8. JudgedSo(f[i], w[i])
    BY <2>7, OnFieldIs, Zenon
  <2> QED BY <2>8, Zenon
<1>8. JudgedSo(f[m], w[m])
  <2>1. m \in 0..m
    BY <1>1
  <2> QED BY <1>7, <2>1, Zenon
<1> QED BY <1>2, <1>5, <1>8, Zenon

\* Only the slot k, its stream and what no other slot depends on have changed.
LEMMA AsideHere ==
    ASSUME NEW d, NEW k \in Slots, NEW e, e.s[k].id = d.s[k].id,
           \A j \in Slots : j # k => e.s[j] = d.s[j],
           \A i \in Ids : i # d.s[k].id => e.g.st[i] = d.g.st[i],
           e.g.believed = d.g.believed, e.g.low = d.g.low,
           e.fs = 0, d.fs = 0, e.b.s \in {0, k}, d.b.s \in {0, k},
           Same(e, d, {"s", "g", "b", "dec", "idle", "f", "pos", "dat", "fs", "fault", "tx", "cpend",
                       "crwin", "cwin", "fh", "got_settings", "err"})
    PROVE  Aside(e, d, k)
<1>1. \A j \in Slots : j # k => Part(e, j) = Part(d, j) /\ Ending(e, j) = Ending(d, j)
  BY Consts DEF Part, Ending
<1>2. /\ e.p_win = d.p_win /\ e.next_id = d.next_id /\ e.goaway = d.goaway /\ e.last_id = d.last_id
      /\ e.enc = d.enc /\ e.eof = d.eof /\ e.rx = d.rx
  BY Zenon DEF Same, Fields
<1> QED BY <1>1, <1>2, Zenon DEF Aside

\* The stream whose field block is whole.
BlockSlot(d, k) ==
    LET s == d.s[k]  st == d.g.st[s.id]  b == d.b
    IN  /\ s \in SlotType /\ st \in StreamType /\ b \in BlockType
        /\ s.id \in Ids /\ s.id < d.next_id /\ s.err = "OK" /\ st.whole /\ st.retry
        /\ ~Has(s, "RST") /\ ~Has(s, "RECV_END") /\ (b.trailer <=> Has(s, "FINAL"))
        /\ s.hdr <= b.pre /\ (b.es <=> st.es)
        /\ st.ph = (IF Has(s, "SENT_END") THEN "ended" ELSE "open")
        /\ Counting(s, st, Idle0) /\ Granted(s, st, d.p_win) /\ Paid(s)
LEMMA BlockSlotIs ==
    ASSUME NEW d, Good(d, 0), d.err = "OK", d.fs = 0, NEW k \in Slots, d.b.s = k
    PROVE  BlockSlot(d, k)
<1> DEFINE s == d.s[k]  id == s.id  st == d.g.st[id]  b == d.b
<1>1. /\ Kept(d) /\ Typed(d) /\ Conn(d) /\ SlotOK(d, k) /\ Owing(d, 0) /\ k # 0
  BY Consts, Zenon DEF Good, Kept
<1>2. /\ id # 0 /\ ~Has(s, "RST") /\ ~Has(s, "RECV_END") /\ (b.trailer <=> Has(s, "FINAL"))
      /\ s.hdr <= b.pre /\ (b.es <=> st.es)
  BY <1>1, Zenon DEF Conn, InBlock
<1>3. /\ id \in Ids /\ id < d.next_id /\ Closing(s, st, Part(d, k).es \/ Ending(d, k))
      /\ Counting(s, st, Part(d, k)) /\ Granted(s, st, d.p_win)
  BY <1>1, <1>2, Zenon DEF SlotOK
<1>4. Part(d, k) = Idle0
  BY <1>1, Zenon DEF Part
<1>5. s \in SlotType /\ st \in StreamType /\ b \in BlockType
  BY <1>1, <1>3, SlotTyped, StreamTyped, Zenon DEF Typed
<1>6. st.whole /\ st.retry /\ Paid(s)
  BY <1>1, <1>3, Zenon DEF Kept, Owing
<1>7. s.err = "OK" /\ st.ph = (IF Has(s, "SENT_END") THEN "ended" ELSE "open")
  BY <1>2, <1>3, Zenon DEF Closing
<1> HIDE DEF s, st, b, id
<1>8. /\ s = d.s[k] /\ st = d.g.st[s.id] /\ b = d.b /\ id = s.id
  BY Zenon DEF s, st, b, id
<1> QED BY <1>2, <1>3, <1>4, <1>5, <1>6, <1>7, <1>8, Zenon DEF BlockSlot

\* The connection when the decoder has run over a block.
Decoding(d) ==
    /\ Good(d, 0) /\ d.err = "OK" /\ d.fs = 0 /\ d.f.t \in {"HEADERS", "CONT"} /\ d.tx + 3 <= TX
Closed0(q, d) ==
    /\ Typed(q) /\ Kept(q) /\ Same(q, d, {"b", "dec", "idle"}) /\ q.b = Block0
LEMMA Block0Is == Block0 \in BlockType /\ Block0.s = 0 /\ ~Block0.in
<1>1. 0 \in 0..N
  BY Consts
<1>2. <<>> \in Seq(Representations)
  OBVIOUS
<1> HIDE DEF Representations
<1> QED BY <1>1, <1>2, Zenon DEF Block0, BlockType
LEMMA Closed0Says ==
    ASSUME NEW d, Decoding(d), NEW q, Closed0(q, d)
    PROVE  /\ q.s = d.s /\ q.g = d.g /\ q.err = d.err /\ q.tx = d.tx /\ q.f = d.f /\ q.fs = 0
           /\ q.p_win = d.p_win /\ q.cpend = d.cpend /\ q.crwin = d.crwin /\ q.fault = d.fault
           /\ q.eof = d.eof /\ q.rx = d.rx /\ q.fh = d.fh /\ q.goaway = d.goaway /\ q.last_id = d.last_id
           /\ q.next_id = d.next_id /\ q.enc = d.enc /\ q.b.s = 0 /\ ~q.b.in /\ q.pos = d.pos
           /\ q.cpend < CREDIT /\ q.tx < TX /\ q.tx <= TX /\ ~q.fault /\ q.g.wire /\ q.tx \in Nat
           /\ Told(q) /\ Named(q, d) /\ Taking(q) /\ InBlock(q)
<1>1. /\ q.s = d.s /\ q.g = d.g /\ q.err = d.err /\ q.tx = d.tx /\ q.f = d.f /\ q.fs = d.fs
      /\ q.p_win = d.p_win /\ q.cpend = d.cpend /\ q.crwin = d.crwin /\ q.fault = d.fault
      /\ q.eof = d.eof /\ q.rx = d.rx /\ q.fh = d.fh /\ q.goaway = d.goaway /\ q.last_id = d.last_id
      /\ q.next_id = d.next_id /\ q.enc = d.enc /\ q.b = Block0 /\ q.pos = d.pos
  BY Zenon DEF Closed0, Same, Fields
<1>2. d.fs = 0 /\ d.f.t # "DATA" /\ Kept(d) /\ Conn(d) /\ Owing(d, 0) /\ d.tx + 3 <= TX
  BY Zenon DEF Decoding, Good
<1>3. q.tx \in Nat /\ TX \in Nat
  BY Consts, Zenon DEF Closed0, Typed, Simple
<1>4. q.tx < TX /\ q.tx <= TX
  BY <1>1, <1>2, <1>3
<1>5. q.b.s = 0 /\ ~q.b.in
  BY <1>1, Block0Is, Zenon
<1>6. Told(q)
  BY <1>1, <1>2, Zenon DEF Conn, Told
<1>7. ~q.fault /\ q.g.wire /\ Named(q, d) /\ Taking(q) /\ InBlock(q)
  BY <1>1, <1>2, <1>5, Zenon DEF Kept, Named, Taking, InBlock
<1>8. q.cpend < CREDIT
  BY <1>1, <1>2, Zenon DEF Owing
<1> QED BY <1>1, <1>2, <1>3, <1>4, <1>5, <1>6, <1>7, <1>8, Zenon

\* A block that breaks the rules: what it parked is taken back, the stream is reset.
BadSlot(s, p) == [s EXCEPT !.rlen = p]
LEMMA BadSlotIs ==
    ASSUME NEW s \in SlotType, NEW p \in Nat
    PROVE  LET t == BadSlot(s, p)
           IN  /\ t \in SlotType /\ t.rlen = p
               /\ t.id = s.id /\ t.hdr = s.hdr /\ t.swin = s.swin
               /\ t.err = s.err /\ t.fl = s.fl /\ t.rwin = s.rwin /\ t.pend = s.pend
  BY Zenon DEF BadSlot, SlotType
LEMMA BlockFails ==
    ASSUME NEW d, Decoding(d), NEW k \in Slots, d.b.s = k, NEW q, Closed0(q, d)
    PROVE  LET r == [q EXCEPT !.s[k].rlen = d.b.pre, !.g.extra = @ + d.b.pre - d.s[k].rlen]
           IN  EndDone(h2_stream_err(r, k), d)
<1> DEFINE s == d.s[k]  id == s.id  st == d.g.st[id]  p == d.b.pre  n == q.g.extra + p - s.rlen
           t == BadSlot(s, p)
           r == [q EXCEPT !.s[k].rlen = p, !.g.extra = @ + p - s.rlen]
           e == h2_stream_err(r, k)
<1>1. /\ q.s = d.s /\ q.g = d.g /\ q.err = d.err /\ q.tx = d.tx /\ q.f = d.f /\ q.fs = 0
      /\ q.p_win = d.p_win /\ q.cpend = d.cpend /\ q.crwin = d.crwin /\ q.fault = d.fault
      /\ q.eof = d.eof /\ q.rx = d.rx /\ q.fh = d.fh /\ q.goaway = d.goaway /\ q.last_id = d.last_id
      /\ q.next_id = d.next_id /\ q.enc = d.enc /\ q.b.s = 0 /\ ~q.b.in
      /\ q.cpend < CREDIT /\ q.tx < TX /\ q.tx <= TX /\ ~q.fault /\ q.g.wire /\ q.tx \in Nat
      /\ Told(q)
  BY Closed0Says
<1>2. Typed(q) /\ Shape(q) /\ PastTyped(q.g) /\ Simple(q) /\ q.s \in [Slots -> SlotType]
      /\ Same(q, d, {"b", "dec", "idle"})
  BY Zenon DEF Closed0, Typed
<1>3. Good(d, 0) /\ d.err = "OK" /\ d.fs = 0 /\ Typed(d)
  BY Zenon DEF Decoding, Good, Kept
<1>4. BlockSlot(d, k)
  BY <1>3, BlockSlotIs, Zenon
<1>5. /\ s \in SlotType /\ d.b \in BlockType
      /\ id \in Ids /\ id < d.next_id /\ s.err = "OK" /\ st.whole /\ st.retry
      /\ ~Has(s, "RST") /\ ~Has(s, "RECV_END") /\ s.hdr <= p
      /\ st.ph = (IF Has(s, "SENT_END") THEN "ended" ELSE "open")
      /\ Granted(s, st, d.p_win)
  BY <1>4, Zenon DEF BlockSlot
<1>6. p \in Nat /\ s.rlen \in Nat /\ q.g.extra \in Int /\ n \in Int /\ s.hdr \in Nat
  <2> DEFINE b == d.b
  <2>1. b \in BlockType
    BY <1>5, Zenon
  <2> HIDE DEF b, Representations
  <2>2. b.pre \in Nat
    BY <2>1, Zenon DEF BlockType
  <2>3. s.rlen \in Nat /\ s.hdr \in Nat
    BY <1>5, Zenon DEF SlotType
  <2>4. q.g.extra \in Int
    BY <1>2, Zenon DEF PastTyped
  <2> QED BY <2>2, <2>3, <2>4 DEF b
<1> HIDE DEF t
<1>7. /\ t \in SlotType /\ t.rlen = p
      /\ t.id = s.id /\ t.hdr = s.hdr /\ t.swin = s.swin
      /\ t.err = s.err /\ t.fl = s.fl /\ t.rwin = s.rwin /\ t.pend = s.pend
  BY <1>5, <1>6, BadSlotIs, Zenon DEF t
<1>8. /\ Shape(r) /\ Same(r, q, {"s", "g"}) /\ SlotBecomes(r, q, k, t)
      /\ r.g = [q.g EXCEPT !.extra = n]
  <2>1. Shape(r) /\ Same(r, q, {"s", "g"})
    BY <1>2, Zenon DEF Shape, Same, Fields
  <2>2. r.s = [q.s EXCEPT ![k].rlen = p]
    BY <1>2, Zenon DEF Shape, Fields
  <2>3. r.g = [q.g EXCEPT !.extra = @ + p - s.rlen]
    BY <1>2, Zenon DEF Shape, Fields
  <2>4. q.s[k] = s
    BY <1>1, Zenon
  <2> HIDE DEF r, s
  <2>5. r.s = [q.s EXCEPT ![k] = t]
    BY <1>2, <2>2, <2>4, Zenon DEF t, BadSlot
  <2> QED BY <2>1, <2>3, <2>5, Zenon DEF SlotBecomes
<1> HIDE DEF r, n, s, st, id, p
<1>9. r.s \in [Slots -> SlotType] /\ r.s[k] = t /\ \A j \in Slots : j # k => r.s[j] = d.s[j]
  BY <1>1, <1>2, <1>7, <1>8, SlotChanged
<1>10. PastTyped(r.g) /\ r.g.st = d.g.st /\ r.g.extra = n /\ r.g.wire = d.g.wire
       /\ r.g.believed = d.g.believed /\ r.g.low = d.g.low
  <2> DEFINE g == q.g  h == r.g
  <2>1. PastTyped(g) /\ h = [g EXCEPT !.extra = n] /\ n \in Int /\ d.g = g
    BY <1>1, <1>2, <1>6, <1>8, Zenon
  <2> HIDE DEF g, h
  <2>2. h = [x \in Past |-> h[x]] /\ h.extra = n /\ \A x \in Past \ {"extra"} : h[x] = g[x]
    BY <2>1, Zenon DEF PastTyped, Past
  <2>3. h.st = g.st /\ h.wire = g.wire /\ h.believed = g.believed /\ h.low = g.low
    BY <2>2, Zenon DEF Past
  <2>4. PastTyped(h)
    BY <2>1, <2>2, <2>3, Zenon DEF PastTyped
  <2> QED BY <2>1, <2>2, <2>3, <2>4, Zenon DEF h
<1>11. /\ r.err = q.err /\ r.tx = q.tx /\ r.f = q.f /\ r.fs = q.fs
       /\ r.p_win = q.p_win /\ r.cpend = q.cpend /\ r.crwin = q.crwin /\ r.fault = q.fault
       /\ r.eof = q.eof /\ r.rx = q.rx /\ r.fh = q.fh /\ r.goaway = q.goaway /\ r.last_id = q.last_id
       /\ r.next_id = q.next_id /\ r.enc = q.enc /\ r.b = q.b
  BY <1>8, Zenon DEF Same, Fields
<1>12. Typed(r)
  <2>1. Simple(r)
    BY <1>2, <1>8, Zenon DEF Simple, Same, Fields
  <2>2. Same(r, q, Scalars \cup {"s", "g"})
    BY <1>8, Zenon DEF Same, Scalars
  <2> QED BY <1>2, <1>8, <1>9, <1>10, <2>1, <2>2, TypedWith, Zenon
<1>13. Aside(r, d, k)
  <2>1. Same(r, d, {"s", "g", "b", "dec", "idle", "f", "pos", "dat", "fs", "fault", "tx", "cpend",
                    "crwin", "cwin", "fh", "got_settings", "err"})
    BY <1>2, <1>8, Zenon DEF Same, Fields
  <2>2. r.s[k].id = d.s[k].id
    BY <1>7, <1>9, Zenon DEF s
  <2>3. r.fs = 0 /\ r.b.s \in {0, k} /\ d.b.s \in {0, k}
    BY <1>1, <1>11, Zenon
  <2> QED BY <1>3, <1>9, <1>10, <2>1, <2>2, <2>3, AsideHere, Zenon
<1>14. Resettable(r, k)
  <2>1. r.s[k] = t /\ r.g.st[t.id] = st /\ r.p_win = d.p_win /\ r.tx < TX
    BY <1>1, <1>7, <1>9, <1>10, <1>11, Zenon DEF st, id
  <2>2. ~Has(t, "RST") /\ ~BothEnds(t) /\ ~Has(t, "RECV_END") /\ t.hdr <= t.rlen /\ t.err # "RETRY"
        /\ Granted(t, st, d.p_win) /\ st.ph \in {"open", "ended"}
    BY <1>5, <1>7, Zenon DEF Has, BothEnds, Granted
  <2> QED BY <1>5, <2>1, <2>2, Zenon DEF Resettable
<1>15. Books(r, k) = Books(d, k)
  <2>1. Part(r, k) = Idle0 /\ Part(d, k) = Idle0
    BY <1>1, <1>3, <1>11, Consts, Zenon DEF Part
  <2> DEFINE a == d.crwin  b == d.cpend  z == d.g.extra  h == s.hdr  l == s.rlen
  <2>2. Books(r, k) = a + b + (p - h) + 0 - 0 - (z + p - l)
    BY <1>1, <1>7, <1>9, <1>10, <1>11, <2>1 DEF Books, Idle0, Rest, n
  <2>3. Books(d, k) = a + b + (l - h) + 0 - 0 - z
    BY <2>1 DEF Books, Idle0, Rest, s
  <2>4. a \in Int /\ b \in Int /\ z \in Int /\ h \in Int /\ l \in Int
    BY <1>3, <1>6 DEF Typed, Simple, PastTyped
  <2> HIDE DEF a, b, z, h, l
  <2> QED BY <1>6, <2>2, <2>3, <2>4
<1>16. Told(r)
  BY <1>1, <1>10, <1>11 DEF Told
<1>17. Failing(r, d, k, 0)
  <2>1. r.g.wire /\ ~r.fault /\ r.tx <= TX /\ r.fs = 0 /\ r.b.s = 0
        /\ (r.b.in => r.f.t \in {"none", "HEADERS", "CONT"})
        /\ (d.g.st[d.s[k].id].unproc => r.g.st[d.s[k].id].unproc)
        /\ (0 = 0 /\ r.f.t # "DATA" => r.cpend < CREDIT)
    BY <1>1, <1>10, <1>11, Zenon
  <2> QED BY <1>12, <1>13, <1>14, <1>15, <1>16, <2>1, Zenon DEF Failing
<1>18. FailedDone(e, r, k, 0)
  <2>1. d.s[k].id # 0 /\ 0 \in {0, k, 0}
    BY <1>5, Consts, Zenon DEF id, s
  <2> QED BY <1>3, <1>17, <2>1, FailedKeeps, Zenon
<1> HIDE DEF e
<1>19. /\ Good(e, 0) /\ Same(e, r, {"s", "g", "fault", "tx"}) /\ e.tx <= r.tx + 1
       /\ SlotBecomes(e, r, k, FailedSlot(r.s[k]))
  BY <1>18, Zenon DEF FailedDone
<1>20. Named(e, d)
  <2> DEFINE f == FailedSlot(t)
  <2>1. f \in SlotType /\ f.id = t.id
    BY <1>7, FailedSlotIs, Zenon
  <2> HIDE DEF f
  <2>2. e.s[k] = f /\ \A j \in Slots : j # k => e.s[j] = r.s[j]
    BY <1>9, <1>12, <1>19, <2>1, SlotChanged DEF f
  <2> QED BY <1>7, <1>9, <2>1, <2>2, Zenon DEF Named, s
<1>21. e.eof = d.eof /\ e.rx = d.rx /\ e.fh = d.fh /\ e.fs = 0 /\ e.cpend < CREDIT
  BY <1>1, <1>11, <1>19 DEF Same, Fields
<1>22. e.tx <= d.tx + 3
  <2>1. e.tx \in Nat
    BY <1>19, Zenon DEF Good, Kept, Typed, Simple
  <2> QED BY <1>1, <1>11, <1>19, <2>1
<1> QED BY <1>19, <1>20, <1>21, <1>22, Zenon DEF EndDone, e, r, p, s

\* A block that leaves its stream open.
SameStream(t, s) ==
    /\ t.id = s.id /\ t.swin = s.swin /\ t.err = s.err /\ t.pend = s.pend /\ Rest(t) = Rest(s)
    /\ Has(t, "RST") = Has(s, "RST") /\ Has(t, "RECV_END") = Has(s, "RECV_END")
    /\ Has(t, "SENT_END") = Has(s, "SENT_END")
LEMMA BlockLeaves ==
    ASSUME NEW d, Decoding(d), NEW k \in Slots, d.b.s = k, ~d.b.es, NEW q, Closed0(q, d),
           NEW t \in SlotType, NEW e, SlotIs(e, q, k, t), Same(e, q, {"s"}),
           SameStream(t, d.s[k]), Counting(t, d.g.st[t.id], Idle0)
    PROVE  EndDone(e, d)
<1> DEFINE s == d.s[k]  id == s.id  st == d.g.st[id]
<1>1. /\ q.s = d.s /\ q.g = d.g /\ q.err = d.err /\ q.tx = d.tx /\ q.f = d.f /\ q.fs = 0
      /\ q.p_win = d.p_win /\ q.cpend = d.cpend /\ q.crwin = d.crwin /\ q.fault = d.fault
      /\ q.eof = d.eof /\ q.rx = d.rx /\ q.fh = d.fh /\ q.goaway = d.goaway /\ q.last_id = d.last_id
      /\ q.next_id = d.next_id /\ q.enc = d.enc /\ q.b.s = 0 /\ ~q.b.in
      /\ q.cpend < CREDIT /\ q.tx < TX /\ q.tx <= TX /\ ~q.fault /\ q.g.wire /\ q.tx \in Nat
      /\ Told(q)
  BY Closed0Says
<1>2. Good(d, 0) /\ d.err = "OK" /\ d.fs = 0 /\ Typed(d)
  BY Zenon DEF Decoding, Good, Kept
<1>3. BlockSlot(d, k)
  BY <1>2, BlockSlotIs, Zenon
<1>4. /\ s \in SlotType
      /\ id \in Ids /\ id < d.next_id /\ s.err = "OK" /\ st.whole /\ st.retry /\ ~st.es
      /\ ~Has(s, "RST") /\ ~Has(s, "RECV_END")
      /\ st.ph = (IF Has(s, "SENT_END") THEN "ended" ELSE "open")
      /\ Granted(s, st, d.p_win) /\ Paid(s)
  BY <1>3, Zenon DEF BlockSlot
<1>5. /\ t.id = id /\ t.swin = s.swin /\ t.err = s.err /\ t.pend = s.pend /\ Rest(t) = Rest(s)
      /\ Has(t, "RST") = Has(s, "RST") /\ Has(t, "RECV_END") = Has(s, "RECV_END")
      /\ Has(t, "SENT_END") = Has(s, "SENT_END")
  BY Zenon DEF SameStream
<1>6. Typed(e) /\ e.s[k] = t /\ \A j \in Slots : j # k => e.s[j] = d.s[j]
  BY <1>1, Zenon DEF SlotIs
<1>7. /\ e.g = d.g /\ e.err = d.err /\ e.tx = d.tx /\ e.f = d.f /\ e.fs = 0
      /\ e.p_win = d.p_win /\ e.cpend = d.cpend /\ e.crwin = d.crwin /\ e.fault = d.fault
      /\ e.eof = d.eof /\ e.rx = d.rx /\ e.fh = d.fh /\ e.goaway = d.goaway /\ e.last_id = d.last_id
      /\ e.next_id = d.next_id /\ e.enc = d.enc /\ e.b = q.b
  BY <1>1, Zenon DEF Same, Fields
<1> HIDE DEF s, st, id
<1>8. Aside(e, d, k)
  <2>1. Same(e, d, {"s", "g", "b", "dec", "idle", "f", "pos", "dat", "fs", "fault", "tx", "cpend",
                    "crwin", "cwin", "fh", "got_settings", "err"})
    BY Zenon DEF Closed0, Same, Fields
  <2>2. e.s[k].id = d.s[k].id
    BY <1>5, <1>6, Zenon DEF id, s
  <2>3. e.fs = 0 /\ e.b.s \in {0, k} /\ d.b.s \in {0, k}
    BY <1>1, <1>7, Zenon
  <2> QED BY <1>2, <1>6, <1>7, <2>1, <2>2, <2>3, AsideHere, Zenon
<1>9. SlotOK(e, k)
  <2>1. Part(e, k) = Idle0 /\ e.s[k] = t /\ e.g.st[t.id] = st /\ d.g.st[t.id] = st
    BY <1>5, <1>6, <1>7, Consts, Zenon DEF Part, st
  <2>2. Closing(t, st, Part(e, k).es \/ Ending(e, k))
    BY <1>4, <1>5, Zenon DEF Closing
  <2>3. Granted(t, st, e.p_win)
    BY <1>4, <1>5, <1>7, Zenon DEF Granted
  <2> QED BY <1>4, <1>5, <1>7, <2>1, <2>2, <2>3, Zenon DEF SlotOK
<1>10. Books(e, k) = Books(d, k)
  <2>1. Part(e, k) = Part(d, k)
    BY <1>2, <1>7, Consts, Zenon DEF Part
  <2>2. Rest(e.s[k]) = Rest(d.s[k])
    BY <1>5, <1>6, Zenon DEF s
  <2> QED BY <1>7, <2>1, <2>2, Zenon DEF Books
<1>11. Paid(e.s[k])
  BY <1>4, <1>5, <1>6, Zenon DEF Paid
<1>12. Taking(e) /\ InBlock(e) /\ Told(e)
  BY <1>1, <1>7, ZenonT(40) DEF Taking, InBlock, Told
<1>13. LET v == e.g.st[d.s[k].id]
       IN  /\ v.whole /\ v.retry /\ (d.g.st[d.s[k].id].unproc => v.unproc)
           /\ e.s[k].err = "RETRY" => v.unproc
  BY <1>4, <1>5, <1>6, <1>7, Zenon DEF id, s, st
<1>14. GoesOn(e, d, k)
  BY <1>1, <1>7, <1>9, <1>10, <1>11, <1>12, Zenon DEF GoesOn
<1>15. Good(e, 0)
  <2>1. d.s[k].id # 0
    BY <1>4, Consts, Zenon DEF id, s
  <2>2. e.g.wire /\ ~e.fault /\ e.tx <= TX
    BY <1>1, <1>7, Zenon
  <2>3. Remembers(e, d, k)
    BY <1>13, Zenon DEF Remembers
  <2> QED BY <1>2, <1>6, <1>8, <1>14, <2>1, <2>2, <2>3, OneSlotPaid, Zenon
<1>16. Named(e, d)
  BY <1>5, <1>6, Zenon DEF Named, id, s
<1>17. e.tx <= d.tx + 3
  BY <1>1, <1>7
<1> QED BY <1>1, <1>7, <1>15, <1>16, <1>17, Zenon DEF EndDone

\* The response is there: its head is what the block parked.
FinalSlot(s, p, cl, fl) ==
    [s EXCEPT !.rlen = @ + p, !.hdr = s.rlen + p, !.cl = cl, !.fl = fl]
LEMMA FinalSlotIs ==
    ASSUME NEW s \in SlotType, NEW st, st.dat \in Nat, st.read \in Nat, Counting(s, st, Idle0), s.err = "OK",
           ~Has(s, "FINAL"), ~Has(s, "RECV_END"), ~Has(s, "RST"),
           NEW p \in Nat, p <= MAX_LIST, NEW cl \in Int,
           NEW fl \in SUBSET Flags, s.fl \cup {"FINAL"} \subseteq fl,
           fl \subseteq s.fl \cup {"FINAL", "HAS_CL", "NOCL"}
    PROVE  LET t == FinalSlot(s, p, cl, fl)
           IN  /\ t \in SlotType /\ SameStream(t, s) /\ Counting(t, st, Idle0) /\ Has(t, "FINAL")
<1> DEFINE t == FinalSlot(s, p, cl, fl)  n == s.rlen + p
<1>1. /\ s.rlen \in Nat /\ s.hdr \in Nat /\ s.pend \in Nat /\ s.rwin \in Int /\ s.ready \in Nat /\ s.got \in Nat
      /\ W \in Nat /\ MAX_LIST \in Nat
  BY Consts, Zenon DEF SlotType
<1>2. s.rlen = 0 /\ s.pend = 0 /\ s.hdr <= s.rlen /\ s.rwin + s.pend + Rest(s) + 0 - 0 = W
      /\ s.pend + Rest(s) + 0 - 0 <= W /\ s.ready = Rest(s)
      /\ st.dat = st.read + Rest(s) + 0 - 0 /\ s.got = st.dat - 0
  BY Zenon DEF Counting, Idle0
<1>3. n \in Nat /\ t = [s EXCEPT !.rlen = n, !.hdr = n, !.cl = cl, !.fl = fl]
  BY <1>1 DEF FinalSlot
<1> HIDE DEF t
<1>4. /\ t \in SlotType /\ t.rlen = n /\ t.hdr = n /\ t.fl = fl
      /\ t.id = s.id /\ t.swin = s.swin /\ t.err = s.err /\ t.pend = s.pend /\ t.rwin = s.rwin
      /\ t.ready = s.ready /\ t.got = s.got
  <2> HIDE DEF n
  <2> QED BY <1>3, Zenon DEF SlotType
<1>5. Rest(s) = 0 /\ Rest(t) = 0 /\ t.hdr <= MAX_LIST
  BY <1>1, <1>2, <1>4 DEF Rest
<1>6. Has(t, "RST") = Has(s, "RST") /\ Has(t, "RECV_END") = Has(s, "RECV_END")
      /\ Has(t, "SENT_END") = Has(s, "SENT_END") /\ Has(t, "FINAL")
  BY <1>4 DEF Has
<1>7. SameStream(t, s)
  BY <1>4, <1>5, <1>6, Zenon DEF SameStream
<1>8. Counting(t, st, Idle0)
  <2>1. /\ t.hdr <= t.rlen
        /\ t.rwin + t.pend + Rest(t) + 0 - 0 = W
        /\ t.pend + Rest(t) + 0 - 0 <= W /\ t.ready = Rest(t) /\ t.ready <= Rest(t)
        /\ st.dat = st.read + Rest(t) + 0 - 0 /\ t.got = st.dat - 0
    BY <1>1, <1>2, <1>3, <1>4, <1>5
  <2> HIDE DEF n
  <2> QED BY <1>5, <1>6, <2>1, Zenon DEF Counting, Idle0
<1> QED BY <1>4, <1>6, <1>7, <1>8, Zenon DEF t

\* A block that ends its stream.
LEMMA BlockEnds ==
    ASSUME NEW d, Decoding(d), NEW k \in Slots, d.b.s = k, d.b.es, NEW q, Closed0(q, d),
           NEW t \in SlotType, NEW e, SlotIs(e, q, k, t), Same(e, q, {"s"}),
           SameStream(t, d.s[k]), Counting(t, d.g.st[t.id], Idle0), Has(t, "FINAL")
    PROVE  EndDone(h2_recv_end(e, k), d)
<1> DEFINE s == d.s[k]  id == s.id  st == d.g.st[id]  z == h2_recv_end(e, k)
<1>1. /\ q.s = d.s /\ q.g = d.g /\ q.err = d.err /\ q.tx = d.tx /\ q.f = d.f /\ q.fs = 0
      /\ q.p_win = d.p_win /\ q.cpend = d.cpend /\ q.crwin = d.crwin /\ q.fault = d.fault
      /\ q.eof = d.eof /\ q.rx = d.rx /\ q.fh = d.fh /\ q.goaway = d.goaway /\ q.last_id = d.last_id
      /\ q.next_id = d.next_id /\ q.enc = d.enc /\ q.b.s = 0 /\ ~q.b.in
      /\ q.cpend < CREDIT /\ q.tx < TX /\ q.tx <= TX /\ ~q.fault /\ q.g.wire /\ q.tx \in Nat
      /\ Told(q)
  BY Closed0Says
<1>2. Good(d, 0) /\ d.err = "OK" /\ d.fs = 0 /\ Typed(d)
  BY Zenon DEF Decoding, Good, Kept
<1>3. BlockSlot(d, k)
  BY <1>2, BlockSlotIs, Zenon
<1>4. /\ s \in SlotType
      /\ id \in Ids /\ id < d.next_id /\ s.err = "OK" /\ st.whole /\ st.retry /\ st.es
      /\ ~Has(s, "RST") /\ ~Has(s, "RECV_END")
      /\ st.ph = (IF Has(s, "SENT_END") THEN "ended" ELSE "open")
      /\ Granted(s, st, d.p_win)
  BY <1>3, Zenon DEF BlockSlot
<1>5. /\ t.id = id /\ t.swin = s.swin /\ t.err = s.err /\ t.pend = s.pend /\ Rest(t) = Rest(s)
      /\ Has(t, "RST") = Has(s, "RST") /\ Has(t, "RECV_END") = Has(s, "RECV_END")
      /\ Has(t, "SENT_END") = Has(s, "SENT_END")
  BY Zenon DEF SameStream
<1>6. Typed(e) /\ e.s[k] = t /\ \A j \in Slots : j # k => e.s[j] = d.s[j]
  BY <1>1, Zenon DEF SlotIs
<1>7. /\ e.g = d.g /\ e.err = d.err /\ e.tx = d.tx /\ e.f = d.f /\ e.fs = 0
      /\ e.p_win = d.p_win /\ e.cpend = d.cpend /\ e.crwin = d.crwin /\ e.fault = d.fault
      /\ e.eof = d.eof /\ e.rx = d.rx /\ e.fh = d.fh /\ e.goaway = d.goaway /\ e.last_id = d.last_id
      /\ e.next_id = d.next_id /\ e.enc = d.enc /\ e.b = q.b
  BY <1>1 DEF Same, Fields
<1> HIDE DEF s, st, id
<1>8. Aside(e, d, k)
  <2>1. Same(e, d, {"s", "g", "b", "dec", "idle", "f", "pos", "dat", "fs", "fault", "tx", "cpend",
                    "crwin", "cwin", "fh", "got_settings", "err"})
    BY Zenon DEF Closed0, Same, Fields
  <2>2. e.s[k].id = d.s[k].id
    BY <1>5, <1>6, Zenon DEF id, s
  <2>3. e.fs = 0 /\ e.b.s \in {0, k} /\ d.b.s \in {0, k}
    BY <1>1, <1>7, Zenon
  <2> QED BY <1>2, <1>6, <1>7, <2>1, <2>2, <2>3, AsideHere, Zenon
<1>9. Finishing(e, k)
  <2>1. e.s[k] = t /\ e.g.st[t.id] = st /\ d.g.st[t.id] = st
    BY <1>5, <1>6, <1>7, Zenon DEF st
  <2>2. Granted(t, st, e.p_win)
    BY <1>4, <1>5, <1>7, Zenon DEF Granted
  <2> QED BY <1>4, <1>5, <2>1, <2>2, Zenon DEF Finishing
<1>10. Books(e, k) = Books(d, k)
  <2>1. Part(e, k) = Part(d, k)
    BY <1>2, <1>7, Consts, Zenon DEF Part
  <2>2. Rest(e.s[k]) = Rest(d.s[k])
    BY <1>5, <1>6, Zenon DEF s
  <2> QED BY <1>7, <2>1, <2>2, Zenon DEF Books
<1>11. Told(e)
  BY <1>1, <1>7 DEF Told
<1>12. Named(e, d)
  BY <1>5, <1>6, Zenon DEF Named, id, s
<1>13. StepDone(z, e, 0)
  <2>1. d.s[k].id # 0
    BY <1>4, Consts, Zenon DEF id, s
  <2>2. e.g.wire /\ ~e.fault /\ e.tx < TX /\ e.fs = 0 /\ e.b.s = 0
    BY <1>1, <1>7, Zenon
  <2>3. d.g.st[d.s[k].id].unproc => e.g.st[d.s[k].id].unproc
    BY <1>7, Zenon
  <2>4. (e.b.in => e.f.t \in {"none", "HEADERS", "CONT"}) /\ (0 = 0 /\ e.f.t # "DATA" => e.cpend < CREDIT)
    BY <1>1, <1>7, Zenon
  <2> HIDE DEF z
  <2>5. StepDone(h2_recv_end(e, k), e, 0)
    BY <1>2, <1>6, <1>8, <1>9, <1>10, <1>11, <2>1, <2>2, <2>3, <2>4, EndKeeps, Zenon
  <2> QED BY <2>5, Zenon DEF z
<1> HIDE DEF z
<1>14. Good(z, 0) /\ Same(z, e, {"s", "g", "fault", "tx"}) /\ z.tx <= e.tx + 1 /\ Named(z, e)
  BY <1>13, Zenon DEF StepDone
<1>15. z.eof = d.eof /\ z.rx = d.rx /\ z.fh = d.fh /\ z.fs = 0 /\ z.cpend < CREDIT
  BY <1>1, <1>7, <1>14 DEF Same, Fields
<1>16. z.tx <= d.tx + 3
  <2>1. z.tx \in Nat
    BY <1>14, Zenon DEF Good, Kept, Typed, Simple
  <2> QED BY <1>1, <1>7, <1>14, <2>1
<1>17. Named(z, d)
  BY <1>12, <1>14, Zenon DEF Named
<1> QED BY <1>14, <1>15, <1>16, <1>17, Zenon DEF EndDone, z

\* The verdict on a whole block of a live stream.
LEMMA BlockJudged ==
    ASSUME NEW d, Decoding(d), NEW k \in Slots, d.b.s = k, NEW q, Closed0(q, d),
           NEW n \in Nat, n <= MAX_LIST, NEW j, JudgedSo(j, n)
    PROVE  EndDone(block_judged(q, k, d.b, j), d)
<1> DEFINE b == d.b  s == d.s[k]  st == d.g.st[s.id]
           r == [q EXCEPT !.idle = IF b.trailer \/ j.status >= 200 THEN 0 ELSE @]
           cl == IF j.has THEN j.cl ELSE s.cl
           fl == s.fl \cup {"FINAL"} \cup (IF j.has THEN {"HAS_CL"} ELSE {})
                                     \cup (IF j.status = 204 \/ Has(s, "HEAD") THEN {"NOCL"} ELSE {})
           t == FinalSlot(s, j.parked, cl, fl)
           f == [r EXCEPT !.s[k] = t]
           u == [s EXCEPT !.n1xx = @ + 1]
           e == block_judged(q, k, b, j)
<1>1. /\ q.s = d.s /\ q.g = d.g /\ q.err = d.err /\ q.tx = d.tx /\ q.tx < TX /\ q.tx \in Nat
  BY Closed0Says
<1>2. Shape(q) /\ Typed(q) /\ Kept(q) /\ q.s \in [Slots -> SlotType] /\ Same(q, d, {"b", "dec", "idle"})
      /\ q.b = Block0
  BY Zenon DEF Closed0, Typed
<1>3. BlockSlot(d, k)
  BY BlockSlotIs, Zenon DEF Decoding
<1>4. /\ s \in SlotType /\ st \in StreamType /\ b \in BlockType /\ s.err = "OK"
      /\ ~Has(s, "RST") /\ ~Has(s, "RECV_END") /\ (b.trailer <=> Has(s, "FINAL"))
      /\ Counting(s, st, Idle0)
  BY <1>3, Zenon DEF BlockSlot
<1>5. j.status \in Nat /\ j.cl \in Int /\ j.parked \in Nat /\ j.parked <= MAX_LIST
  <2> DEFINE a == j.parked
  <2>1. j.status \in Nat /\ j.cl \in Int /\ a \in Nat /\ a <= n
    BY Zenon DEF JudgedSo
  <2>2. MAX_LIST \in Nat
    BY Consts, Zenon
  <2> HIDE DEF a
  <2>3. a <= MAX_LIST
    BY <2>1, <2>2
  <2> QED BY <2>1, <2>3, Zenon DEF a
<1>6. Shape(r) /\ Same(r, q, {"idle"})
  BY <1>2, Zenon DEF Shape, Same, Fields
<1> HIDE DEF r
<1>7. Closed0(r, d)
  <2>1. Same(r, q, Untyped)
    BY <1>6, Zenon DEF Same, Untyped
  <2>2. Typed(r)
    BY <1>2, <1>6, <2>1, TypedSame, Zenon
  <2>3. /\ r.s = q.s /\ r.g = q.g /\ r.fault = q.fault /\ r.tx = q.tx /\ r.b = q.b
    BY <1>6, Zenon DEF Same, Fields
  <2>4. q.g.wire /\ ~q.fault /\ q.tx <= TX
    BY <1>2, Zenon DEF Kept
  <2>5. Kept(r)
    BY <1>2, <2>2, <2>3, <2>4, KeptSame, Zenon
  <2>6. Same(r, d, {"b", "dec", "idle"})
    BY <1>2, <1>6, Zenon DEF Same, Fields
  <2> QED BY <1>2, <2>2, <2>3, <2>5, <2>6, Zenon DEF Closed0
<1>8. /\ r.s = d.s /\ r.s \in [Slots -> SlotType] /\ r.s[k] = s /\ r.g = q.g /\ r.tx = q.tx /\ Typed(r) /\ Kept(r)
      /\ r.eof = d.eof /\ r.rx = d.rx /\ r.fh = d.fh
  BY <1>1, <1>2, <1>6, <1>7, Zenon DEF Same, Fields, Closed0
<1>9. e = IF Malformed(b, j)
          THEN h2_stream_err([r EXCEPT !.s[k].rlen = b.pre, !.g.extra = @ + b.pre - s.rlen], k)
          ELSE IF ~b.trailer /\ j.status < 200
          THEN IF s.n1xx = N1XX_MAX THEN h2_conn_err(r) ELSE [r EXCEPT !.s[k].n1xx = @ + 1]
          ELSE IF b.es THEN h2_recv_end(IF b.trailer THEN r ELSE f, k) ELSE IF b.trailer THEN r ELSE f
  BY <1>1 DEF block_judged, r, FinalSlot
<1>10. CASE Malformed(b, j)
  <2> DEFINE z == h2_stream_err([r EXCEPT !.s[k].rlen = d.b.pre, !.g.extra = @ + d.b.pre - d.s[k].rlen], k)
  <2>1. e = z
    BY <1>9, <1>10, Zenon
  <2> HIDE DEF e
  <2>2. EndDone(z, d)
    BY <1>7, BlockFails, Zenon
  <2> QED BY <2>1, <2>2, Zenon DEF e
<1>11. CASE ~Malformed(b, j) /\ ~b.trailer /\ j.status < 200
  <2>1. ~b.es
    BY <1>11, Zenon DEF Malformed
  <2>2. CASE s.n1xx = N1XX_MAX
    <3>1. e = h2_conn_err(r)
      BY <1>9, <1>11, <2>2, Zenon
    <3> HIDE DEF e
    <3>2. Good(e, 0) /\ Same(e, r, {"fault", "tx", "err"}) /\ e.err # "OK" /\ e.tx <= r.tx + 1
      BY <1>1, <1>8, <3>1, ConnErrKeeps, Zenon
    <3>3. e.eof = d.eof /\ e.rx = d.rx /\ e.fh = d.fh /\ e.s = d.s
      BY <1>8, <3>2, Zenon DEF Same, Fields
    <3>4. e.tx <= d.tx + 3
      <4>1. e.tx \in Nat
        BY <3>2, Zenon DEF Good, Kept, Typed, Simple
      <4> QED BY <1>1, <1>8, <3>2, <4>1
    <3> QED BY <3>2, <3>3, <3>4, Zenon DEF EndDone, Named, e
  <2>3. CASE s.n1xx # N1XX_MAX
    <3>1. e = [r EXCEPT !.s[k].n1xx = @ + 1]
      BY <1>9, <1>11, <2>3, Zenon
    <3> HIDE DEF e
    <3>2. Shape(e) /\ Same(e, r, {"s"}) /\ e.s = [r.s EXCEPT ![k] = u]
      <4>1. Shape(e) /\ Same(e, r, {"s"})
        BY <1>6, <3>1, Zenon DEF Shape, Same, Fields
      <4>2. e.s = [r.s EXCEPT ![k].n1xx = @ + 1]
        BY <1>6, <3>1, Zenon DEF Shape, Fields
      <4> QED BY <1>8, <4>1, <4>2, Zenon
    <3>3. /\ u \in SlotType /\ u.id = s.id /\ u.swin = s.swin /\ u.err = s.err /\ u.pend = s.pend
          /\ u.rlen = s.rlen /\ u.hdr = s.hdr /\ u.fl = s.fl /\ u.rwin = s.rwin /\ u.ready = s.ready
          /\ u.got = s.got /\ u.cl = s.cl
      <4> DEFINE v == s.n1xx + 1
      <4>1. v \in Nat /\ u = [s EXCEPT !.n1xx = v]
        BY <1>4 DEF SlotType
      <4> HIDE DEF v, u, s
      <4> QED BY <1>4, <4>1, Zenon DEF SlotType
    <3> HIDE DEF u, s, st
    <3>4. SlotIs(e, r, k, u)
      BY <1>8, <3>2, <3>3, SlotSet, Zenon
    <3>5. SameStream(u, s) /\ Counting(u, st, Idle0)
      <4>1. Rest(u) = Rest(s)
        BY <3>3, Zenon DEF Rest
      <4> QED BY <1>4, <3>3, <4>1, Zenon DEF SameStream, Counting, Has, ClChecked
    <3>6. SameStream(u, d.s[k]) /\ Counting(u, d.g.st[u.id], Idle0)
      BY <3>3, <3>5, Zenon DEF s, st
    <3> QED BY <1>7, <2>1, <3>2, <3>3, <3>4, <3>6, BlockLeaves, Zenon DEF e
  <2> QED BY <2>2, <2>3, Zenon
<1>12. CASE ~Malformed(b, j) /\ b.trailer
  <2>1. b.es
    BY <1>12, Zenon DEF Malformed
  <2> DEFINE z == h2_recv_end(r, k)
  <2>2. e = z
    BY <1>9, <1>12, <2>1, Zenon
  <2> HIDE DEF e
  <2>3. SlotIs(r, r, k, s)
    BY <1>8, Zenon DEF SlotIs, SlotBecomes
  <2>4. Same(r, r, {"s"}) /\ SameStream(s, s) /\ Has(s, "FINAL")
    BY <1>4, <1>12, Zenon DEF Same, SameStream
  <2> HIDE DEF s, st
  <2>5. SameStream(s, d.s[k]) /\ Counting(s, d.g.st[s.id], Idle0)
    BY <1>4, <2>4, Zenon DEF s, st
  <2> HIDE DEF z
  <2>6. EndDone(h2_recv_end(r, k), d)
    BY <1>4, <1>7, <2>1, <2>3, <2>4, <2>5, BlockEnds, Zenon
  <2> QED BY <2>2, <2>6, Zenon DEF e, z
<1>13. CASE ~Malformed(b, j) /\ ~b.trailer /\ ~(j.status < 200)
  <2>1. cl \in Int /\ fl \in SUBSET Flags /\ s.fl \cup {"FINAL"} \subseteq fl
        /\ fl \subseteq s.fl \cup {"FINAL", "HAS_CL", "NOCL"}
    BY <1>4, <1>5, Zenon DEF SlotType, Flags
  <2>2. st.dat \in Nat /\ st.read \in Nat
    BY <1>4, Zenon DEF StreamType
  <2> HIDE DEF cl, fl, s, st, t
  <2>3. /\ t \in SlotType /\ SameStream(t, s) /\ Counting(t, st, Idle0) /\ Has(t, "FINAL")
    BY <1>4, <1>5, <1>13, <2>1, <2>2, FinalSlotIs, Zenon DEF t
  <2>4. Shape(f) /\ Same(f, r, {"s"}) /\ f.s = [r.s EXCEPT ![k] = t]
    BY <1>6, Zenon DEF Shape, Same, Fields
  <2> HIDE DEF f
  <2>5. SlotIs(f, r, k, t)
    BY <1>8, <2>3, <2>4, SlotSet, Zenon
  <2>6. SameStream(t, d.s[k]) /\ Counting(t, d.g.st[t.id], Idle0)
    <3>1. t.id = s.id
      BY <2>3, Zenon DEF SameStream
    <3> QED BY <2>3, <3>1, Zenon DEF s, st
  <2>7. CASE b.es
    <3> DEFINE z == h2_recv_end(f, k)
    <3>1. e = z
      BY <1>9, <1>13, <2>7, Zenon
    <3> HIDE DEF e, z
    <3>2. EndDone(h2_recv_end(f, k), d)
      BY <1>7, <2>3, <2>4, <2>5, <2>6, <2>7, BlockEnds, Zenon
    <3> QED BY <3>1, <3>2, Zenon DEF e, z
  <2>8. CASE ~b.es
    <3>1. e = f
      BY <1>9, <1>13, <2>8, Zenon
    <3> HIDE DEF e
    <3>2. EndDone(f, d)
      BY <1>7, <2>3, <2>4, <2>5, <2>6, <2>8, BlockLeaves, Zenon
    <3> QED BY <3>1, <3>2, Zenon DEF e
  <2> QED BY <2>7, <2>8, Zenon
<1> QED BY <1>10, <1>11, <1>12, <1>13, Zenon

LEMMA Closed0Is ==
    ASSUME NEW d, Decoding(d), NEW q, Shape(q), Same(q, d, {"b", "dec"}), q.b = Block0
    PROVE  Closed0(q, d)
<1>1. Kept(d) /\ Typed(d) /\ Simple(d)
  BY Zenon DEF Decoding, Good, Kept, Typed
<1>2. /\ q.s = d.s /\ q.g = d.g /\ q.fault = d.fault /\ q.tx = d.tx /\ q.enc = d.enc /\ q.f = d.f
  BY Zenon DEF Same, Fields
<1>3. Simple(q)
  BY <1>1, Zenon DEF Simple, Same, Fields
<1>4. Typed(q)
  BY <1>1, <1>2, <1>3, Block0Is, Zenon DEF Typed
<1>5. d.g.wire /\ ~d.fault /\ d.tx <= TX
  BY <1>1, Zenon DEF Kept
<1>6. Kept(q)
  BY <1>1, <1>2, <1>4, <1>5, KeptSame, Zenon
<1> QED BY <1>4, <1>6, Zenon DEF Closed0, Same

LEMMA BlockEnd ==
    ASSUME NEW d, Decoding(d)
    PROVE  EndDone(h2_block_end(d), d)
<1> DEFINE b == d.b  x == hpack_decode(d.dec, b.rep)
           r == [d EXCEPT !.b = Block0]
           q == [r EXCEPT !.dec = x.d]
           e == h2_block_end(d)
<1>1. Good(d, 0) /\ d.err = "OK" /\ d.fs = 0 /\ Kept(d) /\ Typed(d) /\ Conn(d) /\ Shape(d) /\ b \in BlockType
      /\ d.f.t # "DATA" /\ Owing(d, 0)
  BY Zenon DEF Decoding, Good, Kept, Typed
<1>2. b.rep \in Seq(Representations) /\ b.s \in 0..N
  <2> HIDE DEF b, Representations
  <2> QED BY <1>1, Zenon DEF BlockType
<1>3. Decoded(x)
  BY <1>2, DecodeIs, Zenon
<1>4. e = block_decoded(r, b, x)
  BY Zenon DEF h2_block_end
<1>5. Shape(r) /\ Same(r, d, {"b"}) /\ r.b = Block0
  BY <1>1, Zenon DEF Shape, Same, Fields
<1> HIDE DEF r, x
<1>6. Closed0(r, d)
  BY <1>5, Closed0Is, Zenon DEF Same
<1>7. Shape(q) /\ Same(q, d, {"b", "dec"}) /\ q.b = Block0
  BY <1>5, Zenon DEF Shape, Same, Fields
<1> HIDE DEF q
<1>8. Closed0(q, d)
  BY <1>7, Closed0Is, Zenon
<1>9. CASE ~x.ok
  <2>1. e = h2_conn_err(r)
    BY <1>4, <1>9, Zenon DEF block_decoded
  <2>2. r.tx < TX /\ r.tx = d.tx /\ r.tx \in Nat /\ r.eof = d.eof /\ r.rx = d.rx /\ r.fh = d.fh /\ r.s = d.s
    BY <1>6, Closed0Says
  <2>3. Kept(r)
    BY <1>6, Zenon DEF Closed0
  <2> HIDE DEF e
  <2>4. Good(e, 0) /\ Same(e, r, {"fault", "tx", "err"}) /\ e.err # "OK" /\ e.tx <= r.tx + 1
    BY <2>1, <2>2, <2>3, ConnErrKeeps, Zenon
  <2>5. e.eof = d.eof /\ e.rx = d.rx /\ e.fh = d.fh /\ e.s = d.s
    BY <2>2, <2>4, Zenon DEF Same, Fields
  <2>6. e.tx <= d.tx + 3
    <3>1. e.tx \in Nat
      BY <2>4, Zenon DEF Good, Kept, Typed, Simple
    <3> QED BY <2>2, <2>4, <3>1
  <2> QED BY <2>4, <2>5, <2>6, Zenon DEF EndDone, Named, e
<1>10. CASE x.ok /\ b.s = 0
  <2>1. e = q
    BY <1>4, <1>10, Zenon DEF block_decoded, q
  <2>2. /\ q.s = d.s /\ q.g = d.g /\ q.err = d.err /\ q.tx = d.tx /\ q.f = d.f /\ q.fs = 0
        /\ q.eof = d.eof /\ q.rx = d.rx /\ q.fh = d.fh /\ q.enc = d.enc /\ q.b.s = 0
        /\ q.cpend < CREDIT /\ q.tx <= TX /\ ~q.fault /\ q.tx \in Nat
        /\ Told(q) /\ Named(q, d) /\ Taking(q) /\ InBlock(q)
    BY <1>8, Closed0Says
  <2>3. Same(q, d, Neutral \cup {"pos", "dat", "f", "fs", "b", "enc", "g"})
    BY <1>7, Zenon DEF Same, Neutral, Untyped
  <2>4. PastSame(q, d, {"tab", "believed", "low"})
    BY <2>2, Zenon DEF PastSame
  <2>5. \A k \in Slots : Part(q, k) = Part(d, k) /\ Ending(q, k) = Ending(d, k)
    BY <1>1, <1>10, <2>2, Consts, Zenon DEF Part, Ending
  <2>6. Encoding(q) /\ (q.eof # "no" => ~q.rx)
    BY <1>1, <2>2, Zenon DEF Conn, Encoding
  <2>7. Typed(q)
    BY <1>8, Zenon DEF Closed0
  <2>8. q.err = "OK" => /\ d.err = "OK"
                        /\ (\A k \in Slots : Part(q, k) = Part(d, k) /\ Ending(q, k) = Ending(d, k))
                        /\ Taking(q) /\ InBlock(q) /\ Told(q) /\ Encoding(q) /\ (q.eof # "no" => ~q.rx)
                        /\ (0 = 0 /\ q.f.t # "DATA" => q.cpend < CREDIT)
    BY <1>1, <2>2, <2>5, <2>6, Zenon
  <2>9. Good(q, 0)
    BY <1>1, <2>2, <2>3, <2>4, <2>7, <2>8, PlaceKeeps, Zenon
  <2>10. q.tx <= d.tx + 3
    BY <2>2
  <2> QED BY <2>1, <2>2, <2>9, <2>10, Zenon DEF EndDone
<1>11. CASE x.ok /\ b.s # 0
  <2> DEFINE j == judged(b, x.fields)  k == b.s  z == block_judged(q, k, d.b, j)
  <2>1. e = z
    BY <1>4, <1>11, Zenon DEF block_decoded, q
  <2>2. x.fields \in Seq(FieldType) /\ x.list \in Nat /\ x.list <= MAX_LIST /\ Weighs(x.fields, x.list)
    BY <1>3, <1>11, Zenon DEF Decoded
  <2>3. JudgedSo(j, x.list)
    BY <2>2, JudgedIs, Zenon
  <2>4. k \in Slots /\ d.b.s = k
    BY <1>2, <1>11, Consts
  <2> HIDE DEF e, j, k, b, z
  <2>5. EndDone(block_judged(q, k, d.b, j), d)
    BY <1>8, <2>2, <2>3, <2>4, BlockJudged, Zenon
  <2> QED BY <2>1, <2>5, Zenon DEF e, z
<1> QED BY <1>9, <1>10, <1>11, Zenon

\* A frame without data is whole.
Ready(d) ==
    Good(d, 0) /\ d.err = "OK" /\ d.fs = 0 /\ d.f.t # "DATA" /\ d.tx + 3 <= TX
LEMMA ReadyIs ==
    ASSUME NEW d, Ready(d)
    PROVE  /\ Good(d, 0) /\ d.err = "OK" /\ d.fs = 0 /\ Kept(d) /\ Typed(d) /\ Shape(d) /\ Conn(d)
           /\ d.cpend < CREDIT /\ d.tx \in Nat /\ d.tx < TX /\ d.tx <= TX /\ ~d.fault /\ d.g.wire
           /\ TX \in Nat /\ Told(d) /\ d.s \in [Slots -> SlotType] /\ PastTyped(d.g)
           /\ d.f \in Frames \cup {NoFrame} /\ InBlock(d) /\ Taking(d)
<1>1. Good(d, 0) /\ d.err = "OK" /\ d.fs = 0 /\ Kept(d) /\ Typed(d) /\ Shape(d) /\ Conn(d)
      /\ d.cpend < CREDIT /\ ~d.fault /\ d.g.wire /\ Told(d) /\ d.tx + 3 <= TX /\ InBlock(d) /\ Taking(d)
  BY Zenon DEF Ready, Good, Kept, Typed, Conn, Owing
<1>2. d.tx \in Nat /\ TX \in Nat
  BY <1>1, Consts, Zenon DEF Typed, Simple
<1>3. d.tx < TX /\ d.tx <= TX
  BY <1>1, <1>2
<1>4. d.s \in [Slots -> SlotType] /\ PastTyped(d.g) /\ d.f \in Frames \cup {NoFrame}
  BY <1>1, Zenon DEF Typed
<1> QED BY <1>1, <1>2, <1>3, <1>4, Zenon

\* One slot and its stream are replaced.
Replaced(e, d, k, t, id, u) ==
    /\ Typed(e) /\ Same(e, d, {"s", "g"}) /\ PastSame(e, d, {"st"})
    /\ e.s[k] = t /\ \A j \in Slots : j # k => e.s[j] = d.s[j]
    /\ e.g.st[id] = u /\ \A i \in Ids : i # id => e.g.st[i] = d.g.st[i]
LEMMA ReplacedIs ==
    ASSUME NEW d, Typed(d), NEW k \in Slots, NEW t \in SlotType, NEW id \in Ids, NEW u \in StreamType,
           NEW e, Shape(e), Same(e, d, {"s", "g"}), e.s = [d.s EXCEPT ![k] = t],
           e.g = [d.g EXCEPT !.st = [d.g.st EXCEPT ![id] = u]]
    PROVE  Replaced(e, d, k, t, id, u)
<1>1. e.s \in [Slots -> SlotType] /\ e.s[k] = t /\ \A j \in Slots : j # k => e.s[j] = d.s[j]
  <2>1. SlotBecomes(e, d, k, t)
    BY Zenon DEF SlotBecomes
  <2> QED BY <2>1 DEF Typed, SlotBecomes
<1> DEFINE g == d.g  h == e.g
<1>2. PastTyped(g) /\ h = [g EXCEPT !.st = [g.st EXCEPT ![id] = u]]
  BY Zenon DEF Typed
<1>3. h.st = [g.st EXCEPT ![id] = u] /\ h = [x \in Past |-> h[x]] /\ \A x \in Past \ {"st"} : h[x] = g[x]
  <2> HIDE DEF g, h
  <2> DEFINE f == [g.st EXCEPT ![id] = u]
  <2>1. h = [g EXCEPT !.st = f]
    BY <1>2, Zenon
  <2> HIDE DEF f
  <2>2. h.st = f /\ h = [x \in Past |-> h[x]] /\ \A x \in Past \ {"st"} : h[x] = g[x]
    BY <1>2, <2>1, Zenon DEF PastTyped, Past
  <2> QED BY <2>2, Zenon DEF f
<1>4. e.g.st \in [Ids -> StreamType] /\ e.g.st[id] = u /\ \A i \in Ids : i # id => e.g.st[i] = d.g.st[i]
  <2> DEFINE a == g.st  b == h.st
  <2>1. a \in [Ids -> StreamType] /\ b = [a EXCEPT ![id] = u]
    BY <1>2, <1>3, Zenon DEF PastTyped
  <2> HIDE DEF a, b
  <2>2. b \in [Ids -> StreamType] /\ b[id] = u /\ \A i \in Ids : i # id => b[i] = a[i]
    <3> HIDE DEF StreamType
    <3> QED BY <2>1, Zenon
  <2> QED BY <2>2, Zenon DEF a, b
<1>5. PastSame(e, d, {"st"})
  BY <1>3, Zenon DEF PastSame
<1>6. PastTyped(e.g)
  <2>1. h.st \in [Ids -> StreamType]
    BY <1>4, Zenon
  <2> HIDE DEF g, h
  <2>2. h.wire = g.wire /\ h.extra = g.extra /\ h.believed = g.believed /\ h.low = g.low
    BY <1>3, Zenon DEF Past
  <2>3. PastTyped(h)
    BY <1>2, <1>3, <2>1, <2>2, Zenon DEF PastTyped
  <2> QED BY <2>3, Zenon DEF h
<1>7. Simple(e)
  <2>1. Simple(d)
    BY Zenon DEF Typed
  <2> QED BY <2>1, Zenon DEF Simple, Same, Fields
<1>8. Typed(e)
  <2>1. Same(e, d, Scalars \cup {"s", "g"})
    BY Zenon DEF Same, Scalars
  <2> QED BY <1>1, <1>6, <1>7, <2>1, TypedWith, Zenon
<1> QED BY <1>1, <1>4, <1>5, <1>8, Zenon DEF Replaced

LEMMA ReplacedKeeps ==
    ASSUME NEW d, Ready(d), d.b.s = 0, NEW k \in Slots, NEW t, NEW id \in Ids, NEW u, NEW e,
           d.s[k].id = id, Replaced(e, d, k, t, id, u), t.id = id,
           (d.g.st[id].unproc => u.unproc), u.whole, u.retry, (t.err = "RETRY" => u.unproc),
           Closing(t, u, FALSE), Counting(t, u, Idle0), Granted(t, u, d.p_win), Paid(t),
           Rest(t) = Rest(d.s[k])
    PROVE  EndDone(e, d)
<1>1. /\ Good(d, 0) /\ d.err = "OK" /\ d.fs = 0 /\ Kept(d) /\ Typed(d) /\ Conn(d)
      /\ d.cpend < CREDIT /\ d.tx \in Nat /\ d.tx <= TX /\ ~d.fault /\ d.g.wire /\ Told(d)
      /\ InBlock(d) /\ Taking(d)
  BY ReadyIs, Zenon
<1>2. /\ Typed(e) /\ Same(e, d, {"s", "g"}) /\ PastSame(e, d, {"st"})
      /\ e.s[k] = t /\ \A j \in Slots : j # k => e.s[j] = d.s[j]
      /\ e.g.st[id] = u /\ \A i \in Ids : i # id => e.g.st[i] = d.g.st[i]
  BY Zenon DEF Replaced
<1>3. /\ e.err = d.err /\ e.tx = d.tx /\ e.f = d.f /\ e.fs = 0
      /\ e.p_win = d.p_win /\ e.cpend = d.cpend /\ e.crwin = d.crwin /\ e.fault = d.fault
      /\ e.eof = d.eof /\ e.rx = d.rx /\ e.fh = d.fh /\ e.goaway = d.goaway /\ e.last_id = d.last_id
      /\ e.next_id = d.next_id /\ e.enc = d.enc /\ e.b = d.b
  BY <1>1, <1>2, Zenon DEF Same, Fields
<1>4. e.g.wire = d.g.wire /\ e.g.believed = d.g.believed /\ e.g.low = d.g.low /\ e.g.extra = d.g.extra
  BY <1>2, Zenon DEF PastSame, Past
<1>5. Aside(e, d, k)
  <2>1. Same(e, d, {"s", "g", "b", "dec", "idle", "f", "pos", "dat", "fs", "fault", "tx", "cpend",
                    "crwin", "cwin", "fh", "got_settings", "err"})
    BY <1>2, Zenon DEF Same
  <2>2. e.s[k].id = d.s[k].id /\ e.fs = 0 /\ e.b.s \in {0, k} /\ d.b.s \in {0, k}
        /\ \A i \in Ids : i # d.s[k].id => e.g.st[i] = d.g.st[i]
    BY <1>2, <1>3, Zenon
  <2> QED BY <1>1, <1>2, <1>4, <2>1, <2>2, AsideHere, Zenon
<1>6. Part(e, k) = Idle0 /\ Part(d, k) = Idle0 /\ ~Ending(e, k) /\ k # 0 /\ Idle0.es = FALSE
  BY <1>1, <1>3, Consts, Zenon DEF Part, Ending, Idle0
<1>7. SlotOK(e, k)
  <2>1. id < d.next_id
    <3>1. SlotOK(d, k)
      BY <1>1, Zenon DEF Good
    <3> QED BY <3>1, Consts, Zenon DEF SlotOK
  <2>2. Closing(t, u, Part(e, k).es \/ Ending(e, k))
    BY <1>6, Zenon
  <2> QED BY <1>2, <1>3, <1>6, <2>1, <2>2, Zenon DEF SlotOK
<1>8. Books(e, k) = Books(d, k)
  BY <1>2, <1>3, <1>4, <1>6, Zenon DEF Books
<1>9. Taking(e)
  BY <1>3, Zenon DEF Taking
<1>10. InBlock(e)
  BY <1>1, <1>3, Zenon DEF InBlock
<1>11. Told(e)
  <2>1. \A i \in Ids : d.g.st[i].unproc => e.g.st[i].unproc
    BY <1>2, Zenon
  <2> QED BY <1>1, <1>3, <2>1, Zenon DEF Told
<1>12. LET v == e.g.st[d.s[k].id]
       IN  /\ v.whole /\ v.retry /\ (d.g.st[d.s[k].id].unproc => v.unproc)
           /\ e.s[k].err = "RETRY" => v.unproc
  BY <1>2, Zenon
<1>13. e.err = "OK" => /\ SlotOK(e, k) /\ (k # 0 => Paid(e.s[k])) /\ Books(e, k) = Books(d, k)
                       /\ (0 = 0 /\ e.f.t # "DATA" => e.cpend < CREDIT)
                       /\ Taking(e) /\ InBlock(e) /\ Told(e)
  BY <1>1, <1>2, <1>3, <1>7, <1>8, <1>9, <1>10, <1>11, Zenon
<1>14. Good(e, 0)
  <2>1. d.s[k].id # 0 /\ 0 \in {0, k, 0}
    BY Consts, Zenon
  <2>2. e.g.wire /\ ~e.fault /\ e.tx <= TX
    BY <1>1, <1>3, <1>4, Zenon
  <2> QED BY <1>1, <1>2, <1>5, <1>12, <1>13, <2>1, <2>2, OneSlot, Zenon
<1>15. Named(e, d)
  BY <1>2, Zenon DEF Named
<1>16. e.tx <= d.tx + 3
  BY <1>1, <1>3
<1> QED BY <1>1, <1>3, <1>14, <1>15, <1>16, Zenon DEF EndDone

\* A stream with nothing under way.
QuietSlot(d, k) ==
    LET s == d.s[k]  st == d.g.st[s.id]
    IN  /\ s \in SlotType /\ st \in StreamType /\ s.id \in Ids /\ st.whole /\ st.retry
        /\ Closing(s, st, FALSE) /\ Counting(s, st, Idle0) /\ Granted(s, st, d.p_win) /\ Paid(s)
LEMMA QuietSlotIs ==
    ASSUME NEW d, Ready(d), d.b.s = 0, NEW k \in Slots, d.s[k].id # 0
    PROVE  QuietSlot(d, k)
<1> DEFINE s == d.s[k]  id == s.id  st == d.g.st[id]
<1>1. /\ d.fs = 0 /\ Kept(d) /\ Typed(d) /\ SlotOK(d, k) /\ Owing(d, 0)
  BY Zenon DEF Ready, Good, Kept
<1>2. /\ id \in Ids /\ Closing(s, st, Part(d, k).es \/ Ending(d, k))
      /\ Counting(s, st, Part(d, k)) /\ Granted(s, st, d.p_win)
  BY <1>1, Zenon DEF SlotOK
<1>3. Part(d, k) = Idle0 /\ ~Ending(d, k) /\ Idle0.es = FALSE /\ k \in Slots \ {0}
  BY <1>1, Consts, Zenon DEF Part, Ending, Idle0
<1>4. s \in SlotType /\ st \in StreamType
  BY <1>1, <1>2, SlotTyped, StreamTyped, Zenon
<1>5. st.whole /\ st.retry /\ Paid(s)
  BY <1>1, <1>2, <1>3, Zenon DEF Kept, Owing
<1> HIDE DEF s, st, id
<1>6. Closing(s, st, FALSE) /\ Counting(s, st, Idle0)
  BY <1>2, <1>3, Zenon
<1>7. s = d.s[k] /\ st = d.g.st[s.id] /\ id = s.id
  BY Zenon DEF s, st, id
<1> QED BY <1>2, <1>4, <1>5, <1>6, <1>7, Zenon DEF QuietSlot

\* RST_STREAM.
LEMMA RstSlotIs ==
    ASSUME NEW s \in SlotType, s.err = "OK", NEW code
    PROVE  LET t == h2_rst_recv(s, code)
           IN  /\ t \in SlotType /\ t.id = s.id /\ t.rlen = s.rlen /\ t.hdr = s.hdr /\ t.swin = s.swin
               /\ t.pend = s.pend /\ t.rwin = s.rwin /\ t.ready = s.ready /\ t.got = s.got /\ t.cl = s.cl
               /\ Has(t, "RST") /\ Has(t, "RECV_END") = Has(s, "RECV_END")
               /\ Has(t, "FINAL") = Has(s, "FINAL") /\ (ClChecked(t) <=> ClChecked(s))
               /\ (t.err = "OK" => BothEnds(t)) /\ (t.err = "RETRY" => code = "REFUSED")
<1> DEFINE t == h2_rst_recv(s, code)
           f1 == s.fl \cup {"RST"}  f2 == s.fl \cup {"RST"} \cup {"SENT_END"}
           a == [s EXCEPT !.fl = f1]
<1>1. a \in SlotType /\ a.err = "OK" /\ a.fl = f1
  BY Zenon DEF SlotType, Flags
<1>2. \/ t = [s EXCEPT !.fl = f1, !.err = "RETRY"] /\ code = "REFUSED"
      \/ t = [s EXCEPT !.fl = f2] /\ Has(s, "RECV_END")
      \/ t = [s EXCEPT !.fl = f1, !.err = "PEER_ALERT"]
  BY Zenon DEF h2_rst_recv, SlotType
<1>3. f1 \in SUBSET Flags /\ f2 \in SUBSET Flags
  BY Zenon DEF SlotType, Flags
<1>4. \A x \in Flags \ {"RST", "SENT_END"} : (x \in f1 <=> x \in s.fl) /\ (x \in f2 <=> x \in s.fl)
  BY Zenon DEF Flags
<1>5. "RST" \in f1 /\ "RST" \in f2 /\ "SENT_END" \in f2
  BY Zenon
<1> HIDE DEF t, f1, f2
<1>6. /\ t \in SlotType /\ t.id = s.id /\ t.rlen = s.rlen /\ t.hdr = s.hdr /\ t.swin = s.swin
      /\ t.pend = s.pend /\ t.rwin = s.rwin /\ t.ready = s.ready /\ t.got = s.got /\ t.cl = s.cl
      /\ t.fl \in {f1, f2} /\ (t.err = "OK" => t.fl = f2 /\ Has(s, "RECV_END"))
      /\ (t.err = "RETRY" => code = "REFUSED")
  BY <1>2, <1>3 DEF SlotType
<1>7. \A x \in Flags \ {"RST", "SENT_END"} : Has(t, x) = Has(s, x)
  BY <1>4, <1>6 DEF Has
<1>8. Has(t, "RST") /\ (t.err = "OK" => Has(t, "SENT_END") /\ Has(t, "RECV_END"))
  BY <1>5, <1>6, <1>7, Zenon DEF Has, Flags
<1>9. Has(t, "RECV_END") = Has(s, "RECV_END") /\ Has(t, "FINAL") = Has(s, "FINAL")
      /\ (ClChecked(t) <=> ClChecked(s))
  BY <1>7, Zenon DEF ClChecked, Flags
<1>10. t.err = "OK" => BothEnds(t)
  BY <1>8, Zenon DEF BothEnds, Has
<1> QED BY <1>6, <1>8, <1>9, <1>10, Zenon DEF t

LEMMA RstKeeps ==
    ASSUME NEW d, Ready(d), d.f.t = "RST", NEW k \in Slots, d.s[k].id = d.f.sid, d.f.sid # 0,
           ~Has(d.s[k], "RST")
    PROVE  EndDone([d EXCEPT !.s[k] = h2_rst_recv(@, d.f.code), !.g.st[d.f.sid].ph = "reset"], d)
<1> DEFINE s == d.s[k]  id == d.f.sid  st == d.g.st[id]  code == d.f.code
           t == h2_rst_recv(s, code)
           u == [st EXCEPT !.ph = "reset"]
           e == [d EXCEPT !.s[k] = h2_rst_recv(@, code), !.g.st[id].ph = "reset"]
<1>1. /\ Typed(d) /\ Shape(d) /\ Told(d) /\ InBlock(d) /\ d.s \in [Slots -> SlotType] /\ PastTyped(d.g)
  BY ReadyIs, Zenon
<1>2. d.b.s = 0
  BY <1>1, Zenon DEF InBlock
<1>3. QuietSlot(d, k)
  BY <1>2, QuietSlotIs, Zenon
<1>4. /\ s \in SlotType /\ st \in StreamType /\ id \in Ids /\ s.id = id /\ st.whole /\ st.retry
      /\ Closing(s, st, FALSE) /\ Counting(s, st, Idle0) /\ Granted(s, st, d.p_win)
  BY <1>3, Zenon DEF QuietSlot
<1>5. s.err = "OK"
  BY <1>4, Zenon DEF Closing
<1>6. /\ t \in SlotType /\ t.id = s.id /\ t.rlen = s.rlen /\ t.hdr = s.hdr /\ t.swin = s.swin
      /\ t.pend = s.pend /\ t.rwin = s.rwin /\ t.ready = s.ready /\ t.got = s.got /\ t.cl = s.cl
      /\ Has(t, "RST") /\ Has(t, "RECV_END") = Has(s, "RECV_END")
      /\ Has(t, "FINAL") = Has(s, "FINAL") /\ (ClChecked(t) <=> ClChecked(s))
      /\ (t.err = "OK" => BothEnds(t)) /\ (t.err = "RETRY" => code = "REFUSED")
  <2> HIDE DEF t
  <2> HIDE DEF s, code
  <2> QED BY <1>4, <1>5, RstSlotIs DEF t
<1>7. /\ u \in StreamType /\ u.ph = "reset" /\ u.es = st.es /\ u.unproc = st.unproc /\ u.whole = st.whole
      /\ u.retry = st.retry /\ u.dat = st.dat /\ u.read = st.read /\ u.wu = st.wu /\ u.sent = st.sent
  <2> HIDE DEF st
  <2> QED BY <1>4, Zenon DEF StreamType
<1>8. /\ Shape(e) /\ Same(e, d, {"s", "g"}) /\ e.s = [d.s EXCEPT ![k] = t]
      /\ e.g = [d.g EXCEPT !.st = [d.g.st EXCEPT ![id] = u]]
  <2>1. Shape(e) /\ Same(e, d, {"s", "g"})
    BY <1>1, Zenon DEF Shape, Same, Fields
  <2>2. e.s = [d.s EXCEPT ![k] = t]
    BY <1>1, Zenon DEF Shape, Fields
  <2>3. e.g = [d.g EXCEPT !.st[id].ph = "reset"]
    BY <1>1, Zenon DEF Shape, Fields
  <2> HIDE DEF e
  <2>4. e.g = [d.g EXCEPT !.st = [d.g.st EXCEPT ![id] = u]]
    BY <1>1, <1>4, <2>3, Zenon DEF PastTyped, Past
  <2> QED BY <2>1, <2>2, <2>4, Zenon
<1> HIDE DEF e, t, u, s, st, id, code
<1>9. Replaced(e, d, k, t, id, u)
  BY <1>1, <1>4, <1>6, <1>7, <1>8, ReplacedIs, Zenon
<1>10. Closing(t, u, FALSE)
  BY <1>4, <1>6, <1>7, Zenon DEF Closing
<1>11. Counting(t, u, Idle0) /\ Rest(t) = Rest(s)
  <2>1. Rest(t) = Rest(s)
    BY <1>6, Zenon DEF Rest
  <2> QED BY <1>4, <1>5, <1>6, <1>7, <2>1, Zenon DEF Counting
<1>12. Granted(t, u, d.p_win) /\ Paid(t)
  BY <1>4, <1>6, <1>7, Zenon DEF Granted, Paid
<1>13. t.err = "RETRY" => u.unproc
  BY <1>1, <1>4, <1>6, <1>7, Zenon DEF Told, code, id, st
<1>14. d.s[k].id = id /\ t.id = id /\ Rest(t) = Rest(d.s[k]) /\ (d.g.st[id].unproc => u.unproc)
       /\ u.whole /\ u.retry
  BY <1>4, <1>6, <1>7, <1>11, Zenon DEF s, st
<1>15. EndDone(e, d)
  BY <1>2, <1>4, <1>9, <1>10, <1>11, <1>12, <1>13, <1>14, ReplacedKeeps, Zenon
<1> QED BY <1>15, Zenon DEF e, id, code

\* An answer on the connection: the acknowledgement of SETTINGS or of PING.
LEMMA AnswerKeeps ==
    ASSUME NEW d, Ready(d), NEW e, Shape(e), Same(e, h2_ctrl(d), {"got_settings"})
    PROVE  EndDone(e, d)
<1> DEFINE r == h2_ctrl(d)
<1>1. /\ Good(d, 0) /\ d.err = "OK" /\ d.fs = 0 /\ d.cpend < CREDIT /\ d.tx \in Nat /\ d.tx < TX /\ TX \in Nat
      /\ Conn(d)
  BY ReadyIs, Zenon
<1>2. Good(r, 0) /\ Same(r, d, {"fault", "tx"}) /\ r.tx = d.tx + 1
  BY <1>1, CtrlKeeps, Zenon
<1>3. Same(e, r, {"got_settings"})
  BY Zenon
<1> HIDE DEF r
<1>4. Typed(r) /\ Kept(r)
  BY <1>2, Zenon DEF Good, Kept
<1>5. Same(e, r, Untyped) /\ Same(e, r, Neutral)
  BY <1>3, Zenon DEF Same, Untyped, Neutral
<1>6. Typed(e)
  BY <1>4, <1>5, TypedSame, Zenon
<1>7. /\ e.err = d.err /\ e.eof = d.eof /\ e.rx = d.rx /\ e.fh = d.fh /\ e.fs = 0 /\ e.cpend = d.cpend
      /\ e.s = d.s /\ e.tx = d.tx + 1 /\ e.fault = r.fault /\ r.err = d.err
  BY <1>1, <1>2, <1>3, Zenon DEF Same, Fields
<1>8. ~e.fault /\ e.tx <= TX /\ e.tx <= d.tx + 3
  BY <1>1, <1>4, <1>7 DEF Kept
<1>9. e.err = "OK" => r.err = "OK" /\ (e.eof # "no" => ~e.rx)
  BY <1>1, <1>7, Zenon DEF Conn
<1>10. Good(e, 0)
  BY <1>2, <1>5, <1>6, <1>8, <1>9, NeutralKeeps, Zenon
<1> QED BY <1>1, <1>7, <1>8, <1>10, Zenon DEF EndDone, Named

LEMMA SettingsEnd ==
    ASSUME NEW d, Ready(d)
    PROVE  EndDone([h2_ctrl(d) EXCEPT !.got_settings = TRUE], d) /\ EndDone(h2_ctrl(d), d)
<1> DEFINE r == h2_ctrl(d)  e == [r EXCEPT !.got_settings = TRUE]
<1>1. Shape(r)
  <2>1. Typed(d)
    BY ReadyIs, Zenon
  <2>2. Typed(r)
    BY <2>1, CtrlDoes, Zenon
  <2> HIDE DEF r
  <2> QED BY <2>2, Zenon DEF Typed
<1>2. Same(r, h2_ctrl(d), {"got_settings"})
  BY Zenon DEF Same
<1>3. Shape(e) /\ Same(e, r, {"got_settings"})
  <2> HIDE DEF r
  <2> QED BY <1>1, Zenon DEF Shape, Same, Fields
<1>4. Same(e, h2_ctrl(d), {"got_settings"})
  BY <1>3, Zenon
<1> HIDE DEF e, r
<1>5. EndDone(e, d)
  BY <1>3, <1>4, AnswerKeeps, Zenon
<1>6. EndDone(r, d)
  BY <1>1, <1>2, AnswerKeeps, Zenon
<1> QED BY <1>5, <1>6, Zenon DEF e, r

\* WINDOW_UPDATE.
LEMMA ConnErrEnds ==
    ASSUME NEW d, Ready(d)
    PROVE  EndDone(h2_conn_err(d), d)
<1> DEFINE e == h2_conn_err(d)
<1>1. Kept(d) /\ d.tx < TX /\ d.tx \in Nat
  BY ReadyIs, Zenon
<1>2. Good(e, 0) /\ Same(e, d, {"fault", "tx", "err"}) /\ e.err # "OK" /\ e.tx <= d.tx + 1
  BY <1>1, ConnErrKeeps, Zenon
<1> HIDE DEF e
<1>3. e.eof = d.eof /\ e.rx = d.rx /\ e.fh = d.fh /\ e.s = d.s
  BY <1>2, Zenon DEF Same, Fields
<1>4. e.tx <= d.tx + 3
  <2>1. e.tx \in Nat
    BY <1>2, Zenon DEF Good, Kept, Typed, Simple
  <2> QED BY <1>1, <1>2, <2>1
<1> QED BY <1>2, <1>3, <1>4, Zenon DEF EndDone, Named, e

LEMMA NothingEnds ==
    ASSUME NEW d, Ready(d)
    PROVE  EndDone(d, d)
<1>1. Good(d, 0) /\ d.fs = 0 /\ d.cpend < CREDIT /\ d.tx \in Nat
  BY ReadyIs, Zenon
<1> QED BY <1>1 DEF EndDone, Named

LEMMA WuConn ==
    ASSUME NEW d, Ready(d), NEW v \in Nat
    PROVE  EndDone([d EXCEPT !.cwin = @ + v], d)
<1> DEFINE n == d.cwin + v  e == [d EXCEPT !.cwin = @ + v]
<1>1. /\ Good(d, 0) /\ d.err = "OK" /\ d.fs = 0 /\ d.cpend < CREDIT /\ d.tx \in Nat /\ d.tx <= TX /\ ~d.fault
      /\ Conn(d) /\ Typed(d) /\ Shape(d)
  BY ReadyIs, Zenon
<1>2. Simple(d) /\ n \in Int
  BY <1>1 DEF Typed, Simple
<1>3. Shape(e) /\ Same(e, d, {"cwin"}) /\ e.cwin = n
  BY <1>1, Zenon DEF Shape, Same, Fields
<1> HIDE DEF e, n
<1>4. Simple(e)
  BY <1>2, <1>3, Zenon DEF Simple, Same, Fields
<1>5. Same(e, d, Scalars) /\ Same(e, d, Neutral)
  BY <1>3, Zenon DEF Same, Scalars, Neutral, Fields
<1>6. Typed(e)
  BY <1>1, <1>3, <1>4, <1>5, TypedAfter, Zenon
<1>7. /\ e.err = d.err /\ e.eof = d.eof /\ e.rx = d.rx /\ e.fh = d.fh /\ e.fs = 0 /\ e.cpend = d.cpend
      /\ e.s = d.s /\ e.tx = d.tx /\ e.fault = d.fault
  BY <1>1, <1>3, Zenon DEF Same, Fields
<1>8. e.err = "OK" => d.err = "OK" /\ (e.eof # "no" => ~e.rx)
  BY <1>1, <1>7, Zenon DEF Conn
<1>9. Good(e, 0)
  BY <1>1, <1>5, <1>6, <1>7, <1>8, NeutralKeeps, Zenon
<1>10. e.tx <= d.tx + 3
  BY <1>1, <1>7
<1> QED BY <1>1, <1>7, <1>9, <1>10, Zenon DEF EndDone, Named, e

LEMMA WuFails ==
    ASSUME NEW d, Ready(d), d.b.s = 0, NEW k \in Slots, d.s[k].id # 0, ~Has(d.s[k], "RST"), ~BothEnds(d.s[k])
    PROVE  EndDone(h2_stream_err(d, k), d)
<1> DEFINE s == d.s[k]  id == s.id  st == d.g.st[id]  e == h2_stream_err(d, k)
<1>1. /\ Good(d, 0) /\ d.err = "OK" /\ d.fs = 0 /\ d.cpend < CREDIT /\ d.tx \in Nat /\ d.tx < TX /\ d.tx <= TX
      /\ ~d.fault /\ d.g.wire /\ Typed(d) /\ Told(d) /\ InBlock(d)
  BY ReadyIs, Zenon
<1>2. QuietSlot(d, k)
  BY QuietSlotIs, Zenon
<1>3. /\ s \in SlotType /\ id \in Ids /\ st.whole /\ st.retry
      /\ Closing(s, st, FALSE) /\ Counting(s, st, Idle0) /\ Granted(s, st, d.p_win)
  BY <1>2, Zenon DEF QuietSlot
<1>4. Resettable(d, k)
  <2>1. s.err = "OK" /\ (Has(s, "RECV_END") => st.es) /\ st.ph \in {"open", "ended"} /\ s.hdr <= s.rlen
    BY <1>3, Zenon DEF Closing, Counting
  <2> QED BY <1>1, <1>3, <2>1, Zenon DEF Resettable
<1>5. Failing(d, d, k, 0)
  BY <1>1, <1>4, Zenon DEF Failing, Aside, InBlock
<1>6. FailedDone(e, d, k, 0)
  <2>1. 0 \in {0, k, 0}
    BY Zenon
  <2> QED BY <1>1, <1>5, <2>1, FailedKeeps, Zenon
<1> HIDE DEF e, s, st, id
<1>7. /\ Good(e, 0) /\ Same(e, d, {"s", "g", "fault", "tx"}) /\ e.tx <= d.tx + 1
      /\ SlotBecomes(e, d, k, FailedSlot(d.s[k]))
  BY <1>6, Zenon DEF FailedDone
<1>8. Named(e, d)
  <2> DEFINE f == FailedSlot(s)
  <2>1. f \in SlotType /\ f.id = s.id
    BY <1>3, FailedSlotIs, Zenon
  <2>2. SlotBecomes(e, d, k, f)
    BY <1>7, Zenon DEF s
  <2> HIDE DEF f
  <2>3. e.s[k] = f /\ \A j \in Slots : j # k => e.s[j] = d.s[j]
    BY <1>1, <2>1, <2>2, SlotChanged
  <2> QED BY <2>1, <2>3, Zenon DEF Named, s
<1>9. e.eof = d.eof /\ e.rx = d.rx /\ e.fh = d.fh /\ e.fs = 0 /\ e.cpend < CREDIT
  BY <1>1, <1>7, Zenon DEF Same, Fields
<1>10. e.tx <= d.tx + 3
  <2>1. e.tx \in Nat
    BY <1>7, Zenon DEF Good, Kept, Typed, Simple
  <2> QED BY <1>1, <1>7, <2>1
<1> QED BY <1>7, <1>8, <1>9, <1>10, Zenon DEF EndDone, e

LEMMA WuStream ==
    ASSUME NEW d, Ready(d), d.b.s = 0, NEW v \in Nat, NEW id, id = d.f.sid, id # 0,
           NEW k \in Slots, d.s[k].id = id
    PROVE  EndDone([d EXCEPT !.s[k].swin = @ + v, !.g.st[id].wu = @ + v], d)
<1> DEFINE s == d.s[k]  st == d.g.st[id]  n == s.swin + v  m == st.wu + v
           t == [s EXCEPT !.swin = n]
           u == [st EXCEPT !.wu = m]
           e == [d EXCEPT !.s[k].swin = @ + v, !.g.st[id].wu = @ + v]
<1>1. /\ Typed(d) /\ Shape(d) /\ d.s \in [Slots -> SlotType] /\ PastTyped(d.g) /\ Kept(d)
  BY ReadyIs, Zenon
<1>2. QuietSlot(d, k)
  BY QuietSlotIs, Zenon
<1>3. /\ s \in SlotType /\ st \in StreamType /\ id \in Ids /\ s.id = id /\ st.whole /\ st.retry
      /\ Closing(s, st, FALSE) /\ Counting(s, st, Idle0) /\ Granted(s, st, d.p_win) /\ Paid(s)
  BY <1>2, ZenonT(40) DEF QuietSlot
<1>4. s.swin \in Int /\ st.wu \in Nat /\ n \in Int /\ m \in Nat /\ st.sent \in Nat /\ d.p_win \in Nat
  <2>1. s.swin \in Int /\ st.wu \in Nat /\ st.sent \in Nat /\ d.p_win \in Nat
    BY <1>1, <1>3, Zenon DEF SlotType, StreamType, Typed, Simple
  <2> HIDE DEF s, st
  <2> QED BY <2>1
<1>5. /\ Shape(e) /\ Same(e, d, {"s", "g"}) /\ e.s = [d.s EXCEPT ![k] = t]
      /\ e.g = [d.g EXCEPT !.st = [d.g.st EXCEPT ![id] = u]]
  <2>1. Shape(e) /\ Same(e, d, {"s", "g"})
    BY <1>1, ZenonT(40) DEF Shape, Same, Fields
  <2>2. e.s = [d.s EXCEPT ![k].swin = @ + v]
    BY <1>1, Zenon DEF Shape, Fields
  <2>3. e.g = [d.g EXCEPT !.st[id].wu = @ + v]
    BY <1>1, Zenon DEF Shape, Fields
  <2> HIDE DEF e
  <2>4. e.s = [d.s EXCEPT ![k] = t]
    BY <1>1, <2>2, Zenon
  <2>5. e.g = [d.g EXCEPT !.st = [d.g.st EXCEPT ![id] = u]]
    BY <1>1, <1>3, <2>3, Zenon DEF PastTyped, Past
  <2> QED BY <2>1, <2>4, <2>5, Zenon
<1>6. /\ t \in SlotType /\ t.swin = n /\ t.id = s.id /\ t.rlen = s.rlen /\ t.hdr = s.hdr
      /\ t.pend = s.pend /\ t.rwin = s.rwin /\ t.ready = s.ready /\ t.got = s.got /\ t.cl = s.cl
      /\ t.err = s.err /\ t.fl = s.fl
  <2> HIDE DEF s, n
  <2> QED BY <1>3, <1>4, Zenon DEF SlotType
<1>7. /\ u \in StreamType /\ u.wu = m /\ u.ph = st.ph /\ u.es = st.es /\ u.unproc = st.unproc
      /\ u.whole = st.whole /\ u.retry = st.retry /\ u.dat = st.dat /\ u.read = st.read /\ u.sent = st.sent
  <2> HIDE DEF st, m
  <2> QED BY <1>3, <1>4, Zenon DEF StreamType
<1> HIDE DEF e, t, u
<1>8. Granted(t, u, d.p_win)
  <2> DEFINE a == s.swin  w == st.wu  z == st.sent
  <2>1. a = d.p_win + w - z /\ a \in Int /\ w \in Int /\ z \in Int /\ n = a + v /\ m = w + v
    BY <1>3, <1>4 DEF Granted
  <2> HIDE DEF a, w, n, m, z
  <2>2. n = d.p_win + m - z
    BY <1>4, <2>1
  <2> QED BY <1>6, <1>7, <2>2, Zenon DEF Granted, z
<1> HIDE DEF s, st, n, m
<1>9. Replaced(e, d, k, t, id, u)
  BY <1>1, <1>3, <1>5, <1>6, <1>7, ReplacedIs, Zenon
<1>10. Closing(t, u, FALSE) /\ Paid(t) /\ Rest(t) = Rest(s)
  BY <1>3, <1>6, <1>7, Zenon DEF Closing, Paid, Rest, Has, BothEnds
<1>11. Counting(t, u, Idle0)
  BY <1>3, <1>6, <1>7, <1>10, Zenon DEF Counting, Has, ClChecked
<1>12. d.s[k].id = id /\ t.id = id /\ Rest(t) = Rest(d.s[k]) /\ (d.g.st[id].unproc => u.unproc)
       /\ u.whole /\ u.retry
  BY <1>3, <1>6, <1>7, <1>10, Zenon DEF s, st
<1>13. t.err = "RETRY" => u.unproc
  BY <1>1, <1>3, <1>6, <1>7, Zenon DEF Kept, s, st
<1>14. EndDone(e, d)
  BY <1>3, <1>8, <1>9, <1>10, <1>11, <1>12, <1>13, ReplacedKeeps, Zenon
<1> QED BY <1>14, Zenon DEF e

LEMMA WuEnd ==
    ASSUME NEW d, Ready(d), d.f.t = "WU", NEW k, k = Live(d, d.f.sid)
    PROVE  EndDone(wu_end(d, k), d)
<1> DEFINE v == d.f.n  e == wu_end(d, k)
<1>1. d.f \in Frames \cup {NoFrame} /\ InBlock(d)
  BY ReadyIs, Zenon
<1>2. v \in Nat
  BY <1>1, FrameTyped, Zenon
<1>3. d.b.s = 0
  BY <1>1, Zenon DEF InBlock
<1>4. k # 0 => /\ k \in Slots /\ d.f.sid # 0 /\ d.s[k].id = d.f.sid
               /\ ~Has(d.s[k], "RST") /\ ~BothEnds(d.s[k])
  BY LiveIs, Zenon
<1>5. CASE d.f.sid = 0
  <2>1. CASE v = 0 \/ d.cwin + v > MAXWIN
    <3>1. e = h2_conn_err(d)
      BY <1>5, <2>1, Zenon DEF wu_end
    <3> QED BY <3>1, ConnErrEnds, Zenon
  <2>2. CASE ~(v = 0 \/ d.cwin + v > MAXWIN)
    <3> DEFINE z == [d EXCEPT !.cwin = @ + v]
    <3>1. e = z
      BY <1>5, <2>2, Zenon DEF wu_end
    <3> HIDE DEF v, e
    <3>2. EndDone(z, d)
      BY <1>2, WuConn, Zenon
    <3> QED BY <3>1, <3>2, Zenon DEF e
  <2> QED BY <2>1, <2>2, Zenon
<1>6. CASE d.f.sid # 0 /\ k = 0
  <2>1. e = d
    BY <1>6, Zenon DEF wu_end
  <2> QED BY <2>1, NothingEnds, Zenon
<1>7. CASE d.f.sid # 0 /\ k # 0
  <2>1. CASE v = 0 \/ d.s[k].swin + v > MAXWIN
    <3> DEFINE z == h2_stream_err(d, k)
    <3>1. e = z
      BY <1>7, <2>1, Zenon DEF wu_end
    <3>2. d.s[k].id # 0
      BY <1>4, <1>7, Zenon
    <3> HIDE DEF e
    <3>3. EndDone(z, d)
      BY <1>3, <1>4, <1>7, <3>2, WuFails, Zenon
    <3> QED BY <3>1, <3>3, Zenon DEF e
  <2>2. CASE ~(v = 0 \/ d.s[k].swin + v > MAXWIN)
    <3> DEFINE i == d.f.sid
               z == [d EXCEPT !.s[k].swin = @ + v, !.g.st[i].wu = @ + v]
    <3>1. e = z
      BY <1>7, <2>2, Zenon DEF wu_end
    <3>2. i = d.f.sid /\ i # 0 /\ d.s[k].id = i /\ k \in Slots
      BY <1>4, <1>7, Zenon
    <3> HIDE DEF v, i, e
    <3>3. EndDone(z, d)
      BY <1>2, <1>3, <3>2, WuStream, Zenon
    <3> QED BY <3>1, <3>3, Zenon DEF e
  <2> QED BY <2>1, <2>2, Zenon
<1> QED BY <1>5, <1>6, <1>7, Zenon

\* GOAWAY: every stream above the last one the server handled is lost.
LostSlot(s) == [s EXCEPT !.fl = @ \cup {"RST"}, !.err = IF s.err = "OK" THEN "RETRY" ELSE s.err]
LEMMA LostSlotIs ==
    ASSUME NEW s \in SlotType, s.err = "OK"
    PROVE  LET t == LostSlot(s)
           IN  /\ t \in SlotType /\ t.id = s.id /\ t.rlen = s.rlen /\ t.hdr = s.hdr /\ t.swin = s.swin
               /\ t.err = "RETRY" /\ Has(t, "RST") /\ (Has(t, "RECV_END") <=> Has(s, "RECV_END"))
<1> DEFINE fl == s.fl \cup {"RST"}  t == LostSlot(s)
<1>1. fl \in SUBSET Flags
  BY Zenon DEF SlotType, Flags
<1>2. t = [s EXCEPT !.fl = fl, !.err = "RETRY"]
  BY Zenon DEF LostSlot
<1> HIDE DEF t, fl
<1>3. /\ t \in SlotType /\ t.id = s.id /\ t.rlen = s.rlen /\ t.hdr = s.hdr /\ t.swin = s.swin
      /\ t.err = "RETRY" /\ t.fl = fl
  BY <1>1, <1>2, Zenon DEF SlotType
<1> QED BY <1>3, Zenon DEF Has, t, fl

\* What h2_goaway does.
WentAway(e, d, low, lost) ==
    /\ Typed(e) /\ Same(e, d, {"goaway", "last_id", "goaway_err", "s", "g"}) /\ PastSame(e, d, {"st"})
    /\ e.last_id = low
    /\ \A k \in Slots : e.s[k] = IF k \in lost THEN LostSlot(d.s[k]) ELSE d.s[k]
    /\ \A i \in Ids : e.g.st[i] = IF \E k \in lost : d.s[k].id = i
                                  THEN [d.g.st[i] EXCEPT !.ph = "reset"] ELSE d.g.st[i]
Lost(d, low) ==
    {k \in Slots : d.s[k].id > low /\ ~Has(d.s[k], "RST") /\ ~Has(d.s[k], "RECV_END")}
LEMMA WentAwayIs ==
    ASSUME NEW d, Ready(d), d.f.t = "GOAWAY"
    PROVE  LET low == IF ~d.goaway \/ d.f.n < d.last_id THEN d.f.n ELSE d.last_id
           IN  /\ WentAway(h2_goaway(d, d.f.n, d.f.code), d, low, Lost(d, low))
               /\ \A k \in Lost(d, low) : d.s[k].err = "OK"
               /\ low \in Nat /\ \A i \in Ids : i > low => d.g.st[i].unproc
<1> DEFINE last == d.f.n  code == d.f.code
           low == IF ~d.goaway \/ last < d.last_id THEN last ELSE d.last_id
           lost == Lost(d, low)
           f == [k \in Slots |-> IF k \in lost THEN LostSlot(d.s[k]) ELSE d.s[k]]
           h == [id \in Ids |-> IF \E k \in lost : d.s[k].id = id
                                THEN [d.g.st[id] EXCEPT !.ph = "reset"] ELSE d.g.st[id]]
           e == h2_goaway(d, last, code)
           b == d.goaway_err \/ code # "NO_ERROR"
<1>1. /\ Typed(d) /\ Shape(d) /\ Told(d) /\ Good(d, 0) /\ d.err = "OK" /\ d.s \in [Slots -> SlotType] /\ PastTyped(d.g)
      /\ d.f \in Frames \cup {NoFrame}
  BY ReadyIs, Zenon
<1>2. last \in Nat /\ Simple(d)
  BY <1>1, FrameTyped, Zenon DEF Typed
<1>3. low \in Nat
  BY <1>2, Zenon DEF Simple
<1>4. \A i \in Ids : i > low => d.g.st[i].unproc
  BY <1>1, <1>2, Zenon DEF Told, Simple
<1>5. ASSUME NEW k \in lost
      PROVE  k \in Slots /\ d.s[k].err = "OK" /\ d.s[k].id # 0 /\ LostSlot(d.s[k]) \in SlotType
  <2>1. k \in Slots /\ d.s[k].id > low /\ ~Has(d.s[k], "RST") /\ d.s[k] \in SlotType
    BY <1>1, Zenon DEF Lost
  <2> DEFINE s == d.s[k]
  <2>2. s.id # 0
    <3>1. s.id \in Nat /\ s.id > low
      BY <2>1, Zenon DEF SlotType
    <3> HIDE DEF low, s
    <3> QED BY <1>3, <3>1
  <2>3. s.err = "OK"
    <3>1. SlotOK(d, k)
      BY <1>1, <2>1, Zenon DEF Good
    <3> QED BY <2>1, <2>2, <3>1, Zenon DEF SlotOK, Closing
  <2> HIDE DEF s
  <2>4. s \in SlotType
    BY <2>1, Zenon DEF s
  <2>5. LostSlot(s) \in SlotType
    BY <2>3, <2>4, LostSlotIs, Zenon
  <2> QED BY <2>1, <2>2, <2>3, <2>5, Zenon DEF s
<1> HIDE DEF low
<1>6. f \in [Slots -> SlotType]
  BY <1>1, <1>5, Zenon
<1>7. h \in [Ids -> StreamType]
  <2>1. ASSUME NEW i \in Ids PROVE h[i] \in StreamType
    <3> DEFINE st == d.g.st[i]
    <3>1. st \in StreamType
      BY <1>1, StreamTyped, Zenon
    <3>2. h[i] = [st EXCEPT !.ph = "reset"] \/ h[i] = st
      BY Zenon
    <3> HIDE DEF h, st
    <3> QED BY <3>1, <3>2, Zenon DEF StreamType
  <2> QED BY <2>1, Zenon
<1>8. e = [d EXCEPT !.goaway = TRUE, !.last_id = low, !.goaway_err = @ \/ code # "NO_ERROR",
                    !.s = f, !.g.st = h]
  <2>1. lost = {k \in Slots : d.s[k].id > low /\ ~Has(d.s[k], "RST") /\ ~Has(d.s[k], "RECV_END")}
    BY Zenon DEF Lost
  <2>2. \A k \in Slots : LostSlot(d.s[k]) = [d.s[k] EXCEPT !.fl = @ \cup {"RST"},
                                                           !.err = IF @ = "OK" THEN "RETRY" ELSE @]
    BY <1>1, Zenon DEF LostSlot, SlotType
  <2>3. f = [k \in Slots |-> IF k \in lost
                             THEN [d.s[k] EXCEPT !.fl = @ \cup {"RST"}, !.err = IF @ = "OK" THEN "RETRY" ELSE @]
                             ELSE d.s[k]]
    BY <2>2, Zenon
  <2> HIDE DEF lost
  <2> QED BY <2>1, <2>3, Zenon DEF h2_goaway, low
<1> HIDE DEF f, h, e
<1>9. /\ Shape(e) /\ Same(e, d, {"goaway", "last_id", "goaway_err", "s", "g"}) /\ e.goaway = TRUE
      /\ e.last_id = low /\ e.s = f /\ e.g = [d.g EXCEPT !.st = h]
  <2> DEFINE w == d.goaway_err \/ code # "NO_ERROR"  g == [d.g EXCEPT !.st = h]
  <2>1. e = [d EXCEPT !.goaway = TRUE, !.last_id = low, !.goaway_err = w, !.s = f, !.g = g]
    BY <1>1, <1>8, Zenon DEF Shape, Fields
  <2> HIDE DEF w, g
  <2>2. Shape(e) /\ Same(e, d, {"goaway", "last_id", "goaway_err", "s", "g"}) /\ e.goaway = TRUE
        /\ e.last_id = low /\ e.s = f /\ e.g = g
    BY <1>1, <2>1 DEF Shape, Same, Fields
  <2> QED BY <2>2, Zenon DEF g
<1>10. PastTyped(e.g) /\ e.g.st = h /\ PastSame(e, d, {"st"})
  <2> DEFINE g == d.g  z == e.g
  <2>1. PastTyped(g) /\ z = [g EXCEPT !.st = h]
    BY <1>1, <1>9, Zenon
  <2> HIDE DEF g, z
  <2>2. z = [x \in Past |-> z[x]] /\ z.st = h /\ \A x \in Past \ {"st"} : z[x] = g[x]
    BY <2>1, Zenon DEF PastTyped, Past
  <2>3. z.wire = g.wire /\ z.extra = g.extra /\ z.believed = g.believed /\ z.low = g.low
    BY <2>2, Zenon DEF Past
  <2>4. PastTyped(z)
    BY <1>7, <2>1, <2>2, <2>3, Zenon DEF PastTyped
  <2> QED BY <2>2, <2>4, Zenon DEF g, z, PastSame
<1>11. Typed(e)
  <2>1. Simple(e)
    BY <1>2, <1>3, <1>9, Zenon DEF Simple, Same, Fields
  <2>2. Same(e, d, Scalars \cup {"s", "g"})
    BY <1>9, Zenon DEF Same, Scalars, Fields
  <2> QED BY <1>1, <1>6, <1>9, <1>10, <2>1, <2>2, TypedWith, Zenon
<1>12. \A k \in Slots : e.s[k] = IF k \in lost THEN LostSlot(d.s[k]) ELSE d.s[k]
  BY <1>9, Zenon DEF f
<1>13. \A i \in Ids : e.g.st[i] = IF \E k \in lost : d.s[k].id = i
                                  THEN [d.g.st[i] EXCEPT !.ph = "reset"] ELSE d.g.st[i]
  BY <1>10, Zenon DEF h
<1>14. WentAway(e, d, low, lost)
  BY <1>9, <1>10, <1>11, <1>12, <1>13, Zenon DEF WentAway
<1> QED BY <1>3, <1>4, <1>5, <1>14, Zenon DEF low, e

LEMMA GoawayKeeps ==
    ASSUME NEW d, Ready(d), d.f.t = "GOAWAY", NEW low \in Nat, NEW lost, lost = Lost(d, low),
           \A k \in lost : d.s[k].err = "OK", \A i \in Ids : i > low => d.g.st[i].unproc,
           NEW e, WentAway(e, d, low, lost)
    PROVE  EndDone(e, d)
<1>1. /\ Typed(d) /\ Told(d) /\ Good(d, 0) /\ d.err = "OK" /\ d.s \in [Slots -> SlotType] /\ PastTyped(d.g)
      /\ Kept(d) /\ Conn(d) /\ d.fs = 0 /\ d.cpend < CREDIT /\ d.tx \in Nat /\ d.tx <= TX /\ ~d.fault
      /\ d.g.wire /\ InBlock(d)
  BY ReadyIs, Zenon
<1>2. ~d.b.in /\ d.b.s = 0
  BY <1>1, Zenon DEF InBlock
<1>3. /\ Typed(e) /\ Same(e, d, {"goaway", "last_id", "goaway_err", "s", "g"}) /\ PastSame(e, d, {"st"})
      /\ e.last_id = low
      /\ \A k \in Slots : e.s[k] = IF k \in lost THEN LostSlot(d.s[k]) ELSE d.s[k]
      /\ \A i \in Ids : e.g.st[i] = IF \E k \in lost : d.s[k].id = i
                                    THEN [d.g.st[i] EXCEPT !.ph = "reset"] ELSE d.g.st[i]
  BY Zenon DEF WentAway
<1>4. /\ e.err = d.err /\ e.tx = d.tx /\ e.f = d.f /\ e.fs = 0
      /\ e.p_win = d.p_win /\ e.cpend = d.cpend /\ e.crwin = d.crwin /\ e.fault = d.fault
      /\ e.eof = d.eof /\ e.rx = d.rx /\ e.fh = d.fh
      /\ e.next_id = d.next_id /\ e.enc = d.enc /\ e.b = d.b
  BY <1>1, <1>3, Zenon DEF Same, Fields
<1>5. e.g.wire = d.g.wire /\ e.g.believed = d.g.believed /\ e.g.low = d.g.low /\ e.g.extra = d.g.extra
  BY <1>3, Zenon DEF PastSame, Past
<1>6. ASSUME NEW k \in Slots
      PROVE  /\ e.s[k].id = d.s[k].id /\ e.s[k].rlen = d.s[k].rlen /\ e.s[k].hdr = d.s[k].hdr
             /\ k \notin lost => e.s[k] = d.s[k]
             /\ k \in lost => /\ d.s[k].id \in Nat /\ d.s[k].id > low /\ e.s[k].swin = d.s[k].swin
                              /\ e.s[k].err = "RETRY"
                              /\ Has(e.s[k], "RST") /\ ~Has(e.s[k], "RECV_END")
  <2> DEFINE s == d.s[k]  t == LostSlot(s)
  <2>1. s \in SlotType
    BY <1>1, Zenon
  <2>2. CASE k \notin lost
    BY <1>3, <2>2, Zenon
  <2>3. CASE k \in lost
    <3>1. s.err = "OK" /\ s.id > low /\ ~Has(s, "RECV_END") /\ s.id \in Nat
      BY <2>1, <2>3, Zenon DEF Lost, SlotType
    <3>2. e.s[k] = t
      BY <1>3, <2>3, Zenon
    <3> HIDE DEF s, t
    <3>3. /\ t \in SlotType /\ t.id = s.id /\ t.rlen = s.rlen /\ t.hdr = s.hdr /\ t.swin = s.swin
          /\ t.err = "RETRY" /\ Has(t, "RST") /\ (Has(t, "RECV_END") <=> Has(s, "RECV_END"))
      BY <2>1, <3>1, LostSlotIs, Zenon DEF t
    <3> QED BY <2>3, <3>1, <3>2, <3>3, Zenon DEF s
  <2> QED BY <2>2, <2>3, Zenon
<1>7. ASSUME NEW i \in Ids
      PROVE  LET u == e.g.st[i]  st == d.g.st[i]
             IN  /\ u.sent = st.sent /\ u.wu = st.wu /\ u.dat = st.dat /\ u.es = st.es
                 /\ u.unproc = st.unproc /\ u.read = st.read /\ u.whole = st.whole /\ u.retry = st.retry
                 /\ (\E k \in lost : d.s[k].id = i) => u.ph = "reset"
                 /\ ~(\E k \in lost : d.s[k].id = i) => u = st
  <2> DEFINE st == d.g.st[i]  u == e.g.st[i]
  <2>1. st \in StreamType
    BY <1>1, StreamTyped, Zenon
  <2> DEFINE gone == \E k \in lost : d.s[k].id = i
  <2>2. u = IF gone THEN [st EXCEPT !.ph = "reset"] ELSE st
    BY <1>3, Zenon
  <2> HIDE DEF st, u, gone
  <2>3. /\ u.sent = st.sent /\ u.wu = st.wu /\ u.dat = st.dat /\ u.es = st.es
        /\ u.unproc = st.unproc /\ u.read = st.read /\ u.whole = st.whole /\ u.retry = st.retry
        /\ (gone => u.ph = "reset") /\ (~gone => u = st)
    BY <2>1, <2>2, Zenon DEF StreamType
  <2> QED BY <2>3, Zenon DEF u, st, gone
<1>8. Kept(e)
  <2>1. ASSUME NEW k \in Slots, e.s[k].err = "RETRY"
        PROVE  e.s[k].id \in Ids /\ e.g.st[e.s[k].id].unproc
    <3>1. d.s[k].id \in Ids /\ d.g.st[d.s[k].id].unproc
      <4>1. CASE k \in lost
        <5>1. SlotOK(d, k)
          BY <1>1, Zenon DEF Good
        <5>2. d.s[k].id # 0 /\ d.s[k].id > low
          BY <1>6, <4>1
        <5> QED BY <5>1, <5>2, Zenon DEF SlotOK
      <4>2. CASE k \notin lost
        BY <1>1, <1>6, <2>1, <4>2, Zenon DEF Kept
      <4> QED BY <4>1, <4>2, Zenon
    <3> QED BY <1>6, <1>7, <3>1, Zenon
  <2>2. \A i \in Ids : e.g.st[i].whole /\ e.g.st[i].retry
    BY <1>1, <1>7, Zenon DEF Kept
  <2>3. e.g.wire /\ ~e.fault /\ e.tx <= TX
    BY <1>1, <1>4, <1>5, Zenon
  <2> QED BY <1>3, <2>1, <2>2, <2>3, Zenon DEF Kept
<1>9. Distinct(e) /\ Fresh(e) /\ Concluded(e)
  <2>1. Distinct(e)
    BY <1>1, <1>6 DEF Conn, Distinct
  <2>2. Fresh(e)
    <3>1. ASSUME NEW i \in Ids, i >= e.next_id
          PROVE  e.g.st[i] = d.g.st[i]
      <4>1. ASSUME NEW k \in lost, d.s[k].id = i PROVE FALSE
        <5>1. k \in Slots
          BY Zenon DEF Lost
        <5>2. SlotOK(d, k)
          BY <1>1, <5>1, Zenon DEF Good
        <5>3. i \in Nat /\ d.next_id \in Nat /\ i # 0
          BY <1>1, Consts, Zenon DEF Typed, Simple
        <5>4. i < d.next_id
          BY <4>1, <5>2, <5>3, Zenon DEF SlotOK
        <5> QED BY <1>4, <3>1, <5>3, <5>4
      <4> QED BY <1>3, <4>1, Zenon
    <3> QED BY <1>1, <1>4, <3>1 DEF Conn, Fresh
  <2>3. Concluded(e)
    <3>1. ASSUME NEW i \in Ids
          PROVE  \/ e.g.st[i].ph \in {"idle", "reset"}
                 \/ e.g.st[i].ph = "ended" /\ e.g.st[i].es
                 \/ \E k \in Slots : e.s[k].id = i
      <4>1. \/ d.g.st[i].ph \in {"idle", "reset"}
            \/ d.g.st[i].ph = "ended" /\ d.g.st[i].es
            \/ \E k \in Slots : d.s[k].id = i
        BY <1>1, Zenon DEF Conn, Concluded
      <4>2. (\E k \in Slots : d.s[k].id = i) => \E k \in Slots : e.s[k].id = i
        BY <1>6, Zenon
      <4>3. e.g.st[i] = d.g.st[i] \/ e.g.st[i].ph = "reset"
        BY <1>7, Zenon
      <4> QED BY <4>1, <4>2, <4>3, Zenon
    <3> QED BY <3>1, Zenon DEF Concluded
  <2> QED BY <2>1, <2>2, <2>3, Zenon
<1>10. Sum(e)
  <2>1. ASSUME NEW j \in Slots PROVE Unread(e, j) + Coming(e, j) = Unread(d, j) + Coming(d, j)
    <3>1. e.fs # j /\ d.fs # j
      BY <1>1, <1>4, Consts, Zenon
    <3>2. Coming(e, j) = 0 /\ Coming(d, j) = 0
      BY <3>1, Zenon DEF Coming
    <3>3. Unread(e, j) = Unread(d, j)
      BY <1>6, Zenon DEF Unread
    <3> QED BY <3>2, <3>3, Zenon
  <2>2. Held(e) = Held(d)
    BY <1>1, <2>1, HeldSame, Zenon
  <2>3. e.g.extra = d.g.extra
    BY <1>5, Zenon
  <2>4. Sum(d)
    BY <1>1, Zenon DEF Conn
  <2> HIDE DEF WentAway
  <2> QED BY <1>4, <2>2, <2>3, <2>4, Zenon DEF Sum
<1>11. Taking(e) /\ InBlock(e) /\ Told(e) /\ Encoding(e) /\ (e.eof # "no" => ~e.rx)
  <2>1. Taking(e) /\ InBlock(e) /\ Encoding(e) /\ (e.eof # "no" => ~e.rx)
    BY <1>1, <1>2, <1>4, <1>5, Zenon DEF Taking, InBlock, Conn, Encoding
  <2>2. \A i \in Ids : e.g.st[i].unproc = d.g.st[i].unproc
    BY <1>7, Zenon
  <2>3. Told(e)
    BY <1>1, <1>3, <1>4, <2>2, Zenon DEF Told
  <2> QED BY <2>1, <2>3, Zenon
<1>12. \A k \in Slots : e.s[k].id = 0 => e.s[k] = Slot0
  <2>1. ASSUME NEW k \in Slots, e.s[k].id = 0 PROVE e.s[k] = Slot0
    <3>1. k \notin lost
      BY <1>6, <2>1
    <3> QED BY <1>1, <1>6, <2>1, <3>1 DEF Conn
  <2> QED BY <2>1, Zenon
<1>13. Conn(e)
  BY <1>9, <1>10, <1>11, <1>12, Zenon DEF Conn
<1>14. Owing(e, 0)
  <2>1. ASSUME NEW k \in Slots PROVE Paid(e.s[k])
    <3>1. Paid(d.s[k])
      BY <1>1, Consts, Zenon DEF Good, Owing
    <3> QED BY <1>6, <3>1, Zenon DEF Paid
  <2> QED BY <1>1, <1>4, <2>1, Zenon DEF Owing
<1>15. ASSUME NEW k \in Slots PROVE SlotOK(e, k)
  <2> DEFINE s == d.s[k]  t == e.s[k]  id == s.id  st == d.g.st[id]  u == e.g.st[id]
  <2>1. CASE id = 0
    BY <1>6, <2>1, Zenon DEF SlotOK
  <2>2. CASE id # 0
    <3>1. /\ id \in Ids /\ id < d.next_id /\ Closing(s, st, Part(d, k).es \/ Ending(d, k))
          /\ Counting(s, st, Part(d, k)) /\ Granted(s, st, d.p_win)
      <4>1. SlotOK(d, k)
        BY <1>1, Zenon DEF Good
      <4> QED BY <2>2, <4>1, Zenon DEF SlotOK
    <3>2. Part(e, k) = Idle0 /\ Part(d, k) = Idle0 /\ ~Ending(e, k) /\ ~Ending(d, k)
      BY <1>1, <1>2, <1>4, Consts, Zenon DEF Part, Ending
    <3>3. CASE k \in lost
      <4>1. /\ t.id = id /\ t.rlen = s.rlen /\ t.hdr = s.hdr /\ t.swin = s.swin /\ t.err = "RETRY"
            /\ Has(t, "RST") /\ ~Has(t, "RECV_END")
        BY <1>6, <3>3, Zenon
      <4>2. u.ph = "reset" /\ u.wu = st.wu /\ u.sent = st.sent
        BY <1>7, <3>1, <3>3, Zenon
      <4> HIDE DEF s, t, st, u
      <4>3. Closing(t, u, Part(e, k).es \/ Ending(e, k))
        BY <4>1, <4>2, Zenon DEF Closing
      <4>4. Counting(t, u, Part(e, k))
        BY <3>1, <4>1, Zenon DEF Counting
      <4>5. Granted(t, u, e.p_win)
        BY <1>4, <3>1, <4>1, <4>2, Zenon DEF Granted
      <4> QED BY <1>4, <3>1, <4>1, <4>3, <4>4, <4>5, Zenon DEF SlotOK, t, u
    <3>4. CASE k \notin lost
      <4>1. ASSUME NEW j \in lost, d.s[j].id = id PROVE FALSE
        <5>1. j \in Slots
          BY Zenon DEF Lost
        <5>2. j = k
          BY <1>1, <2>2, <4>1, <5>1, Zenon DEF Conn, Distinct
        <5> QED BY <3>4, <5>2, Zenon
      <4>2. u = st /\ t = s
        BY <1>3, <3>1, <3>4, <4>1, Zenon
      <4> QED BY <1>4, <3>1, <3>2, <4>2, Zenon DEF SlotOK
    <3> QED BY <3>3, <3>4, Zenon
  <2> QED BY <2>1, <2>2, Zenon
<1>16. Good(e, 0)
  BY <1>8, <1>13, <1>14, <1>15, Zenon DEF Good
<1>17. Named(e, d)
  BY <1>6, Zenon DEF Named
<1>18. e.tx <= d.tx + 3
  BY <1>1, <1>4
<1> QED BY <1>1, <1>4, <1>16, <1>17, <1>18, Zenon DEF EndDone

LEMMA GoawayEnd ==
    ASSUME NEW d, Ready(d), d.f.t = "GOAWAY"
    PROVE  EndDone(h2_goaway(d, d.f.n, d.f.code), d)
<1> DEFINE low == IF ~d.goaway \/ d.f.n < d.last_id THEN d.f.n ELSE d.last_id
           e == h2_goaway(d, d.f.n, d.f.code)
           lost == Lost(d, low)
<1>1. /\ WentAway(e, d, low, lost)
      /\ \A k \in lost : d.s[k].err = "OK"
      /\ low \in Nat /\ \A i \in Ids : i > low => d.g.st[i].unproc
  BY WentAwayIs, Zenon
<1> HIDE DEF low, e
<1>2. lost = Lost(d, low)
  BY Zenon
<1> HIDE DEF lost
<1>3. EndDone(e, d)
  BY <1>1, <1>2, GoawayKeeps, Zenon
<1> QED BY <1>3, Zenon DEF e
=============================================================================
