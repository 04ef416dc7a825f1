------------------------------- MODULE MCH2 -------------------------------
(***************************************************************************)
(* The HTTP/2 client for TLC: one plan for each question, in one run.      *)
(***************************************************************************)
EXTENDS H2

MCLength == [s200 |-> 1, s204 |-> 1, s103 |-> 1, cl1 |-> 1, cl2 |-> 1, x |-> 1, v |-> 1, e |-> 0,
             te |-> 1, BAD |-> 1] @@ (":status" :> 1) @@ ("content-length" :> 1)
MCStatic == <<[n |-> ":status", v |-> "s200"], [n |-> ":status", v |-> "s103"],
              [n |-> "content-length", v |-> "e"]>>

Ref(i)       == [t |-> "index", ins |-> FALSE, i |-> i, n |-> "e", v |-> "e", m |-> 0]
Lit(ins, n, v) == [t |-> "lit", ins |-> ins, i |-> 0, n |-> n, v |-> v, m |-> 0]
LitOf(ins, i, v) == [t |-> "lit", ins |-> ins, i |-> i, n |-> "e", v |-> v, m |-> 0]
Resize(m)    == [t |-> "size", ins |-> FALSE, i |-> 0, n |-> "e", v |-> "e", m |-> m]

Frame(t, sid) == [NoFrame EXCEPT !.t = t, !.sid = sid]
Data(sid, len, pad, es) == [Frame("DATA", sid) EXCEPT !.len = len, !.pad = pad, !.es = es]
Headers(sid, es, eh, rep) == [Frame("HEADERS", sid) EXCEPT !.len = 1, !.es = es, !.eh = eh, !.v = rep]
Cont(sid, eh, rep) == [Frame("CONT", sid) EXCEPT !.len = 1, !.eh = eh, !.v = rep]
Rst(sid, code) == [Frame("RST", sid) EXCEPT !.len = 1, !.code = code]
Wu(sid, n) == [Frame("WU", sid) EXCEPT !.len = 1, !.n = n]
Settings(list) == [Frame("SETTINGS", 0) EXCEPT !.v = list]
Setting(id, v) == [id |-> id, v |-> v]
Ping == [Frame("PING", 0) EXCEPT !.len = 1]
Goaway(last, code) == [Frame("GOAWAY", 0) EXCEPT !.len = 1, !.n = last, !.code = code]

Ok(sid, es) == Headers(sid, es, TRUE, <<Ref(1)>>)
Plan == [n |-> 0, frames |-> {}, free |-> {}, reqs |-> {}, caps |-> {}, last_id |-> 5,
         cuts |-> FALSE,
         staged |-> FALSE, eof |-> FALSE, wr |-> FALSE]
Get == [body |-> 0, head |-> FALSE, hlen |-> 1, list |-> 1]


\* A response and its DATA, padded and cut anywhere, with streams closed in the middle of a frame.
RecvPlan == [Plan EXCEPT !.n = 6, !.last_id = 3, !.cuts = TRUE, !.eof = TRUE, !.reqs = {Get}, !.caps = {1, 4},
    !.frames = {[Headers(1, FALSE, TRUE, <<LitOf(TRUE, 1, "s200")>>) EXCEPT !.len = 4, !.pad = 1],
                Data(1, 2, -1, FALSE), Data(1, 3, 1, TRUE), Data(3, 2, -1, FALSE),
                Settings(<<>>)}]

\* Uploads under both windows while the server moves them, resets, or goes away.
SendPlan == [Plan EXCEPT !.n = 4, !.last_id = 3, !.staged = TRUE, !.eof = TRUE, !.wr = TRUE,
    !.reqs = {[Get EXCEPT !.body = 7, !.hlen = 12], [Get EXCEPT !.body = 2, !.hlen = 10, !.list = 3]},
    !.frames = {Settings(<<>>), Settings(<<Setting("window", 2), Setting("list", 2)>>),
                Settings(<<Setting("window", 4), Setting("conc", 1)>>),
                Wu(0, 3), Wu(1, 3), Wu(1, 0), Rst(1, "REFUSED"), Rst(3, "CANCEL"), Rst(1, "NO_ERROR"),
                Goaway(1, "NO_ERROR"), Goaway(0, "ENHANCE_YOUR_CALM"), Ok(1, TRUE), Ping}]

\* Field blocks, good and malformed, split, interim, and the dynamic table.
HeadersPlan == [Plan EXCEPT !.n = 5, !.last_id = 3, !.reqs = {Get, [Get EXCEPT !.head = TRUE]},
    !.caps = {4},
    !.frames = {Settings(<<>>), Settings(<<Setting("table", 4)>>), Ok(3, FALSE),
                Headers(1, FALSE, FALSE, <<Ref(1), Lit(TRUE, "x", "v")>>),
                Cont(1, TRUE, <<LitOf(TRUE, 3, "cl2")>>), Cont(1, TRUE, <<Resize(4)>>),
                Headers(3, FALSE, TRUE, <<Resize(4), Ref(1), Ref(4)>>),
                Headers(1, FALSE, TRUE, <<Ref(2)>>), Data(1, 2, -1, TRUE), Data(1, 1, -1, TRUE)}]

\* Trailers after DATA, in two frames.
TrailersPlan == [Plan EXCEPT !.n = 5, !.last_id = 3, !.reqs = {Get}, !.caps = {4},
    !.frames = {Settings(<<>>), Ok(1, FALSE), Data(1, 2, -1, FALSE),
                Headers(1, TRUE, FALSE, <<Lit(TRUE, "x", "v")>>),
                Cont(1, TRUE, <<>>), Cont(1, TRUE, <<Ref(1)>>)}]

\* Frames without end: the caps of a call.
FloodPlan == [Plan EXCEPT !.n = 2, !.last_id = 1, !.reqs = {[Get EXCEPT !.body = 1]}, !.caps = {4},
    !.frames = {Settings(<<>>), Settings(<<Setting("window", 0)>>)},
    !.free = {Ping, Headers(1, FALSE, TRUE, <<Ref(2)>>), Data(1, 0, -1, FALSE), Wu(0, 1), Ok(1, FALSE)}]

MCPlans == [recv |-> RecvPlan, send |-> SendPlan, headers |-> HeadersPlan,
            trailers |-> TrailersPlan, flood |-> FloodPlan]
=============================================================================
