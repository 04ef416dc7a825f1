------------------------------- MODULE MCH3 -------------------------------
(***************************************************************************)
(* The HTTP/3 client for TLC: one plan for each question, in one run.      *)
(***************************************************************************)
EXTENDS H3

MCLength == [s200 |-> 1, s204 |-> 1, s103 |-> 1, cl1 |-> 1, cl2 |-> 1, x |-> 1, v |-> 1, e |-> 0,
             te |-> 1, BAD |-> 1, GET |-> 1, PROTO |-> 0, cookie |-> 1]
            @@ (":status" :> 1) @@ ("content-length" :> 1) @@ (":method" :> 1) @@ (":path" :> 1)
MCStatic == <<[n |-> ":status", v |-> "s200"], [n |-> ":status", v |-> "s103"],
              [n |-> "content-length", v |-> "e"], [n |-> ":method", v |-> "GET"],
              [n |-> "cookie", v |-> "e"]>>

Ref(i)     == [Line0 EXCEPT !.t = "index", !.i = i]
LitOf(i, v) == [Line0 EXCEPT !.t = "nameref", !.i = i, !.v = v]
Lit(n, v)  == [Line0 EXCEPT !.n = n, !.v = v]
Sec(lines) == [NoSection EXCEPT !.lines = lines]

Frame(t, len) == [NoFrame EXCEPT !.t = t, !.len = len]
Headers(lines) == [Frame("HEADERS", 1) EXCEPT !.sec = Sec(lines)]
Data(len) == Frame("DATA", len)
Settings(set) == [Frame("SETTINGS", 1) EXCEPT !.set = set]
Goaway(id) == [Frame("GOAWAY", 1) EXCEPT !.n = id]
Kind(t) == Frame(t, 0)
Ok == Headers(<<Ref(0)>>)
OkLen(v) == Headers(<<Ref(0), LitOf(2, v)>>)

Field(n, v, never) == [n |-> n, v |-> v, never |-> never]
Get == [NoReq EXCEPT !.hlen = 1, !.fields = <<Field(":method", "GET", FALSE), Field("cookie", "e", TRUE)>>]
Post(body) == [Get EXCEPT !.body = body, !.fields = <<Field("x", "v", FALSE)>>]

NoUni == [k \in Kinds |-> {}]
Plan == [n |-> 0, kinds |-> {}, uni |-> NoUni, req |-> {}, reqs |-> {}, caps |-> {}, cuts |-> FALSE,
         fin |-> FALSE, rst |-> {}, stop |-> FALSE, die |-> FALSE,
         nreq |-> 1, stall |-> 1, started |-> TRUE]

\* The server's unidirectional streams and their instructions.
UniPlan == [Plan EXCEPT !.n = 3, !.kinds = {Kind(t) : t \in Kinds}, !.fin = TRUE, !.reqs = {Get},
    !.uni = [NoUni EXCEPT !.ctl = {Settings(<<>>), Frame("grease", 1), Frame("DATA", 0), Frame("SETTINGS", 3)},
                         !.enc = {Frame("cap0", 1), Frame("insert", 1)},
                         !.dec = {Frame("cancel", 2), Frame("ack", 1)}, !.skip = {Frame("octets", 2)}]]

\* Its control stream.
ControlPlan == [Plan EXCEPT !.n = 4, !.kinds = {Kind("ctl")}, !.fin = TRUE, !.reqs = {Get},
    !.uni = [NoUni EXCEPT !.ctl = {Settings(<<>>), Settings(<<[id |-> "h2", v |-> 1]>>), Goaway(0), Goaway(4), Goaway(3)}]]

\* The handle opens while the control stream comes in pieces, is stopped or reset.
StartPlan == [Plan EXCEPT !.n = 3, !.started = FALSE, !.kinds = {Kind("ctl"), Kind("skip")}, !.cuts = TRUE,
    !.rst = {"CANCELED"}, !.stop = TRUE, !.die = TRUE, !.reqs = {[Get EXCEPT !.list = 2]},
    !.uni = [NoUni EXCEPT !.ctl = {Settings(<<[id |-> "list", v |-> 1]>>), Settings(<<>>)}]]

\* One response, cut anywhere.
ResponsePlan == [Plan EXCEPT !.n = 3, !.cuts = TRUE, !.fin = TRUE, !.reqs = {Get}, !.caps = {1},
    !.req = {Ok, OkLen("cl2"), Headers(<<Lit("x", "v")>>), Data(2)}]

\* A response with interim ones before it, content and trailers, ended and reset.
ContentPlan == [Plan EXCEPT !.n = 5, !.fin = TRUE, !.reqs = {Get}, !.caps = {2},
    !.req = {Headers(<<Ref(1)>>), OkLen("cl2"), Data(2), Headers(<<Lit("x", "v")>>)}]

\* Sections and frames that must not be.
MalformedPlan == [Plan EXCEPT !.n = 2, !.fin = TRUE, !.rst = {"REJECTED", "CANCELED"}, !.caps = {4},
    !.reqs = {Get, [Get EXCEPT !.head = TRUE]},
    !.req = {Ok, Headers(<<>>), Headers(<<Ref(0), Ref(0)>>), Headers(<<Ref(0), Lit(":path", "x")>>),
             Headers(<<Ref(0), Lit("te", "x")>>), Headers(<<Ref(0), Lit("BAD", "x")>>),
             Headers(<<LitOf(0, "s204"), LitOf(2, "cl1")>>), OkLen("cl2"),
             Headers(<<Ref(0), LitOf(2, "cl1"), LitOf(2, "cl1")>>), Headers(<<Ref(0), LitOf(2, "cl1"), LitOf(2, "cl2")>>),
             Headers(<<Lit("x", "v"), Ref(0)>>), Headers(<<Ref(9)>>), Headers(<<[Ref(0) EXCEPT !.T = FALSE]>>),
             [Ok EXCEPT !.sec.ric = 1], [Ok EXCEPT !.sec.sign = 1], [Ok EXCEPT !.len = L + 1],
             Headers(<<Ref(0), Lit("x", "v"), Lit("x", "v"), Lit("x", "v")>>), Headers(<<LitOf(0, "x")>>),
             Headers(<<[Ref(0) EXCEPT !.t = "postbase"]>>),
             Frame("SETTINGS", 1), Frame("ping", 1), Frame("PUSH", 1), Frame("grease", 1), Data(0), Data(2)}]

\* Two requests with bodies larger than the buffer, while the server goes away, stops or resets.
SendPlan == [Plan EXCEPT !.n = 3, !.nreq = 2, !.stop = TRUE, !.rst = {"REJECTED"},
    !.reqs = {Post(4)}, !.caps = {1}, !.kinds = {Kind("ctl")},
    !.uni = [NoUni EXCEPT !.ctl = {Settings(<<>>), Goaway(4), Goaway(0)}],
    !.req = {Ok}]

\* More frames than a call takes.
FloodPlan == [Plan EXCEPT !.n = 5, !.reqs = {Get}, !.caps = {1}, !.kinds = {Kind("ctl")},
    !.uni = [NoUni EXCEPT !.ctl = {Settings(<<>>), Frame("grease", 0)}],
    !.req = {Headers(<<Ref(1)>>), Ok}]

MCPlans == [uni |-> UniPlan, control |-> ControlPlan, start |-> StartPlan, response |-> ResponsePlan, content |-> ContentPlan,
            malformed |-> MalformedPlan, send |-> SendPlan, flood |-> FloodPlan]
=============================================================================
