------------------------------ MODULE QuicUdp ------------------------------
(***************************************************************************)
(* The blocking driver os/linux_udp.c over the connection of QuicClient,   *)
(* with the stream calls of quic/api.c that run it: a call tries, then     *)
(* goes round (everything owed is sent, poll waits for a datagram until    *)
(* the deadline or the stall limit, what arrived is fed) and tries again.  *)
(* A step of the driver ends at a system call: the clock, the network and  *)
(* the server move between any two of them.                                *)
(*                                                                         *)
(* A stream is a flag on each side, c.unread and c.streams; its send ring  *)
(* holds one write until that is acknowledged.                             *)
(*                                                                         *)
(* In the plans that are not Blocking the application is the driver, and   *)
(* calls brisk_quic_feed and brisk_quic_pull whenever it likes.            *)
(***************************************************************************)
EXTENDS QuicClient

CONSTANTS
    DRAIN,          \* UDP_DRAIN_MAX
    TIMEOUT,        \* cfg.timeout_ms
    CallBound       \* bound: calls of the application

VARIABLE d          \* the driver: the io fields of struct brisk_quic, and its place in the code

\* op: the call that runs; at: where it is; stall: the stall limit; until: what poll waits for;
\* fed: datagrams of this drain; todo, done: of a write; ret: what the last call returned.
driver0 ==
    [op |-> "none", at |-> "idle", stall |-> 0, until |-> 0, fed |-> 0, todo |-> 0, done |-> 0,
     ret |-> "OK", calls |-> 0, fd |-> TRUE, heap |-> TRUE, io_err |-> FALSE]
connvars == <<plan, c, srv, net, wire, clock>>

DriverInit ==
    /\ Init
    /\ d = IF plan = "connect" THEN [driver0 EXCEPT !.op = "connect", !.at = "socket", !.fd = FALSE]
           ELSE driver0

Done(x, ret)  == [x EXCEPT !.at = "idle", !.ret = ret]
Freed(x)      == [Done(x, x.ret) EXCEPT !.fd = FALSE, !.heap = FALSE]
\* A failed connect closes the connection, flushes and frees; other calls return the error.
Failing(x, ret) == IF x.op = "connect" THEN [x EXCEPT !.at = "give_up", !.ret = ret] ELSE Done(x, ret)
START(x) == [x EXCEPT !.stall = clock + TIMEOUT]

-----------------------------------------------------------------------------
(* The calls *)

\* brisk__quic_connect_ex up to its loop: without a socket all is wiped and freed.
Socket ==
    /\ d.at = "socket"
    /\ \/ /\ d' = START([d EXCEPT !.fd = TRUE, !.at = "flush"])
          /\ UNCHANGED c
       \/ /\ d' = [Done(d, "IO") EXCEPT !.heap = FALSE]
          /\ c' = wipe_all([c EXCEPT !.err = "IO"])
    /\ UNCHANGED <<plan, srv, net, wire, clock>>

Call(op) ==
    /\ plan \in Blocking /\ d.at = "idle" /\ d.heap /\ d.calls < CallBound
    /\ op \in {"read", "write", "poll", "close"}
    /\ d' = START([d EXCEPT !.op = op, !.ret = "OK", !.calls = @ + 1, !.todo = IF op = "write" THEN 2 ELSE 0,
                            !.done = 0,
                            !.at = CASE op = "poll" -> "flush" [] op = "close" -> "give_up" [] OTHER -> "try"])
    /\ UNCHANGED connvars

\* The connection's part of a call: brisk_quic_stream_read, _write, the loop of connect, _poll.
Room == ~c.streams /\ \A s \in c.rec : ~s.data
TryRead ==
    /\ d.op = "read"
    /\ IF c.err # "OK" THEN d' = Done(d, "ERR") /\ UNCHANGED c
       ELSE IF c.unread
       THEN d' = Done(d, "OK") /\ c' = [c EXCEPT !.unread = FALSE, !.owe = TRUE]
       ELSE d' = [d EXCEPT !.at = "flush"] /\ UNCHANGED c
TryWrite ==
    /\ d.op = "write"
    /\ IF c.err # "OK" THEN d' = Done(d, "ERR") /\ UNCHANGED c
       ELSE IF Room
       THEN /\ c' = [c EXCEPT !.streams = TRUE, !.owe = TRUE]
            /\ d' = IF d.todo = 1 THEN [d EXCEPT !.todo = 0, !.done = @ + 1, !.at = "last_flush"]
                    ELSE START([d EXCEPT !.todo = @ - 1, !.done = @ + 1, !.at = "flush"])
       ELSE d' = [d EXCEPT !.at = "flush"] /\ c' = [c EXCEPT !.owe = TRUE]
TryConnect ==
    /\ d.op = "connect"
    /\ d' = [d EXCEPT !.at = IF c.established THEN "last_flush" ELSE "flush"]
    /\ UNCHANGED c
TryPoll == d.op = "poll" /\ d' = [d EXCEPT !.at = "flush"] /\ UNCHANGED c
Try ==
    /\ d.at = "try"
    /\ TryRead \/ TryWrite \/ TryConnect \/ TryPoll
    /\ UNCHANGED <<plan, srv, net, wire, clock>>

-----------------------------------------------------------------------------
(* The round *)

\* udp_flush: one datagram pulled and sent.  A broken socket is for good; brisk_quic_stream_write
\* does not look at what its last flush returned.
Flushing == {"flush", "last_flush", "free"}
Broken(x) ==
    CASE x.at = "free"                             -> Freed(x)
      [] x.at = "last_flush" /\ x.op = "write" -> Done(x, "OK")
      [] OTHER                                    -> Failing(x, "IO")
BrokenSocket ==
    /\ d.at \in Flushing /\ d.io_err
    /\ d' = Broken(d)
    /\ UNCHANGED connvars
\* Nothing more to send: the round goes on with the error, the stall limit, then poll.
Waiting(x) == [d EXCEPT !.at = "poll", !.until = Min({deadline(x), d.stall})]
Stalled ==
    IF d.op = "poll" THEN Done(d, "OK")
    ELSE IF d.op = "write" /\ d.done # 0 THEN Done(d, "SOME")
    ELSE Failing(d, "TIMEOUT")
AfterFlush(x) ==
    CASE d.at = "free"       -> Freed(d)
      [] d.at = "last_flush" -> Done(d, "OK")
      [] d.at = "flush"      -> IF x.err # "OK" THEN Failing(d, "ERR")
                                ELSE IF clock >= d.stall THEN Stalled ELSE Waiting(x)
DriverPull ==
    /\ IF plan \in Blocking THEN d.at \in Flushing /\ ~d.io_err ELSE MaySend
    /\ Pull
    /\ IF plan \notin Blocking THEN UNCHANGED d
       ELSE IF wire' = wire THEN d' = AfterFlush(c')
       ELSE MaySend /\ d' \in {d, Broken([d EXCEPT !.io_err = TRUE])}

\* poll returns: a datagram waits, or the time has come.
Poll ==
    /\ d.at = "poll"
    /\ \/ net # {} /\ d' = [d EXCEPT !.at = "drain", !.fed = 0]
       \/ clock >= d.until /\ d' = [d EXCEPT !.at = "try"]
    /\ UNCHANGED connvars

\* udp_drain: datagrams are fed until none waits, the connection ended or the limit is reached.
DriverFeed(p) ==
    /\ plan \in Blocking => d.at = "drain" /\ d.fed < DRAIN /\ c.err = "OK"
    /\ Feed(p)
    /\ d' = IF plan \in Blocking THEN [d EXCEPT !.fed = @ + 1] ELSE d
\* The stall limit once more, after what was fed.
AfterDrain_stalled(x) ==
    IF c.err # "OK" THEN Failing(x, "ERR") ELSE IF clock >= x.stall THEN Stalled ELSE [x EXCEPT !.at = "try"]
AfterDrain(x) == IF c.err # "OK" THEN Failing(x, "ERR") ELSE [x EXCEPT !.at = "try"]
Drained ==
    /\ d.at = "drain" /\ d.fed # 0
    /\ d' = AfterDrain(d)
    /\ UNCHANGED connvars

\* The end of a failed connect and of brisk_quic_close: the close is built, sent once, and all
\* is freed; a broken socket sends nothing.
\* A connect that failed frees without closing.
Closed_connected(x) == IF d.op = "connect" THEN x ELSE [close(x) EXCEPT !.owe = TRUE]
Closed(x) == [close(x) EXCEPT !.owe = TRUE]
GiveUp ==
    /\ d.at = "give_up"
    /\ c' = Closed(c)
    /\ d' = IF d.io_err THEN Freed(d)
            ELSE [d EXCEPT !.at = "free"]
    /\ UNCHANGED <<plan, srv, net, wire, clock>>

DriverNext ==
    \/ Socket \/ Try \/ BrokenSocket \/ DriverPull \/ Poll \/ Drained \/ GiveUp
    \/ \E op \in {"read", "write", "poll", "close"} : Call(op)
    \/ \E p \in net : DriverFeed(p)
    \/ (ServerNext \/ ApplicationNext \/ Tick) /\ UNCHANGED d
DriverSpec == DriverInit /\ [][DriverNext]_<<connvars, d>>

-----------------------------------------------------------------------------
(* Properties *)

\* BRISK_E_TIMEOUT is told only when the stall limit has passed and what the call waits for has
\* not arrived: data fed in the last round is never answered with a timeout (udp_round, the
\* loops of brisk_quic_stream_read and _write).
TimeoutIsTrue ==
    d.at = "idle" /\ d.ret \in {"TIMEOUT", "SOME"} =>
        /\ clock >= d.stall
        /\ d.op = "read" => ~c.unread
        /\ d.op = "write" => ~Room

\* When the handle is freed the connection is over and the server was told: the close went out,
\* however the connect or the calls before ended, unless the socket is broken (udp_io,
\* brisk__quic_connect_ex).
ServerTold ==
    ~d.heap => /\ c.err # "OK" /\ ~d.fd
               /\ c.err \in Silent \/ d.io_err \/ c.cc = 2
=============================================================================
