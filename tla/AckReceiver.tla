---------------------------- MODULE AckReceiver ----------------------------
(***************************************************************************)
(* What the receive side of a packet number space promises its peer and    *)
(* its caller, with a memory that never forgets: a packet is processed at  *)
(* most once; an ACK frame names processed packets only, the highest among *)
(* them, and is sent only when an ack-eliciting packet waits for one; and  *)
(* the time the ACK is due never moves back, lies within MAX_DELAY of the  *)
(* first packet that waits and is not later than the arrival of the second *)
(* (RFC 9000 13.2.1, 13.2.2, 13.2.3).                                      *)
(***************************************************************************)
EXTENDS Integers

CONSTANTS
    Pn,             \* packet numbers
    MAX_DELAY,      \* how long an ACK may wait
    Never           \* the time that never comes

VARIABLES
    seen,           \* packets that were processed
    named,          \* packets the last ACK frame named
    due,            \* when an ACK is owed
    waiting,        \* arrival times of the first two packets that wait for an ACK
    open,           \* the space is in use
    now

vars == <<seen, named, due, waiting, open, now>>

Nobody == [first |-> Never, second |-> Never]

Init ==
    /\ seen = {} /\ named = {} /\ due = Never /\ waiting = Nobody
    /\ open = TRUE /\ now = 0

OnTime(t, w) == t <= w.first + MAX_DELAY /\ (w.second # Never => t <= w.second)

\* A packet is processed, once; if it elicits an ACK, that is owed in time.
Joins(w) ==
    IF w.first = Never THEN [w EXCEPT !.first = now]
    ELSE IF w.second = Never THEN [w EXCEPT !.second = now] ELSE w
Receive(pn, eliciting) ==
    /\ open /\ pn \notin seen
    /\ seen' = seen \cup {pn}
    /\ IF eliciting
       THEN waiting' = Joins(waiting) /\ due' \in Int /\ due' <= due /\ OnTime(due', waiting')
       ELSE UNCHANGED <<waiting, due>>
    /\ UNCHANGED <<named, open, now>>

\* An ACK frame of processed packets with the highest among them answers all that wait.
Acknowledge ==
    /\ open /\ waiting.first # Never
    /\ named' \subseteq seen
    /\ \E top \in named' : \A pn \in seen : pn <= top
    /\ waiting' = Nobody /\ due' = Never
    /\ UNCHANGED <<seen, open, now>>

\* The space's keys are gone: nothing is received or owed any more.
Close ==
    /\ open /\ open' = FALSE
    /\ waiting' = Nobody /\ due' = Never
    /\ UNCHANGED <<seen, named, now>>

Tick ==
    /\ now' > now
    /\ UNCHANGED <<seen, named, due, waiting, open>>

Next ==
    \/ \E pn \in Pn, eliciting \in BOOLEAN : Receive(pn, eliciting)
    \/ Acknowledge \/ Close \/ Tick

Spec == Init /\ [][Next]_vars
=============================================================================
