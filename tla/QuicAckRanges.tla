--------------------------- MODULE QuicAckRanges ---------------------------
(***************************************************************************)
(* The receive side of one packet number space, brisk__quic_rxack in       *)
(* quic/recovery.c: which packet numbers were processed, kept in at most   *)
(* RANGES ranges and a floor below which everything counts as seen, and    *)
(* when the next ACK frame is due.  conn.c asks rxack_dup before it        *)
(* processes a packet's frames and calls rxack_add after; the peer and the *)
(* network may repeat, reorder and drop packets at will.                   *)
(*                                                                         *)
(* The code keeps the ranges in an array, highest first.  They never       *)
(* touch, so the set of them says the same, its size being the array's n.  *)
(*                                                                         *)
(* Name_variant(...) is a copy of Name with one mistake, never used by the *)
(* specification: PROJECT.json says which property notices it.             *)
(***************************************************************************)
EXTENDS Integers, FiniteSets

CONSTANTS
    RANGES,         \* BRISK__QUIC_RANGES
    PENDING_MAX,    \* what the pending counter saturates at (255)
    MAX_DELAY,      \* my_tp.max_ack_delay in the 1-RTT space, 0 in the others
    IMMEDIATE,      \* an ACK is due at once: the Initial and Handshake spaces
    INT64_MAX,      \* the time that means never
    MaxPn,          \* bound: packet numbers of the peer
    MaxTime         \* bound: the caller's clock

ASSUME RangesAssumption ==
    /\ RANGES \in Nat \ {0} /\ PENDING_MAX \in Nat \ {0, 1}
    /\ MAX_DELAY \in Nat /\ IMMEDIATE \in BOOLEAN
    /\ INT64_MAX \in Nat /\ MaxPn \in Nat /\ MaxTime \in Nat
    /\ MaxTime < INT64_MAX /\ MAX_DELAY < INT64_MAX

Pns   == 0..MaxPn
Times == 0..INT64_MAX
PnRange == [lo : Nat, hi : Nat]

VARIABLES
    r,              \* the ranges
    floor,          \* packet numbers below it are treated as duplicates
    pending,        \* ack-eliciting packets not acknowledged yet
    ack_due,        \* when an ACK frame is owed, INT64_MAX = none
    keys,           \* the space still has keys: its packets are opened
    now,            \* the last time the caller told
    named,          \* history: the packet numbers the last ACK frame named
    processed,      \* history: the packet numbers whose frames were processed
    waiting         \* history: arrival times of the first two ack-eliciting packets since the
                    \* last ACK frame, INT64_MAX = none

vars == <<r, floor, pending, ack_due, keys, now, named, processed, waiting>>

Waiting == [first : Times, second : Times]
Nobody  == [first |-> INT64_MAX, second |-> INT64_MAX]

rxack_init ==
    /\ r' = {} /\ floor' = 0 /\ pending' = 0 /\ ack_due' = INT64_MAX
    /\ waiting' = Nobody

Init ==
    /\ r = {} /\ floor = 0 /\ pending = 0 /\ ack_due = INT64_MAX
    /\ keys = TRUE /\ now = 0
    /\ named = {} /\ processed = {} /\ waiting = Nobody

-----------------------------------------------------------------------------
(* Which packets are new *)

In(pn, x) == x.lo <= pn /\ pn <= x.hi

Full == Cardinality(r) = RANGES

\* A full table refuses every packet that would open a range.
rxack_dup_full(pn) ==
    \/ pn < floor
    \/ \E x \in r : In(pn, x)
    \/ Full /\ \A x \in r : pn + 1 < x.lo \/ x.hi + 1 < pn
rxack_dup(pn) ==
    \/ pn < floor
    \/ \E x \in r : In(pn, x)
    \/ Full /\ \A x \in r : pn + 1 < x.lo

\* The ranges right above and right below pn.
Up(pn)   == {x \in r : x.lo = pn + 1}
Down(pn) == {x \in r : x.hi + 1 = pn}
Touching(pn) == Up(pn) \cup Down(pn)

Joined(pn) ==
    [lo |-> IF Down(pn) = {} THEN pn ELSE (CHOOSE x \in Down(pn) : TRUE).lo,
     hi |-> IF Up(pn) = {} THEN pn ELSE (CHOOSE x \in Up(pn) : TRUE).hi]

\* A full table forgets its lowest range for a new one.
Oldest == CHOOSE x \in r : \A y \in r : x.lo <= y.lo
Evicts(pn) == Full /\ Touching(pn) = {}
Forgotten(pn) == IF Evicts(pn) THEN {Oldest} ELSE {}

Insert(pn) == ((r \ Touching(pn)) \ Forgotten(pn)) \cup {Joined(pn)}

\* The floor stops at the forgotten range's own last packet.
NewFloor_short(pn) == IF Evicts(pn) THEN Oldest.hi ELSE floor
NewFloor(pn) == IF Evicts(pn) THEN Oldest.hi + 1 ELSE floor

-----------------------------------------------------------------------------
(* When an ACK is due *)

tadd(t, d) == IF t > INT64_MAX - 1 - d THEN INT64_MAX - 1 ELSE t + d

\* Out of order, below the largest, or after a gap.
Gap(pn) ==
    /\ r # {}
    /\ \/ \E x \in r : pn < x.hi
       \/ \A x \in r : pn > x.hi + 1

Counted == IF pending < PENDING_MAX THEN pending + 1 ELSE pending

Due(pn) ==
    LET due == IF IMMEDIATE \/ Counted >= 2 \/ Gap(pn) THEN now ELSE tadd(now, MAX_DELAY)
    IN  IF due < ack_due THEN due ELSE ack_due
Arrived ==
    IF waiting.first = INT64_MAX THEN [waiting EXCEPT !.first = now]
    ELSE IF waiting.second = INT64_MAX THEN [waiting EXCEPT !.second = now]
    ELSE waiting

\* one_packet after the AEAD accepted the packet: a duplicate is dropped unread, else its
\* frames are processed and the packet number is recorded.
packet(pn, ack_eliciting) ==
    /\ keys
    /\ ~rxack_dup(pn)
    /\ processed' = processed \cup {pn}
    /\ r' = Insert(pn) /\ floor' = NewFloor(pn)
    /\ IF ack_eliciting
       THEN pending' = Counted /\ ack_due' = Due(pn) /\ waiting' = Arrived
       ELSE UNCHANGED <<pending, ack_due, waiting>>
    /\ UNCHANGED <<keys, now, named>>

\* ack_write names the highest ranges, as many as the packet has room for.
Highest == {S \in SUBSET r : S # {} /\ \A x \in S, y \in r : y.lo > x.lo => y \in S}
ack_write == {UNION {x.lo..x.hi : x \in S} : S \in Highest}

\* brisk__quic_send puts an ACK frame in a packet: alone when one is due, along with other
\* frames whenever one is pending.
send_ack(other_frames) ==
    /\ keys /\ pending # 0 /\ r # {}
    /\ other_frames \/ ack_due <= now
    /\ named' \in ack_write
    /\ pending' = 0 /\ ack_due' = INT64_MAX /\ waiting' = Nobody
    /\ UNCHANGED <<r, floor, keys, now, processed>>

\* The space's keys are discarded, and its receive state with them.
discard ==
    /\ keys /\ keys' = FALSE
    /\ rxack_init
    /\ UNCHANGED <<now, named, processed>>

set_now(t) ==
    /\ t > now
    /\ now' = t
    /\ UNCHANGED <<r, floor, pending, ack_due, keys, named, processed, waiting>>

Next ==
    \/ \E pn \in Pns, e \in BOOLEAN : packet(pn, e)
    \/ \E o \in BOOLEAN : send_ack(o)
    \/ discard
    \/ \E t \in 0..MaxTime : set_now(t)

Spec == Init /\ [][Next]_vars

-----------------------------------------------------------------------------
(* Properties *)

\* Every variable has its type, and the table never holds more than RANGES ranges.
TypeOK ==
    /\ r \subseteq PnRange /\ IsFiniteSet(r) /\ Cardinality(r) <= RANGES
    /\ floor \in Nat /\ pending \in 0..PENDING_MAX /\ ack_due \in Times
    /\ keys \in BOOLEAN /\ now \in 0..MaxTime
    /\ named \subseteq Pns /\ processed \subseteq Pns /\ waiting \in Waiting

\* A packet whose frames were processed is refused from then on, whatever ranges were joined
\* or forgotten since: no packet is processed twice (rxack_dup, before frames).
ProcessedOnce == keys => \A pn \in processed : rxack_dup(pn)

\* Every packet number an ACK frame can name, whichever of its ranges fit, was processed.
AcksAreTrue == \A x \in r : x.lo..x.hi \subseteq processed

\* Two ranges are at least two packet numbers apart, which is what ack_write's
\* "previous smallest - this largest - 2" subtracts without a borrow.
RangesApart == \A x, y \in r : x = y \/ x.hi + 2 <= y.lo \/ y.hi + 2 <= x.lo

\* While an ack-eliciting packet waits for an ACK one is pending, due within max_ack_delay of
\* the first such packet and at the latest when the second arrived (RFC 9000 13.2.1, 13.2.2,
\* the comment on rxack_add); with none waiting, no ACK frame is owed.
AckInTime ==
    /\ waiting.first # INT64_MAX =>
         pending # 0 /\ ack_due <= tadd(waiting.first, MAX_DELAY)
    /\ waiting.second # INT64_MAX => ack_due <= waiting.second
    /\ waiting.first = INT64_MAX => pending = 0 /\ ack_due = INT64_MAX

\* A packet above every one received so far is never refused: a full table makes room.
LargestIsNew ==
    \A pn \in Pns : r # {} /\ (\A x \in r : x.hi < pn) => ~rxack_dup(pn)

\* A few ranges and a floor do the work of a memory of every packet: whatever the table joins
\* and forgets, the code is an AckReceiver (rxack_dup, rxack_add, ack_write).
Receiver == INSTANCE AckReceiver WITH
    Pn <- Pns, Never <- INT64_MAX, seen <- processed, due <- ack_due, open <- keys
ImplementsReceiver == Receiver!Spec
=============================================================================
