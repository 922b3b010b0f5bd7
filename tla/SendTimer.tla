------------------------------- MODULE SendTimer -------------------------------
(***************************************************************************)
(* The timer of the example sketch (LoRaL2.ino): send_packet() compares    *)
(* arduino_millis(), an unsigned 32-bit count of milliseconds that wraps   *)
(* after 49.7 days, with next_send, a long of the same width.  The long is *)
(* converted to unsigned for the comparison and the sum stored in it wraps *)
(* as the count does, so both are numbers below Modulus = 2^32.            *)
(*                                                                         *)
(* SketchNode lets the timer run out at any moment; here it is the one     *)
(* thing modelled.  Time passes between two executions of the test and     *)
(* between the test and the new setting of the timer.                      *)
(***************************************************************************)
EXTENDS Integers

CONSTANTS
    Modulus,    \* 2^32
    Half,       \* HALF_SEND_INTERVAL
    LoopTime,   \* bound: two tests are at most this far apart
    SendTime    \* bound: what send(), Serial and the display take

ASSUME TimerAssumption ==
    /\ Modulus \in Nat /\ Half \in Nat /\ LoopTime \in Nat /\ SendTime \in Nat
    /\ Half > 0 /\ LoopTime > 0
    /\ 3 * Half + LoopTime + SendTime <= Modulus

VARIABLES
    clock,      \* what arduino_millis() returns
    next_send,
    tpc,        \* "test" before the test of the timer, "send" after it
    armed,      \* history: the clock when the timer was last set,
    delay,      \*   what was added to it,
    waited      \*   and the time since, counted up to Modulus

timerVars == <<clock, next_send, tpc, armed, delay, waited>>

Instants == 0 .. Modulus - 1

(* Half the interval and random(0, 2 * HALF_SEND_INTERVAL), whose upper bound
   is exclusive. *)
Delays == Half .. 3 * Half - 1

(* An unsigned 32-bit sum, of terms that overflow it once at most. *)
Wrap(x) == IF x < Modulus THEN x ELSE x - Modulus

(* Counting stops at one whole period. *)
UpToPeriod(x) == IF x < Modulus THEN x ELSE Modulus

TimerTypeOK ==
    /\ clock \in Instants /\ next_send \in Instants /\ armed \in Instants
    /\ tpc \in {"test", "send"}
    /\ delay \in Delays
    /\ waited \in 0 .. Modulus

(* next_send is a global: it is set before setup(), when the count starts. *)
TimerInit ==
    /\ clock = 0 /\ armed = 0 /\ waited = 0
    /\ tpc = "test"
    /\ delay \in Delays
    /\ next_send = Wrap(delay)

(* Seeded faults: the counter is compared only for equality; the packet is due
   one instant later. *)
DueExactly(now) == now = next_send
DueAfter(now) == now > next_send

Due(now) == ~(now < next_send)

(* arduino_millis() < next_send: loop() goes on to the next round. *)
TestEarly ==
    /\ tpc = "test"
    /\ \E d \in 1 .. LoopTime :
           /\ clock' = Wrap(clock + d)
           /\ ~Due(clock')
           /\ waited' = UpToPeriod(waited + d)
    /\ UNCHANGED <<next_send, tpc, armed, delay>>

(* The timer has run out: a packet is composed and handed to send(). *)
TestDue ==
    /\ tpc = "test"
    /\ \E d \in 1 .. LoopTime :
           /\ clock' = Wrap(clock + d)
           /\ Due(clock')
           /\ waited' = UpToPeriod(waited + d)
    /\ tpc' = "send"
    /\ UNCHANGED <<next_send, armed, delay>>

(* Seeded fault: the random part alone is added. *)
RearmWithoutHalf ==
    /\ tpc = "send"
    /\ \E d \in 0 .. SendTime : clock' = Wrap(clock + d)
    /\ delay' \in Delays
    /\ next_send' = Wrap(clock' + delay' - Half)
    /\ armed' = clock'
    /\ waited' = 0
    /\ tpc' = "test"

(* Whatever send() answered, the timer is set again. *)
Rearm ==
    /\ tpc = "send"
    /\ \E d \in 0 .. SendTime : clock' = Wrap(clock + d)
    /\ delay' \in Delays
    /\ next_send' = Wrap(clock' + delay')
    /\ armed' = clock'
    /\ waited' = 0
    /\ tpc' = "test"

TimerNext == TestEarly \/ TestDue \/ Rearm

TimerSpec == TimerInit /\ [][TimerNext]_timerVars

------------------------------------------------------------------------------
(* Properties.                                                              *)

(* Two packets are less than HALF_SEND_INTERVAL apart only in the last three
   half intervals before the counter wraps: there next_send may have wrapped
   when the counter has not, and then every round of loop() sends. *)
EarlyOnlyBeforeWrap ==
    [][TestDue => waited' >= Half \/ clock' > Modulus - 3 * Half]_timerVars

(* A packet waits longer than the interval allows only when the counter
   wrapped between two tests and jumped over what was left of the period
   after next_send; it then waits for almost a whole period. *)
LateOnlyAcrossWrap ==
    tpc = "test" /\ waited >= delay => next_send > Modulus - LoopTime

(* A packet missed in this way is not made up for: the next one comes when the
   counter is back at next_send, a whole period later. *)
MissedForAPeriod ==
    [][TestDue /\ waited >= delay => waited' = Modulus]_timerVars

(* The inductive strengthening: the clock and next_send, told from when the
   timer was set and the time since; a missed packet is still ahead of the
   clock. *)
TimeKnown == /\ waited < Modulus => clock = Wrap(armed + waited)
             /\ next_send = Wrap(armed + delay)
             /\ tpc = "test" /\ delay <= waited /\ waited < Modulus => clock < next_send

TimerInv == TimerTypeOK /\ TimeKnown /\ LateOnlyAcrossWrap
==============================================================================
