------------------------------ MODULE TimeWheel ------------------------------
(***************************************************************************)
(* time_wheel of 3.ybx/4.hplsp/11.timer/11-5.tw_timer: N slots, one of     *)
(* which is looked at by each tick; a timer waits in a slot for rotation   *)
(* more turns of the wheel.  The list hanging off a slot is searched to    *)
(* the end by every tick, so it is modelled as the set of its timers.  TI, *)
(* the seconds per tick, is 1.  tick reads next in a timer it has just     *)
(* deleted; the allocator overwrites only the first two words of a free    *)
(* cell and next is the fourth, so the old value is what it reads.         *)
(***************************************************************************)
EXTENDS Integers

CONSTANTS Timer, N

VARIABLES slots, cur_slot, rotation, time_slot

wheelVars == <<slots, cur_slot, rotation, time_slot>>

WheelInit ==
    /\ slots = [s \in 0..(N - 1) |-> {}] /\ cur_slot = 0
    /\ rotation = [t \in Timer |-> 0] /\ time_slot = [t \in Timer |-> 0]

Ticks(timeout) == IF timeout < 1 THEN 1 ELSE timeout

(* mutant: a timeout of whole turns waits one turn less *)
add_timer_turnless(t, timeout) ==
    LET ticks == Ticks(timeout)
        ts == (cur_slot + (ticks % N)) % N
    IN  /\ rotation' = [rotation EXCEPT ![t] = (ticks - 1) \div N]
        /\ time_slot' = [time_slot EXCEPT ![t] = ts]
        /\ slots' = [slots EXCEPT ![ts] = @ \cup {t}]
        /\ UNCHANGED cur_slot

add_timer(t, timeout) ==
    LET ticks == Ticks(timeout)
        ts == (cur_slot + (ticks % N)) % N
    IN  /\ rotation' = [rotation EXCEPT ![t] = ticks \div N]
        /\ time_slot' = [time_slot EXCEPT ![t] = ts]
        /\ slots' = [slots EXCEPT ![ts] = @ \cup {t}]
        /\ UNCHANGED cur_slot

(* The fields of a timer that was deleted are gone with it: 0. *)
del_timer(t) ==
    /\ slots' = [slots EXCEPT ![time_slot[t]] = @ \ {t}]
    /\ rotation' = [rotation EXCEPT ![t] = 0]
    /\ time_slot' = [time_slot EXCEPT ![t] = 0]
    /\ UNCHANGED cur_slot

(* adjust_timer: one more turn of the wheel. *)
adjust_timer(t) ==
    /\ rotation' = [rotation EXCEPT ![t] = @ + 1]
    /\ UNCHANGED <<slots, cur_slot, time_slot>>

Due == {t \in slots[cur_slot] : rotation[t] = 0}

tick ==
    /\ slots' = [slots EXCEPT ![cur_slot] = @ \ Due]
    /\ rotation' = [t \in Timer |-> IF t \in slots[cur_slot] \ Due
                                     THEN rotation[t] - 1 ELSE rotation[t]]
    /\ cur_slot' = (cur_slot + 1) % N
    /\ time_slot' = [t \in Timer |-> IF t \in Due THEN 0 ELSE time_slot[t]]

(* Slots until the tick looks at slot s. *)
Distance(s) == IF s >= cur_slot THEN s - cur_slot ELSE s - cur_slot + N
=============================================================================
