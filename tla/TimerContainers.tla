--------------------------- MODULE TimerContainers ---------------------------
(***************************************************************************)
(* The three timer containers of 3.ybx/4.hplsp/11.timer behind one client: *)
(* the sorted list, the timing wheel and the heap are given the same       *)
(* timers, deletions, prolongations by N seconds and ticks, one a second;  *)
(* a timeout of 0 seconds, which the wheel turns into 1, is 1 for all.     *)
(* The client stops using a timer once the first container has fired it.   *)
(***************************************************************************)
EXTENDS SortTimerList

CONSTANTS
    N,         \* the slots of the wheel
    Timeouts,  \* the timeouts asked for, in seconds
    MaxLeft,   \* bound: no timer is prolonged beyond so many seconds
    MaxLate    \* bound: nothing more happens to a heap that is so late

ASSUME SlotsAssumption == N \in Nat \ {0}
ASSUME ClientAssumption == Timeouts \subseteq Nat /\ NULL \notin Timer

VARIABLES
    slots, cur_slot, rotation, time_slot,  \* the wheel
    array,                                 \* the heap
    left,  \* seconds until each timer expires: the expire fields
    live   \* timers added, not deleted and not yet fired by the wheel

W == INSTANCE TimeWheel
H == INSTANCE TimeHeap

vars == <<listVars, W!wheelVars, array, left, live>>

Init ==
    /\ ListInit /\ W!WheelInit /\ H!HeapInit
    /\ left = [t \in Timer |-> 0] /\ live = {}

Add(t, k) ==
    /\ t \notin live /\ t \notin H!InHeap
    /\ left' = [left EXCEPT ![t] = W!Ticks(k)]
    /\ live' = live \cup {t}
    /\ W!add_timer(t, k)
    /\ add_timer(t, left') /\ H!add_timer(t, left')

(* Known to all three containers. *)
Known(t) == t \in live /\ t \in Listed /\ t \in H!InHeap

Del(t) ==
    /\ Known(t)
    /\ live' = live \ {t}
    /\ W!del_timer(t)
    /\ del_timer(t) /\ H!del_timer(t, left)
    /\ UNCHANGED left

Adjust(t) ==
    /\ Known(t) /\ left[t] + N <= MaxLeft
    /\ left' = [left EXCEPT ![t] = @ + N]
    /\ W!adjust_timer(t)
    /\ adjust_timer(t, left') /\ H!adjust_timer(t, left')
    /\ UNCHANGED live

(* A second passes and each container is ticked. *)
Tick ==
    /\ \A t \in H!InHeap : left[t] > -MaxLate
    /\ left' = [t \in Timer |-> IF t \in live \cup H!InHeap THEN left[t] - 1 ELSE 0]
    /\ live' = {t \in live : left[t] > 0}
    /\ W!tick
    /\ tick(left') /\ H!tick(left')

Next == Tick \/ \E t \in Timer : Del(t) \/ Adjust(t) \/ \E k \in Timeouts : Add(t, k)

Spec == Init /\ [][Next]_vars
-----------------------------------------------------------------------------
(* Type invariant of the wheel: slots and rotations stay in range.         *)
TypeOK ==
    /\ slots \in [0..(N - 1) -> SUBSET Timer] /\ cur_slot \in 0..(N - 1)
    /\ rotation \in [Timer -> Nat] /\ time_slot \in [Timer -> 0..(N - 1)]
    /\ left \in [Timer -> Int] /\ live \subseteq Timer

(* The list is in ascending order and well linked after every operation,   *)
(* and each tick of it fires all timers that are due and no other: always  *)
(* one tick before the wheel.                                              *)
ListExact ==
    /\ ListSound(left)
    /\ Listed = {t \in live : left[t] > 0}

(* The wheel holds each live timer once, in the slot its time_slot field   *)
(* names, so deep in turns and slots that the tick to fire it is the right *)
(* one: that after the timeout has passed.                                 *)
WheelOnTime ==
    /\ \A s \in 0..(N - 1) : \A t \in slots[s] : t \in live /\ time_slot[t] = s
    /\ \A t \in live : /\ t \in slots[time_slot[t]]
                       /\ rotation[t] * N + W!Distance(time_slot[t]) = left[t]

(* The heap loses no timer, holds none twice and fires none early, though  *)
(* percolate_down compares addresses instead of expiry.                    *)
HeapKeeps ==
    /\ \A j, k \in 1..H!Size : array[j] = array[k] => j = k
    /\ \A t \in live : left[t] > 0 => t \in H!InHeap
    /\ \A t \in H!InHeap : t \in live \/ left[t] < 0

(* The top of the heap is a timer that expires first, so that tick may     *)
(* stop there and timer_handler set the next alarm by it.                  *)
HeapTopEarliest == \A t \in H!InHeap : left[array[1]] <= left[t]
=============================================================================
