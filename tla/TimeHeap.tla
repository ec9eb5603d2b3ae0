------------------------------ MODULE TimeHeap ------------------------------
(***************************************************************************)
(* time_heap of 3.ybx/4.hplsp/11.timer/11-6.heap_timer: timers in an array *)
(* kept as a binary heap, by expiry on the way up but by address on the    *)
(* way down.  A timer is its address.  The array is a sequence: cell k of  *)
(* the code is element k + 1, and resize, which doubles the capacity when  *)
(* it is reached, leaves no trace in it.                                   *)
(***************************************************************************)
EXTENDS Integers, Sequences

VARIABLE array

HeapInit == array = <<>>

Size == Len(array)

(* add_timer: from the first free cell t climbs over each parent that      *)
(* expires after it; the parents on its way come down one cell.            *)
Up(a, t, ex) ==
    LET climbs(h) == h > 1 /\ ex[t] < ex[a[h \div 2]]
        way[h \in 1..(Len(a) + 1)] == {h} \cup (IF climbs(h) THEN way[h \div 2] ELSE {})
    IN  [k \in 1..(Len(a) + 1) |->
           IF k \notin way[Len(a) + 1] THEN a[k] ELSE IF climbs(k) THEN a[k \div 2] ELSE t]

(* mutant: the timer that sinks is not written back *)
Down_nowrite(a, hole, ex) ==
    LET child(h) == IF 2 * h < Len(a) /\ ex[a[2 * h]] > ex[a[2 * h + 1]]
                    THEN 2 * h + 1 ELSE 2 * h
        sinks(h) == 2 * h <= Len(a) /\ a[h] > a[child(h)]
        way[h \in 1..Len(a)] == {h} \cup (IF sinks(h) THEN way[child(h)] ELSE {})
    IN  IF hole > Len(a) THEN a
        ELSE [k \in 1..Len(a) |->
                IF k \in way[hole] /\ sinks(k) THEN a[child(k)] ELSE a[k]]

(* percolate_down: from the hole the timer in it sinks below the child     *)
(* that expires first, as long as what was in the cell has the higher      *)
(* address of the two; the children on its way come up.                    *)
Down(a, hole, ex) ==
    LET child(h) == IF 2 * h < Len(a) /\ ex[a[2 * h]] > ex[a[2 * h + 1]]
                    THEN 2 * h + 1 ELSE 2 * h
        sinks(h) == 2 * h <= Len(a) /\ a[h] > a[child(h)]
        way[h \in 1..Len(a)] == {h} \cup (IF sinks(h) THEN way[child(h)] ELSE {})
    IN  IF hole > Len(a) THEN a
        ELSE [k \in 1..Len(a) |->
                IF k \notin way[hole] THEN a[k] ELSE IF sinks(k) THEN a[child(k)] ELSE a[hole]]

(* The last timer takes the place of the one in cell k, and sinks. *)
Remove(a, k, ex) ==
    LET last == Len(a)
        b == [i \in 1..(last - 1) |-> IF i = k THEN a[last] ELSE a[i]]
    IN  Down(b, k, ex)

find_timer(t) == CHOOSE k \in 1..Size : array[k] = t

add_timer(t, ex) == array' = Up(array, t, ex)

del_timer(t, ex) == array' = Remove(array, find_timer(t), ex)

(* t's expire field has been moved; ex is what it is now. *)
adjust_timer(t, ex) == array' = Up(Remove(array, find_timer(t), ex), t, ex)

(* tick: pops the top while it is due. *)
tick(ex) ==
    LET after[n \in 0..Size] ==
          IF n = 0 THEN array
          ELSE LET a == after[n - 1]
               IN  IF a = <<>> \/ ex[a[1]] > 0 THEN a ELSE Remove(a, 1, ex)
    IN  array' = after[Size]

InHeap == {array[k] : k \in 1..Size}
=============================================================================
