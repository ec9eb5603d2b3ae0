---------------------------- MODULE SortTimerList ----------------------------
(***************************************************************************)
(* sort_timer_lst of 3.ybx/4.hplsp/11.timer/11-2.lst_timer: a doubly       *)
(* linked list of timers in ascending order of expiry.  Each operation is  *)
(* an action on the links; ex gives the expire fields it reads, counted    *)
(* from the present, so that a timer t is due when ex[t] <= 0.             *)
(***************************************************************************)
EXTENDS Integers

CONSTANTS Timer, NULL

VARIABLES head, tail, prev, next

listVars == <<head, tail, prev, next>>

ListInit ==
    /\ head = NULL /\ tail = NULL
    /\ prev = [t \in Timer |-> NULL] /\ next = [t \in Timer |-> NULL]

(* mutant: a timer put behind the last one does not become the tail *)
Place_notail(t, from, nx, pv, ex) ==
    LET stop[x \in Timer] ==
          IF nx[x] = NULL \/ ex[t] < ex[nx[x]] THEN x ELSE stop[nx[x]]
        p == stop[from]
    IN  /\ next' = [nx EXCEPT ![p] = t, ![t] = nx[p]]
        /\ prev' = [x \in Timer |-> IF x = t THEN p ELSE IF x = nx[p] THEN t ELSE pv[x]]
        /\ UNCHANGED tail

(* The private add_timer(timer, lst_head): behind lst_head, in front of    *)
(* the first timer that expires later.  Given links nx and pv, it returns  *)
(* the new links and tail.                                                 *)
Place(t, from, nx, pv, ex) ==
    LET stop[x \in Timer] ==
          IF nx[x] = NULL \/ ex[t] < ex[nx[x]] THEN x ELSE stop[nx[x]]
        p == stop[from]
    IN  /\ next' = [nx EXCEPT ![p] = t, ![t] = nx[p]]
        /\ prev' = [x \in Timer |-> CASE x = t -> p
                                      [] x = nx[p] -> t
                                      [] OTHER -> pv[x]]
        /\ tail' = IF nx[p] = NULL THEN t ELSE tail

(* A new timer: new util_timer has both links NULL. *)
add_timer(t, ex) ==
    LET nx == [next EXCEPT ![t] = NULL]
        pv == [prev EXCEPT ![t] = NULL]
    IN  IF head = NULL
          THEN head' = t /\ tail' = t /\ next' = nx /\ prev' = pv
        ELSE IF ex[t] < ex[head]
          THEN /\ head' = t /\ next' = [nx EXCEPT ![t] = head]
               /\ prev' = [pv EXCEPT ![head] = t] /\ UNCHANGED tail
        ELSE Place(t, head, nx, pv, ex) /\ UNCHANGED head

(* The links of a timer that was deleted are gone with it. *)
Freed(links, ts) == [x \in Timer |-> IF x \in ts THEN NULL ELSE links[x]]

del_timer(t) ==
    /\ CASE t = head /\ t = tail -> head' = NULL /\ tail' = NULL
         [] t = head /\ t # tail -> head' = next[t] /\ UNCHANGED tail
         [] t # head /\ t = tail -> tail' = prev[t] /\ UNCHANGED head
         [] OTHER -> UNCHANGED <<head, tail>>
    /\ next' = Freed([x \in Timer |-> IF x = prev[t] THEN next[t] ELSE next[x]], {t})
    /\ prev' = Freed([x \in Timer |-> IF x = next[t] THEN prev[t] ELSE prev[x]], {t})

(* t's expire field has been moved to a later time. *)
adjust_timer(t, ex) ==
    IF next[t] = NULL \/ ex[t] < ex[next[t]]
      THEN UNCHANGED listVars
    ELSE IF t = head
      THEN /\ head' = next[t]
           /\ Place(t, next[t], [next EXCEPT ![t] = NULL],
                    [prev EXCEPT ![next[t]] = NULL], ex)
    ELSE /\ Place(t, next[t], [next EXCEPT ![prev[t]] = next[t]],
                  [prev EXCEPT ![next[t]] = prev[t]], ex)
         /\ UNCHANGED head

(* tick: unlinks timers from the head up to the first that is not due.     *)
(* tail is left as it is, even when the list becomes empty.                *)
AfterDue(ex) ==
    LET first[x \in Timer \cup {NULL}] ==
          IF x = NULL THEN NULL ELSE IF 0 < ex[x] THEN x ELSE first[next[x]]
    IN  first[head]

(* The timers a walk along next finds from x on; in the list, from head.   *)
From(x) ==
    LET from[y \in Timer \cup {NULL}] ==
          IF y = NULL THEN {} ELSE {y} \cup from[next[y]]
    IN  from[x]
Listed == From(head)

tick(ex) ==
    LET h == AfterDue(ex)
        gone == Listed \ From(h)
    IN  /\ head' = h
        /\ prev' = Freed(prev, gone \cup (IF h = NULL THEN {} ELSE {h}))
        /\ next' = Freed(next, gone)
        /\ UNCHANGED tail

(* The walk is in ascending order, as the class promises; prev inverts     *)
(* next, and tail is the last timer.                                       *)
ListSound(ex) ==
    head # NULL =>
      /\ prev[head] = NULL /\ tail \in Listed /\ next[tail] = NULL
      /\ \A t \in Listed \ {tail} :
           next[t] # NULL /\ prev[next[t]] = t /\ ex[t] <= ex[next[t]]
=============================================================================
