---------------------------- MODULE MySemPrimes ----------------------------
(***************************************************************************)
(* The client of the semaphore (21.mysem/main.c): main takes one unit,     *)
(* creates a thread for the next candidate, and joins them all at the end; *)
(* every thread gives its unit back when it has printed its answer.  At    *)
(* most NUM threads are to run at any time.                                *)
(***************************************************************************)
EXTENDS MySem, FiniteSets

CONSTANTS
    THRNUM,   \* RIGHT - LEFT + 1, how many candidates (and threads) there are
    NUM       \* the initial value of the semaphore

ASSUME ConstantsAssumption == THRNUM \in Nat /\ NUM \in Nat \ {0}

Workers == 1 .. THRNUM

main == 0     \* the thread that runs main()

VARIABLES
    mpc,      \* where main() is
    i,        \* the loop variable of main(), counted from LEFT
    wpc       \* where the thread of each candidate is in func()

vars == <<num, waiters, mpc, i, wpc>>

Init ==
    /\ mysem_init(NUM)
    /\ mpc = "sub"
    /\ i = 1
    /\ wpc = [w \in Workers |-> "none"]

-----------------------------------------------------------------------------
(* main() *)

(* mysem_sub(me, 1) returns. *)
MainSub ==
    /\ mpc = "sub" /\ i <= THRNUM
    /\ mysem_sub_take(main, 1)
    /\ mpc' = "create"
    /\ UNCHANGED <<i, wpc>>

(* mysem_sub(me, 1) blocks. *)
MainSubWait ==
    /\ mpc = "sub" /\ i <= THRNUM
    /\ mysem_sub_wait(main, 1)
    /\ UNCHANGED <<mpc, i, wpc>>

(* The condition wait of mysem_sub(me, 1) returns without a broadcast. *)
MainSpurious ==
    /\ SpuriousWakeup(main)
    /\ UNCHANGED <<mpc, i, wpc>>

(* pthread_create succeeds. *)
MainCreate ==
    /\ mpc = "create"
    /\ wpc' = [wpc EXCEPT ![i] = "run"]
    /\ i' = i + 1
    /\ mpc' = "sub"
    /\ UNCHANGED <<num, waiters>>

(* pthread_create fails: exit(1), which ends every thread with the process. *)
MainCreateFails ==
    /\ mpc = "create"
    /\ mpc' = "exit1"
    /\ UNCHANGED <<num, waiters, i, wpc>>

(* Mutant of MainStartJoin: the second loop continues with the old i. *)
MainStartJoin_noreset ==
    /\ mpc = "sub" /\ i > THRNUM
    /\ mpc' = "join"
    /\ UNCHANGED <<num, waiters, i, wpc>>

(* The first loop is over. *)
MainStartJoin ==
    /\ mpc = "sub" /\ i > THRNUM
    /\ mpc' = "join"
    /\ i' = 1
    /\ UNCHANGED <<num, waiters, wpc>>

(* pthread_join of the i-th thread returns. *)
MainJoin ==
    /\ mpc = "join" /\ i <= THRNUM
    /\ wpc[i] = "done"
    /\ i' = i + 1
    /\ UNCHANGED <<num, waiters, mpc, wpc>>

(* exit(0) *)
MainExit ==
    /\ mpc = "join" /\ i > THRNUM
    /\ mpc' = "exit0"
    /\ UNCHANGED <<num, waiters, i, wpc>>

Main == \/ MainSub \/ MainSubWait \/ MainCreate \/ MainCreateFails
        \/ MainStartJoin \/ MainJoin \/ MainExit

-----------------------------------------------------------------------------
(* func(): the threads.  The process is gone once main has called exit. *)

Alive == mpc \notin {"exit0", "exit1"}

(* The thread tests its candidate and prints the answer. *)
Compute(w) ==
    /\ Alive /\ wpc[w] = "run"
    /\ wpc' = [wpc EXCEPT ![w] = "add"]
    /\ UNCHANGED <<num, waiters, mpc, i>>

(* mysem_add(me, 1), then the thread returns. *)
Finish(w) ==
    /\ Alive /\ wpc[w] = "add"
    /\ mysem_add(1)
    /\ wpc' = [wpc EXCEPT ![w] = "done"]
    /\ UNCHANGED <<mpc, i>>

Worker(w) == Compute(w) \/ Finish(w)

(* After exit nothing happens any more. *)
Exited == ~ Alive /\ UNCHANGED vars

Next == Main \/ MainSpurious \/ (\E w \in Workers : Worker(w)) \/ Exited

(* Every thread that can run is scheduled again; a spurious wakeup need    *)
(* never happen.                                                           *)
Fairness == WF_vars(Main) /\ \A w \in Workers : WF_vars(Worker(w))

Spec == Init /\ [][Next]_vars /\ Fairness

-----------------------------------------------------------------------------
(* Properties *)

TypeOK ==
    /\ num \in Nat
    /\ waiters \subseteq {main}
    /\ mpc \in {"sub", "create", "join", "exit0", "exit1"}
    /\ i \in 1 .. THRNUM + 1
    /\ wpc \in [Workers -> {"none", "run", "add", "done"}]

(* The threads that have been created and have not given their unit back. *)
Running == {w \in Workers : wpc[w] \in {"run", "add"}}

(* The point of the semaphore (mysem_sub before pthread_create, mysem_add at the end *)
(* of func): no more than NUM threads compute at once. *)
BoundedConcurrency == Cardinality(Running) <= NUM

(* mysem_sub may only sleep while a unit is really held by someone who will *)
(* give it back with mysem_add: main never sleeps with nobody left to wake it. *)
SleeperHasWaker == waiters # {} => num = 0 /\ Running # {}

(* main joins every thread it created, and so reaches exit, whatever the *)
(* order in which the threads finish (the loops of main()). *)
MainExits == <>(mpc = "exit1" \/ (mpc = "exit0" /\ \A w \in Workers : wpc[w] = "done"))

(* The unit main has taken for a thread it has not created yet. *)
Held == IF mpc \in {"create", "exit1"} THEN 1 ELSE 0

(* Every unit is accounted for: in me->num, with a running thread, or with *)
(* main between mysem_sub and pthread_create.  No unit is lost or made up. *)
UnitsConserved == num + Cardinality(Running) + Held = NUM

(* The threads from the i-th on do not exist yet while main still creates. *)
NotYetCreated ==
    /\ mpc \in {"sub", "create"} => \A w \in Workers : w >= i => wpc[w] = "none"
    /\ mpc = "create" => i \in Workers

(* A sleeping main has found the semaphore empty, and it still is. *)
SleepsOnEmpty == waiters # {} => num = 0 /\ mpc = "sub" /\ i \in Workers

(* The inductive invariant behind BoundedConcurrency and SleeperHasWaker. *)
IInv == TypeOK /\ UnitsConserved /\ NotYetCreated /\ SleepsOnEmpty
=============================================================================
