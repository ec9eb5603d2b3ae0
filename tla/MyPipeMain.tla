----------------------------- MODULE MyPipeMain -----------------------------
(***************************************************************************)
(* The client of the pipe (26.mypipe/main.c): main creates THRNUM readers, *)
(* writes the numbers to be tested in batches (ALL_IN_N), unregisters and  *)
(* joins the readers.  Every reader registers, reads one number after the  *)
(* other, and ends when mypipe_read returns 0; readers never unregister.   *)
(* The sleep(1) calls of main order nothing and are not modelled.          *)
(***************************************************************************)
EXTENDS MyPipe

CONSTANTS
    THRNUM,     \* the number of readers
    ARR_SIZE,   \* how many numbers there are; they are called 1 .. ARR_SIZE
    WRITE_NUM   \* a batch has WRITE_NUM + 1 numbers

(* As in main.c, all the numbers fit into the ring: what the theorems about *)
(* this program assume, and MCMyPipeMain checks. *)
MainAssumption ==
    /\ THRNUM \in Nat \ {0} /\ WRITE_NUM \in Nat
    /\ ARR_SIZE \in 1 .. MAXSIZE - 1
    /\ Thread = 0 .. THRNUM
    /\ Item = 1 .. ARR_SIZE

Reader == 1 .. THRNUM

main == 0       \* the thread of main(), which is the writer

VARIABLES
    mpc,        \* where main is
    k,          \* its loop variable: the next reader to create or join
    sent,       \* the numbers writer() has handed to mypipe_write
    rpc         \* where each reader is in func()

vars == <<pipevars, mpc, k, sent, rpc>>

Init ==
    /\ PipeInit
    /\ mpc = "create" /\ k = 1 /\ sent = 0
    /\ rpc = [r \in Reader |-> "none"]

-----------------------------------------------------------------------------
(* main() and writer() *)

MainCreate ==
    /\ mpc = "create" /\ k <= THRNUM
    /\ rpc' = [rpc EXCEPT ![k] = "start"]
    /\ k' = k + 1
    /\ UNCHANGED <<pipevars, mpc, sent>>

(* pthread_create fails: exit(0) *)
MainCreateFails ==
    /\ mpc = "create" /\ k <= THRNUM
    /\ mpc' = "aborted"
    /\ UNCHANGED <<pipevars, k, sent, rpc>>

(* mypipe_register(ptr, MYPIPE_WRITE) *)
MainRegister ==
    /\ mpc = "create" /\ k > THRNUM
    /\ mypipe_register(main, {"WRITE"})
    /\ mpc' = "write"
    /\ UNCHANGED <<k, sent, rpc>>

(* A full batch, or at the end what is left. *)
Batch == IF ARR_SIZE - sent < WRITE_NUM + 1 THEN ARR_SIZE - sent ELSE WRITE_NUM + 1

(* mypipe_write of the next batch.  The result of the write before, which is *)
(* in i[main], is only compared with 0; it never is 0 (WritesAreWhole). *)
MainWrite ==
    /\ mpc = "write" /\ sent < ARR_SIZE
    /\ mypipe_write(main, Batch)
    /\ sent' = sent + Batch
    /\ UNCHANGED <<mpc, k, rpc>>

(* Mutant of MainUnregister: the numbers left over after the last full batch *)
(* are forgotten. *)
MainUnregister_nolast ==
    /\ mpc = "write" /\ sent + WRITE_NUM + 1 > ARR_SIZE
    /\ mypipe_unregister(main, {"WRITE"})
    /\ mpc' = "join" /\ k' = 1
    /\ UNCHANGED <<sent, rpc>>

(* un_writer *)
MainUnregister ==
    /\ mpc = "write" /\ sent = ARR_SIZE
    /\ mypipe_unregister(main, {"WRITE"})
    /\ mpc' = "join" /\ k' = 1
    /\ UNCHANGED <<sent, rpc>>

(* pthread_join *)
MainJoin ==
    /\ mpc = "join" /\ k <= THRNUM
    /\ rpc[k] = "done"
    /\ k' = k + 1
    /\ UNCHANGED <<pipevars, mpc, sent, rpc>>

(* mypipe_destroy and exit(0) *)
MainExit ==
    /\ mpc = "join" /\ k > THRNUM
    /\ mpc' = "exited"
    /\ UNCHANGED <<pipevars, k, sent, rpc>>

(* Going on inside the calls of main. *)
MainContinue ==
    /\ \/ RegisterAgain(main) \/ WriteTest(main)
       \/ WriteLoop(main, sent - cnt[main] + i[main] + 1)
    /\ UNCHANGED <<mpc, k, sent, rpc>>

Main == \/ MainCreate \/ MainCreateFails \/ MainRegister \/ MainWrite \/ MainUnregister
        \/ MainJoin \/ MainExit \/ MainContinue

-----------------------------------------------------------------------------
(* func() *)

Alive == mpc \notin {"exited", "aborted"}

ReaderRegister(r) ==
    /\ rpc[r] = "start"
    /\ mypipe_register(r, {"READ"})
    /\ rpc' = [rpc EXCEPT ![r] = "registered"]

(* mypipe_read(ptr, &i, 1), the first time and after each number. *)
ReaderRead(r) ==
    /\ rpc[r] = "registered" \/ (rpc[r] = "read" /\ i[r] > 0)
    /\ mypipe_read(r, 1)
    /\ rpc' = [rpc EXCEPT ![r] = "read"]

(* No number was read (i stayed 0): pthread_exit. *)
ReaderEnds(r) ==
    /\ rpc[r] = "read" /\ op[r] = "none" /\ i[r] = 0
    /\ rpc' = [rpc EXCEPT ![r] = "done"]
    /\ UNCHANGED pipevars

ReaderContinue(r) ==
    /\ RegisterAgain(r) \/ ReadTest(r) \/ ReadLoop(r)
    /\ UNCHANGED rpc

ReaderStep(r) ==
    /\ Alive
    /\ ReaderRegister(r) \/ ReaderRead(r) \/ ReaderEnds(r) \/ ReaderContinue(r)
    /\ UNCHANGED <<mpc, k, sent>>

Wakeup(t) == Alive /\ Spurious(t) /\ UNCHANGED <<mpc, k, sent, rpc>>

Over == ~ Alive /\ UNCHANGED vars

Next == Main \/ (\E r \in Reader : ReaderStep(r)) \/ (\E t \in Thread : Wakeup(t)) \/ Over

(* Every thread that can run is scheduled again. *)
Fairness == WF_vars(Main) /\ \A r \in Reader : WF_vars(ReaderStep(r))

Spec == Init /\ [][Next]_vars /\ Fairness

-----------------------------------------------------------------------------
(* Properties *)

(* writer() never looks whether mypipe_write wrote the whole batch.  It always *)
(* does: what has been written is what has been sent, once the call returned. *)
WritesAreWhole ==
    mpc # "create" /\ op[main] = "none" =>
        /\ Len(log) = sent
        /\ \A j \in 1 .. sent : log[j] = j

(* When main destroys the pipe every number has been read by exactly one *)
(* reader, and nobody is inside the pipe any more. *)
AllTested ==
    mpc = "exited" =>
        /\ Len(got) = ARR_SIZE /\ \A j \in 1 .. ARR_SIZE : got[j] = j
        /\ waiters = {} /\ \A t \in Thread : op[t] = "none"

(* Types of the program's own variables. *)
MainTypeOK ==
    /\ PipeTypeOK
    /\ mpc \in {"create", "write", "join", "exited", "aborted"}
    /\ k \in 1 .. THRNUM + 1
    /\ sent \in 0 .. ARR_SIZE
    /\ rpc \in [Reader -> {"none", "start", "registered", "read", "done"}]

(* Where writer() is in a batch, the log has all of the numbers before it: *)
(* the log lags behind sent by what the present call still has to copy. *)
WriterAt ==
    /\ \A j \in 1 .. Len(log) : log[j] = j
    /\ op[main] \in {"none", "register"} => Len(log) = sent
    /\ op[main] = "write" => i[main] = 0 /\ cnt[main] > 0 /\ Len(log) = sent - cnt[main]
    /\ op[main] = "writing" => i[main] <= cnt[main] /\ Len(log) = sent - cnt[main] + i[main]
    /\ op[main] \notin {"read", "reading"}
    /\ mpc # "write" => op[main] = "none"
    /\ mpc \in {"join", "exited"} => sent = ARR_SIZE
    /\ count_wr = IF mpc = "write" THEN 1 ELSE 0

(* A reader gets through mypipe_register only while the writer is there, and *)
(* mypipe_read returns 0 to it only when the writer has left an empty ring. *)
ReaderAt(r) ==
    /\ op[r] \in IF rpc[r] = "registered" THEN {"none", "register"}
                 ELSE IF rpc[r] = "read" THEN {"none", "read", "reading"} ELSE {"none"}
    /\ op[r] \in {"read", "reading"} => cnt[r] = 1
    /\ op[r] = "read" => i[r] = 0
    /\ op[r] = "reading" /\ i[r] = 0 => ~ q_isempty
    /\ \/ rpc[r] \in {"none", "start"} \/ op[r] = "register"
       \/ mpc \in {"write", "join", "exited"}
    /\ rpc[r] = "done" \/ (rpc[r] = "read" /\ op[r] = "none" /\ i[r] = 0) =>
         q_isempty /\ mpc \in {"join", "exited"}
    /\ mpc = "create" /\ k <= r => rpc[r] = "none"
    /\ (mpc = "join" /\ r < k) \/ mpc = "exited" => rpc[r] = "done"

(* The inductive invariant of the program. *)
SleepersInCall == \A t \in waiters : op[t] \in {"register", "read", "write"}
MainInv ==
    /\ MainTypeOK /\ RingHoldsLog /\ Fifo /\ OneCopier /\ SleepersInCall
    /\ WriterAt /\ \A r \in Reader : ReaderAt(r)

(* A reader that has not got through mypipe_register when the writer leaves. *)
LateReader == mpc = "join" /\ \E r \in Reader : rpc[r] = "start" \/ op[r] = "register"

(* The program ends, or a reader comes too late: apart from that race no *)
(* thread is left behind in the pipe. *)
EndsUnlessLate == <>(~ Alive \/ LateReader)
=============================================================================
