------------------------------ MODULE MCWorker ------------------------------
(***************************************************************************)
(* Programs and bounds for model-checking Worker.  The programs have the   *)
(* shape of the repository's benchmarks (src/Level - 2/benchmarks): main   *)
(* creates the workers and joins them in order, and the workers update a   *)
(* shared sum under a mutex.                                               *)
(***************************************************************************)
EXTENDS WorkerProps, TLC

Do(op, arg) == [op |-> op, arg |-> arg]
create      == Do("create", 0)
yield       == Do("yield", 0)
lock(m)     == Do("lock", m)
unlock(m)   == Do("unlock", m)
join(t)     == Do("join", t)

\* main: one create per worker, then the joins in the order of creation.
Forker(n)   == [i \in 1..(2 * n) |-> IF i <= n THEN create ELSE join(i - n)]
Fork(n, body) == [t \in 0..n |-> IF t = 0 THEN Forker(n) ELSE body]

\* Workers that only compute, the first of them giving up the CPU twice.
ForkCompute == [Fork(NumThreads - 1, <<>>) EXCEPT ![1] = <<yield, yield>>]

\* Workers that update a shared sum.
ForkLock == Fork(NumThreads - 1, <<lock(1), unlock(1)>>)

\* Calls out of the ordinary: a worker unlocks a mutex that it does not hold and takes it
\* twice, the other one keeps it when it exits, main destroys it, held or free, under its
\* users, and the second worker is joined twice.
Unusual == 0 :> <<create, create, Do("destroy", 1), join(2)>>
           @@ 1 :> <<unlock(1), lock(1), lock(1), unlock(1), join(2)>>
           @@ 2 :> <<lock(1), Do("exit", 0), unlock(1)>>

\* Two workers join the third.
JoinTwice == 0 :> <<create, create, create, join(1)>>
             @@ 1 :> <<join(3)>> @@ 2 :> <<join(3)>> @@ 3 :> <<yield>>

=============================================================================
