---------------------------- MODULE MCWorkloads ----------------------------
(* Workloads for TLC: what the generators of each program may give, for    *)
(* two tasks or versions of two operations each.                           *)
EXTENDS Workloads

CONSTANTS Fill, Opening

INSTANCE Benchmarks

Pairs(keys) == [key : keys, value : {0, 1}]
Two(S) == [1..2 -> S]
Orders == {o \in Two(1..2) : o[1] # o[2]}

(* A counter gives the keys from first on, the Zipfian one any. *)
CounterTasks(first) ==
  {[j \in 1..2 |-> [i \in 1..2 |->
      [key |-> first + 2 * (j - 1) + i - 1, value |-> x[j][i]]]] :
     x \in Two(Two({0, 1}))}
ZipfianTasks == Two(Two(Pairs(1..2)))

Accounts == 1..3
Payments == [send : Accounts, recv : Accounts]

Trace == [op : {"BatchGet", "put"}, key : 1..2]

(* What ycsb_simple may be asked to do; keys go up to the last record. *)
Operations(kinds, last) ==
  {o \in [kind : kinds, key : 0..last, value : {0, 1}] :
     /\ o.kind \in {"READ", "SCAN"} => o.value = 0
     /\ o.kind \in {"INSERT", "READMODIFYWRITE"} => o.key = 0
     /\ o.kind = "READMODIFYWRITE" => o.value = 0
     /\ o.kind = "SCAN" => o.key = 0}
Ycsb(kinds, count) ==
  UNION {{YcsbSimple(n, 2, o) :
            o \in {p \in [1..count -> Operations(kinds, n - 1)] :
                     p[1].kind # "READMODIFYWRITE"}} : n \in 1..4}

AllPrograms ==
  [get_put |-> {GetPut(t) : t \in CounterTasks(1)},
   put_get_inter_hashed_key |-> {PutGetInterHashedKey(t) : t \in CounterTasks(0)},
   get_put_2 |-> {GetPut2(t) : t \in ZipfianTasks},
   get_put_hashed_key |-> {GetPutHashedKey(t) : t \in CounterTasks(0)},
   put_get_hist_count |->
     {PutGetHistCount(t, o) : t \in CounterTasks(1), o \in Orders},
   put_get_hist_random |->
     {PutGetHistRandom(t, o) : t \in ZipfianTasks, o \in Orders},
   updateBenchmark |-> {UpdateBenchmark(2, 2)},
   microBenchmark |-> {MicroBenchmark(1, 2, u, g) :
                         u \in Two(Two(1..2)), g \in Two(1..2)},
   microseqBenchmark |-> {MicroSeqBenchmark(1, 2, 2, 2)},
   rangeBenchmark |-> {RangeBenchmark(1, 2, <<1, 2>>, k) : k \in 1..2},
   lineageBenchmarkV1 |->
     {LineageBenchmarkV1(1, 2, 2, k, o, c) :
        k \in Two(1..2), o \in 1..4, c \in {1, 2, None}},
   lineageBenchmarkV2 |->
     {LineageBenchmarkV2(1, 2, k, o, c) :
        k \in Two(1..2), o \in 1..4, c \in {1, 2, None}},
   scaleBenchmark |-> {ScaleBenchmark(<<1, 4>>, 2, w, r) :
                         w \in Two(Two(0..1)), r \in Two(Two(0..1))},
   simple |-> {Simple(0, 1)},
   trace_replay |-> {TraceReplay(t) : t \in [1..3 -> Trace]},
   simple_payment |->
     {SimplePayment(1, 2, <<b, <<p>>>>) : b \in Two(Payments), p \in Payments},
   ycsb_simple |-> Ycsb({"READ", "UPDATE", "INSERT", "SCAN"}, 3),
   ycsb_modify |-> Ycsb({"READ", "UPDATE", "INSERT", "SCAN", "READMODIFYWRITE"}, 2)]
=============================================================================
