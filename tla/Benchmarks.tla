----------------------------- MODULE Benchmarks -----------------------------
(***************************************************************************)
(* The programs of workload/exes as plans: what a program asks of the trie *)
(* does not depend on the answers (but for the balances of payments), so a *)
(* program is the sequence of its operations, a function of its options    *)
(* and of the keys and values its generators give.  Module Workloads runs  *)
(* the plans.                                                              *)
(*                                                                         *)
(* Keys are numbers; a hashed or padded name is the number it is made of.  *)
(* Options, timing, memory measurements and result files are left out.     *)
(***************************************************************************)
EXTENDS Integers, Sequences, SequencesExt

CONSTANTS
  None,
  NoValue,  \* the empty string
  Carried,  \* the value that the get before the last one answered
  Fill,     \* the values of programs that never look at what they read
  Opening   \* BOUND: the balance accounts are opened with, for 10

(* Operations.  A get may expect a value; a noted operation of ycsb_simple *)
(* also goes to its KVBuffer.                                              *)
Put(v, k, x) == [op |-> "put", version |-> v, key |-> k, value |-> x, noted |-> FALSE]
Get(v, k, x) == [op |-> "get", version |-> v, key |-> k, value |-> x, noted |-> FALSE]
Read(v, k) == Get(v, k, None)
Scan(v) == [op |-> "scan", version |-> v]
Delete(v, k) == [op |-> "delete", version |-> v, key |-> k]
Commit(v) == [op |-> "commit", version |-> v]
Noted(op) == [op EXCEPT !.noted = TRUE]

(* The operations Of(i) for i from first to last. *)
Loop(first, last, Of(_)) ==
  FlattenSeq([i \in 1..(last - first + 1) |-> Of(first + i - 1)])

-----------------------------------------------------------------------------
(* The put and get tests.  A task is a sequence of [key, value] pairs.     *)

(* taskGenerator: a key repeated in a task is read as it was last put. *)
MutantFirstValue(task) == task
Expected(task) ==
  [i \in DOMAIN task |->
    task[Max({j \in DOMAIN task : task[j].key = task[i].key})]]
PutTask(v, task) == [i \in DOMAIN task |-> Put(v, task[i].key, task[i].value)]
GetTask(v, task) ==
  [i \in DOMAIN task |-> Get(v, task[i].key, Expected(task)[i].value)]

GetPut(tasks) ==
  Loop(1, Len(tasks), LAMBDA j : PutTask(j, tasks[j]) \o <<Commit(j)>>
                                 \o GetTask(j, tasks[j]) \o <<Commit(j)>>)
PutGetInterHashedKey(tasks) ==
  Loop(1, Len(tasks), LAMBDA j : PutTask(j, tasks[j]) \o <<Commit(j)>>
                                 \o GetTask(j, tasks[j]))

PutAll(tasks) ==
  Loop(1, Len(tasks), LAMBDA j : PutTask(j, tasks[j]) \o <<Commit(j)>>)
GetAll(tasks, order) ==
  Loop(1, Len(tasks), LAMBDA j : GetTask(order[j], tasks[order[j]]))
InOrder(tasks) == [j \in DOMAIN tasks |-> j]

GetPut2(tasks) == PutAll(tasks) \o GetAll(tasks, InOrder(tasks))
GetPutHashedKey(tasks) == PutAll(tasks) \o GetAll(tasks, InOrder(tasks))
PutGetHistCount(tasks, order) == PutAll(tasks) \o GetAll(tasks, order)
PutGetHistRandom(tasks, order) == PutAll(tasks) \o GetAll(tasks, order)

-----------------------------------------------------------------------------
(* The benchmarks that begin at version 0: num_load versions after it load *)
(* the keys from 1 on, in batches.                                         *)

Batch(v, keys) == [i \in DOMAIN keys |-> Put(v, keys[i], Fill)] \o <<Commit(v)>>
Reads(v, keys) == [i \in DOMAIN keys |-> Read(v, keys[i])]
From(first, count) == [i \in 1..count |-> first + i - 1]
Load(num_load, batch) ==
  Loop(0, num_load, LAMBDA v : Batch(v, From(v * batch + 1, batch)))

(* The version after a loop that counts versions is one less than where    *)
(* the loop stops.                                                         *)
MutantLastVersion(version) == version
LastVersion(version) == version - 1

UpdateBenchmark(update_count, num_account) == Load(update_count, num_account)

(* keys: the random keys of each transaction version, of the gets after. *)
MicroBenchmark(num_load, batch, updates, gets) ==
  Load(num_load, batch)
  \o Loop(1, Len(updates), LAMBDA t : Batch(num_load + t, updates[t]))
  \o Reads(LastVersion(num_load + Len(updates) + 1), gets)

(* Reads and updates go through the keys from 0, which is never loaded. *)
MicroSeqBenchmark(num_load, batch, num_txn, txn_batch) ==
  Load(num_load, batch)
  \o Reads(LastVersion(num_load + 1), From(0, num_txn * txn_batch))
  \o Loop(1, num_txn, LAMBDA t :
       Batch(num_load + t, From((t - 1) * txn_batch, txn_batch)))

(* Every range starts at the first random key: its index is set back. *)
RangeBenchmark(num_load, batch, ranges, start) ==
  Load(num_load, batch)
  \o Loop(1, Len(ranges), LAMBDA r :
       Reads(LastVersion(num_load + 1), From(start, ranges[r])))

(* The proofs of each key at the versions from ov to before lv.  An ov     *)
(* below 0 wraps around and no version is read; count is None for -1.      *)
LineageReads(cur, keys, oldest, count) ==
  LET ov == cur - oldest
      lv == IF count = None \/ ov + count > cur THEN cur ELSE ov + count
  IN IF ov < 0 THEN <<>>
     ELSE Loop(1, Len(keys), LAMBDA t :
            Loop(ov, lv - 1, LAMBDA v : <<Read(v, keys[t])>>))
LineageBenchmarkV1(num_load, batch, num_txn, keys, oldest, count) ==
  Load(num_load, batch)
  \o Loop(num_load + 1, num_load + num_txn, LAMBDA v : Batch(v, keys))
  \o LineageReads(LastVersion(num_load + num_txn + 1), keys, oldest, count)

(* The updates come first and count the versions past those of the load,   *)
(* whose loop does not run.                                                *)
LineageBenchmarkV2(num_load, num_txn, keys, oldest, count) ==
  Loop(0, num_load + num_txn, LAMBDA v : Batch(v, keys))
  \o LineageReads(LastVersion(num_load + num_txn + 1), keys, oldest, count)

(* MyDatabase.  The state is the next version and the operations so far.   *)
WriteBaseData(db, first, count, batch) ==
  LET versions == (count + batch - 1) \div batch
  IN [version |-> db.version + versions,
      plan |-> db.plan \o Loop(1, versions, LAMBDA i :
        LET start == (i - 1) * batch
            size == IF count - start < batch THEN count - start ELSE batch
        IN Batch(db.version + i - 1, From(first + start, size)))]
TestBatchWrite(db, keys) ==
  [version |-> db.version + 1, plan |-> db.plan \o Batch(db.version, keys)]
TestBatchRead(db, keys) ==
  [db EXCEPT !.plan = @ \o Reads(db.version - 1, keys)]

(* scaleBenchmark: data sizes that grow, each followed by a write and a    *)
(* read test of the given random keys.                                     *)
ScaleBenchmark(sizes, batch, written, read) ==
  LET step(db, i) ==
        LET old == IF i = 1 THEN 0 ELSE sizes[i - 1]
            loaded == WriteBaseData(db, old + 1, sizes[i] - old, batch)
        IN TestBatchRead(TestBatchWrite(loaded, written[i]), read[i])
  IN FoldLeft(step, [version |-> 0, plan |-> <<>>], InOrder(sizes)).plan

-----------------------------------------------------------------------------
(* simple.cc, with the keys its assertions are about: 12345 is 1, 23456    *)
(* stands for those put twice, 11111 is 3 and 28294, never put, is 0.      *)
Simple(one, two) ==
  <<Put(1, 1, one), Put(1, 2, one), Commit(1),
    Put(2, 3, one), Put(2, 2, two), Commit(2),
    Get(2, 1, one),
    Delete(3, 1), Commit(3),
    Get(3, 1, NoValue), Get(1, 0, NoValue), Get(3, 0, NoValue)>>

(* trace_replay.cc: every operation of the trace is at version 1 and       *)
(* nothing is committed.                                                   *)
TraceReplay(trace) ==
  [i \in DOMAIN trace |->
    IF trace[i].op = "BatchGet" THEN Read(1, trace[i].key)
    ELSE Put(1, trace[i].key, Fill)]

-----------------------------------------------------------------------------
(* simple_payment.cc: accounts are loaded from version 1 on; a transaction *)
(* reads both balances at the version before and puts them back.           *)
Settle(v, account, side) ==
  [op |-> "settle", version |-> v, key |-> account, side |-> side]
Payment(v, pay) ==
  <<Read(v - 1, pay.send), Read(v - 1, pay.recv),
    Settle(v, pay.send, "send"), Settle(v, pay.recv, "recv")>>
SimplePayment(num_load, batch, txns) ==
  Loop(1, num_load, LAMBDA v :
    [i \in 1..batch |-> Put(v, (v - 1) * batch + i, Opening)] \o <<Commit(v)>>)
  \o Loop(1, Len(txns), LAMBDA t :
       Loop(1, Len(txns[t]), LAMBDA i : Payment(num_load + t, txns[t][i]))
       \o <<Commit(num_load + t)>>)

-----------------------------------------------------------------------------
(* ycsb_simple.cc.                                                         *)

(* loading: it commits after record batch and its multiples, counted from  *)
(* 0, so the first batch has one record more; what is left is committed    *)
(* unless the last record was one of these.                                *)
EndsBatch(i, batch) == i # 0 /\ i % batch = 0
Loading(records, batch) ==
  LET step(load, i) ==
        LET put == Append(load.plan, Put(load.version, i, Fill))
        IN IF EndsBatch(i, batch)
             THEN [version |-> load.version + 1,
                   plan |-> Append(put, Commit(load.version))]
             ELSE [load EXCEPT !.plan = put]
      all == FoldLeft(step, [version |-> 1, plan |-> <<>>], From(0, records))
  IN IF (records - 1) % batch # 0
       THEN [all EXCEPT !.plan = Append(@, Commit(all.version))] ELSE all

(* One operation of transaction(), on its locals: ver, k and v are left by *)
(* the operation before, which READMODIFYWRITE goes on with.               *)
ReadOp(s, k) ==
  [s EXCEPT !.ver = s.version, !.k = k, !.v = NoValue,
            !.plan = Append(@, Noted(Read(s.version, k)))]
UpdateOp(s, k, v) ==
  [s EXCEPT !.ver = s.version + 1, !.k = k, !.v = v, !.put_count = @ + 1,
            !.plan = Append(@, Noted(Put(s.version + 1, k, v)))]
InsertOp(s, v) == [UpdateOp(s, s.last + 1, v) EXCEPT !.last = @ + 1]

(* A scan does not pad the names of its keys, so it finds none: BOUND on   *)
(* its keys, which have fewer digits than the key length.                  *)
ScanOp(s, k) ==
  [s EXCEPT !.ver = s.version, !.k = k,
            !.plan = Append(@, Scan(s.version))]

(* It goes on with the version, key and value of the operation before, and *)
(* leaves what it read as the value, which a plan cannot know: Carried.    *)
ReadModifyWriteOp(s) ==
  [s EXCEPT !.v = Carried,
            !.plan = @ \o <<Noted(Read(s.ver, s.k)),
                             Noted(Put(s.ver + 1, s.k, s.v))>>]

(* The commit once put_count is a multiple of the batch size. *)
MutantNeverResets(s) ==
  [s EXCEPT !.version = @ + 1, !.plan = Append(@, Commit(s.version))]
CommitOp(s) ==
  [s EXCEPT !.version = @ + 1, !.put_count = 0,
            !.plan = Append(@, Commit(s.version + 1))]

Transaction(s, operation, batch) ==
  LET done ==
        CASE operation.kind = "READ" -> ReadOp(s, operation.key)
          [] operation.kind = "UPDATE" -> UpdateOp(s, operation.key, operation.value)
          [] operation.kind = "INSERT" -> InsertOp(s, operation.value)
          [] operation.kind = "SCAN" -> ScanOp(s, operation.key)
          [] operation.kind = "READMODIFYWRITE" -> ReadModifyWriteOp(s)
  IN IF done.put_count > 0 /\ done.put_count % batch = 0 THEN CommitOp(done)
     ELSE done

(* BOUND: READMODIFYWRITE is not the first operation, which would read its *)
(* version before anything was assigned to it.                             *)
YcsbSimple(records, batch, operations) ==
  LET load == Loading(records, batch)
      start == [version |-> load.version, plan |-> load.plan, put_count |-> 0,
                ver |-> 0, k |-> 0, v |-> NoValue, last |-> records - 1]
      done == FoldLeft(LAMBDA s, o : Transaction(s, o, batch), start, operations)
  IN IF done.put_count > 0 THEN CommitOp(done).plan ELSE done.plan
=============================================================================
