----------------------------- MODULE Workloads -----------------------------
(***************************************************************************)
(* The programs of workload/exes over the trie: a run takes one program    *)
(* with one choice of its random keys and values, and does its operations  *)
(* one by one.  The programs have one thread and one trie each.            *)
(***************************************************************************)
EXTENDS TrieInterface, Sequences, FiniteSets, Functions

CONSTANTS
  Carried,  \* stands for the value that the get before the last one answered
  Programs  \* the programs: sets of plans (Benchmarks)

(* What a plan asks for (Benchmarks). *)
Asked == Value \cup {NoValue, Carried}
Expectable == Value \cup {NoValue, None}
Call ==
  [op : {"put"}, version : Versions, key : UserKey, value : Asked, noted : BOOLEAN]
  \cup [op : {"get"}, version : Versions, key : UserKey, value : Expectable,
        noted : BOOLEAN]
  \cup [op : {"delete"}, version : Versions, key : UserKey]
  \cup [op : {"settle"}, version : Versions, key : UserKey, side : {"send", "recv"}]
  \cup [op : {"commit", "scan"}, version : Versions]

ASSUME WorkloadAssumption ==
  /\ IsFiniteSet(UserKey) /\ Carried \notin Value \cup {NoValue, None}
  /\ \A name \in DOMAIN Programs : \A p \in Programs[name] : p \in Seq(Call)

VARIABLES
  program,  \* its name; ycsb_modify is ycsb_simple with READMODIFYWRITE
  plan,     \* its operations
  at,       \* the next operation
  reply,      \* what the trie answered to the running one, None before
  answers,  \* what the last two gets answered
  wrong,    \* the versions at which wrong_cnt was incremented
  buffer,   \* KVBuffer of ycsb_simple, None where nothing was noted
  aborted   \* stoi threw

run == <<program, plan>>
results == <<answers, wrong, buffer, aborted>>
workloadVars == <<trie, run, at, reply, results>>

Buffered == [v \in Versions |-> [k \in UserKey |-> None]]

WorkloadInit ==
  /\ TrieInit
  /\ program \in DOMAIN Programs /\ plan \in Programs[program]
  /\ at = 1 /\ reply = None
  /\ answers = <<NoValue, NoValue>> /\ wrong = {} /\ aborted = FALSE
  /\ buffer = Buffered

Ended == at > Len(plan)
Operation == plan[at]
Doing(op) == ~Ended /\ reply = None /\ Operation.op = op
Done == at' = at + 1

(* KVBuffer::Put: the last value of a key at a version stays. *)
MutantKeepsFirst(v, k, x) ==
  [buffer EXCEPT ![v][k] = IF @ = None THEN x ELSE @]
BufferPut(v, k, x) == [buffer EXCEPT ![v][k] = x]
Note(x) ==
  IF Operation.noted THEN buffer' = BufferPut(Operation.version, Operation.key, x)
  ELSE UNCHANGED buffer

DoPut ==
  LET x == IF Operation.value = Carried THEN answers[1] ELSE Operation.value
  IN /\ Doing("put")
     /\ TriePut(Operation.version, Operation.key, x)
     /\ Note(x)
     /\ Done
     /\ UNCHANGED <<run, reply, answers, wrong, aborted>>

DoDelete ==
  /\ Doing("delete")
  /\ TrieDelete(Operation.version, Operation.key)
  /\ Done
  /\ UNCHANGED <<run, reply, results>>

DoCommit ==
  /\ Doing("commit")
  /\ TrieCommit(Operation.version)
  /\ Done
  /\ UNCHANGED <<run, reply, results>>

(* Get, and GetProof for its value. *)
DoGet ==
  /\ Doing("get")
  /\ \E x \in TrieGet(Operation.version, Operation.key) :
       reply' = [key |-> Operation.key, version |-> Operation.version, value |-> x]
  /\ UNCHANGED <<trie, run, at, results>>

(* The program goes on with the answer. *)
Answered ==
  /\ reply # None
  /\ reply' = None
  /\ answers' = <<answers[2], reply.value>>
  /\ wrong' = IF Operation.value \notin {None, reply.value}
                THEN wrong \cup {Operation.version} ELSE wrong
  /\ Note(reply.value)
  /\ Done
  /\ UNCHANGED <<trie, run, aborted>>

(* A scan of ycsb_simple reads names no put used. *)
DoScan ==
  /\ Doing("scan")
  /\ Done
  /\ UNCHANGED <<trie, run, reply, results>>

(* A payment moves 1 if the sender has it, then puts both balances. *)
MutantMovesAnyway(sent, received, side) ==
  IF side = "send" THEN sent - (IF sent > 0 THEN 1 ELSE 0) ELSE received + 1
MutantOverdraws(sent, received, side) ==
  IF side = "send" THEN sent - 1 ELSE received + 1
Balance(sent, received, side) ==
  IF sent = 0 THEN IF side = "send" THEN sent ELSE received
  ELSE IF side = "send" THEN sent - 1 ELSE received + 1
DoSettle ==
  /\ Doing("settle")
  /\ NoValue \notin {answers[1], answers[2]}
  /\ TriePut(Operation.version, Operation.key,
             Balance(answers[1], answers[2], Operation.side))
  /\ Done
  /\ UNCHANGED <<run, reply, results>>

(* stoi of the empty string throws: the account does not exist. *)
Abort ==
  /\ Doing("settle")
  /\ NoValue \in {answers[1], answers[2]}
  /\ aborted' = TRUE
  /\ at' = Len(plan) + 1
  /\ UNCHANGED <<trie, run, reply, answers, wrong, buffer>>

WorkloadNext ==
  \/ DoPut
  \/ DoDelete
  \/ DoCommit
  \/ DoGet
  \/ Answered
  \/ DoScan
  \/ DoSettle
  \/ Abort

WorkloadSpec == WorkloadInit /\ [][WorkloadNext]_workloadVars

-----------------------------------------------------------------------------
(* Properties.                                                             *)

(* The shape of the state; a balance never becomes negative, as it would   *)
(* not be a value then (simple_payment.cc:180).                            *)
WorkloadTypeOK ==
  /\ current_version \in Versions
  /\ put_cache \in [UserKey -> Value \cup {NoValue, None}]
  /\ \A v \in Versions :
       snapshots[v] = None \/ snapshots[v] \in [UserKey -> Value \cup {NoValue}]
  /\ horizon \in 0..(MaxVersion + 1)
  /\ at \in 1..(Len(plan) + 1)
  /\ wrong \subseteq Versions /\ aborted \in BOOLEAN
  /\ buffer \in [Versions -> [UserKey -> Value \cup {NoValue, None}]]

(* The operations of a kind, and the versions the plan puts to. *)
OfKind(op) == {i \in DOMAIN plan : plan[i].op = op}
Used == {plan[i].version : i \in OfKind("put") \cup OfKind("delete")}

(* wrong_cnt counts nothing but what the trie cannot answer: a value the   *)
(* programs expect is the one last put of that key up to that version, in  *)
(* whatever order the tasks are read and however often a key is repeated   *)
(* (taskGenerator and the wrong_cnt of six programs).  Those that read a   *)
(* version before they commit the next one count no error at all.          *)
WrongIsRight ==
  /\ \A v \in wrong : v < horizon
  /\ program \in {"get_put", "put_get_inter_hashed_key"} => wrong = {}

(* The calls of every program are calls the versioned map promises to      *)
(* answer: every version is put to before it is committed, and committed   *)
(* once, under the running version.  Not so of the benchmarks that begin   *)
(* at version 0, nor of READMODIFYWRITE in ycsb_simple, which puts to the  *)
(* version after the one of the operation before (ycsb_simple.cc:149).     *)
Promise == INSTANCE VersionedMap WITH
  current <- current_version,
  batch <- put_cache,
  FirstVersion <- 1,
  Answers <- Value \cup {NoValue}
CallsLawful ==
  [][0 \in Used \/ program = "ycsb_modify" \/ Promise!MapNext]_(Promise!mapVars)

(* Every get is at a version that was committed, so that a benchmark times *)
(* lookups that find something; also for the loops that count versions one *)
(* too far and step back.  Not so in trace_replay, which never commits,    *)
(* and in ycsb_simple, whose loading may end at a version it does not      *)
(* commit (ycsb_simple.cc:105).                                            *)
ReadsCommitted ==
  (reply # None /\ program \notin {"trace_replay", "ycsb_simple", "ycsb_modify"}) =>
    reply.version \in Committed

(* What the verification of ycsb_simple checks: every pair it noted is in  *)
(* the map of its version once that is committed.                          *)
BufferExact ==
  program = "ycsb_simple" =>
    \A v \in Committed, k \in UserKey :
      buffer[v][k] \in {None, snapshots[v][k]}

(* The money in the accounts does not change from one version to the next  *)
(* when no account takes part in two payments of that version, nor in one  *)
(* with itself (simple_payment.cc:176-191).                                *)
PaidOnce(v) ==
  \A i, j \in {n \in OfKind("settle") : plan[n].version = v} :
    plan[i].key = plan[j].key => i = j
Money(map) == SumFunctionOnSet(map, {k \in UserKey : map[k] # NoValue})
Conserved ==
  \A v \in Committed :
    (\E i \in OfKind("settle") : plan[i].version = v) /\ PaidOnce(v) =>
      Money(snapshots[v]) = Money(snapshots[v - 1])
=============================================================================
