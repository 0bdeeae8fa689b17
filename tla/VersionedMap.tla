---------------------------- MODULE VersionedMap ----------------------------
(***************************************************************************)
(* What DMMTrie promises its callers: a map from keys to values of which   *)
(* every committed version stays readable.  Put and Delete gather a batch; *)
(* CalcRootHash commits it under the current version; Get at a version     *)
(* answers from that version as it was committed.                          *)
(*                                                                         *)
(* The promise has a horizon: a commit may checkpoint pages, and a read    *)
(* below the last checkpoint may return anything.                          *)
(***************************************************************************)
EXTENDS Integers

CONSTANTS UserKey, Value, NoValue, Versions, FirstVersion, Answers, None

VARIABLES
  snapshots,  \* the map as each version left it, None for a version not committed
  current,    \* the version of the running batch
  batch,      \* the values put since the last commit, None where nothing was
  horizon,    \* reads from here on are exact
  reply       \* what the last read answered, until its caller takes it

mapVars == <<snapshots, current, batch, horizon, reply>>

EmptyBatch == [k \in UserKey |-> None]
EmptyMap == [k \in UserKey |-> NoValue]
CommittedVersions == {v \in Versions : snapshots[v] # None}
Newest == IF CommittedVersions = {} THEN EmptyMap
          ELSE snapshots[CHOOSE v \in CommittedVersions :
                           \A w \in CommittedVersions : w <= v]
At(k, v) == IF snapshots[v] = None THEN NoValue ELSE snapshots[v][k]

MapInit ==
  /\ snapshots = [v \in Versions |-> None]
  /\ current = 0 /\ horizon = 0
  /\ batch = EmptyBatch
  /\ reply = None

MapWrite(k, val, v) ==
  /\ reply = None
  /\ v >= current /\ v >= FirstVersion
  /\ current' = v
  /\ batch' = [batch EXCEPT ![k] = val]
  /\ snapshots[v] = None
  /\ UNCHANGED <<snapshots, horizon, reply>>

MapCommit ==
  /\ reply = None
  /\ batch # EmptyBatch
  /\ batch' = EmptyBatch
  /\ snapshots' = [snapshots EXCEPT ![current] =
       [k \in UserKey |-> IF batch[k] # None THEN batch[k] ELSE Newest[k]]]
  /\ horizon' \in {horizon, current}
  /\ UNCHANGED <<current, reply>>

MapGet(k, v, val) ==
  /\ reply = None
  /\ reply' = [key |-> k, version |-> v, value |-> val]
  /\ v >= horizon => val = At(k, v)
  /\ UNCHANGED <<snapshots, current, batch, horizon>>

MapTake ==
  /\ reply # None
  /\ reply' = None
  /\ UNCHANGED <<snapshots, current, batch, horizon>>

MapNext ==
  \/ \E k \in UserKey, val \in Value \cup {NoValue}, v \in Versions :
       MapWrite(k, val, v)
  \/ MapCommit
  \/ \E k \in UserKey, v \in Versions, val \in Answers : MapGet(k, v, val)
  \/ MapTake

MapSpec == MapInit /\ [][MapNext]_mapVars
=============================================================================
