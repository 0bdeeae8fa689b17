--------------------------- MODULE TrieInterface ---------------------------
(***************************************************************************)
(* The trie as its callers meet it: the map of VersionedMap, with what the *)
(* C++ code does when a caller leaves that promise.  Put and Delete refuse *)
(* an outdated version without an error.  A commit under a version other   *)
(* than the running one, under one that was committed before, or under 0,  *)
(* which marks a missing page in the page store, leaves pages that later   *)
(* reads may answer anything from.                                         *)
(***************************************************************************)
EXTENDS Integers

CONSTANTS
  UserKey,     \* the keys
  Value,       \* the values callers put
  NoValue,     \* the empty string: no such key
  MaxVersion,  \* BOUND: the greatest version a caller reaches
  None

Versions == 0..MaxVersion

ASSUME TrieAssumption ==
  /\ MaxVersion \in Nat \ {0}
  /\ NoValue \notin Value /\ None \notin Value /\ None # NoValue
  /\ None \notin [UserKey -> Value \cup {NoValue}]

VARIABLES
  current_version,  \* DMMTrie::current_version_
  put_cache,        \* DMMTrie::put_cache_, None where nothing was put
  snapshots,        \* the trie at every version it committed, None elsewhere
  horizon           \* reads of the trie from this version on are exact

trie == <<current_version, put_cache, snapshots, horizon>>

EmptyPutCache == [k \in UserKey |-> None]
EmptyMap == [k \in UserKey |-> NoValue]
Over(map, puts) == [k \in UserKey |-> IF puts[k] # None THEN puts[k] ELSE map[k]]

Committed == {v \in Versions : snapshots[v] # None}
Newest ==
  IF Committed = {} THEN EmptyMap
  ELSE snapshots[CHOOSE v \in Committed : \A w \in Committed : w <= v]

TrieInit ==
  /\ current_version = 0 /\ put_cache = EmptyPutCache
  /\ snapshots = [v \in Versions |-> None] /\ horizon = 0

MutantRefuses(v) == v <= current_version
Refuses(v) == v < current_version

(* Put and Delete of an outdated version change nothing. *)
TrieDelete(v, k) ==
  IF Refuses(v) THEN UNCHANGED trie
  ELSE /\ current_version' = v
       /\ put_cache' = [put_cache EXCEPT ![k] = NoValue]
       /\ UNCHANGED <<snapshots, horizon>>
TriePut(v, k, val) ==
  IF Refuses(v) \/ val = NoValue THEN UNCHANGED trie
  ELSE /\ current_version' = v
       /\ put_cache' = [put_cache EXCEPT ![k] = val]
       /\ UNCHANGED <<snapshots, horizon>>

(* CalcRootHash: nothing is exact any more when the commit is not one the  *)
(* trie promises to keep; else a checkpoint may make older versions        *)
(* unreadable.                                                             *)
Promised(v) == v = current_version /\ v \notin Committed /\ v # 0
TrieCommit(v) ==
  IF put_cache = EmptyPutCache THEN UNCHANGED trie
  ELSE /\ snapshots' = [snapshots EXCEPT ![v] = Over(Newest, put_cache)]
       /\ put_cache' = EmptyPutCache
       /\ IF Promised(v) THEN horizon' \in {horizon, v}
                         ELSE horizon' = MaxVersion + 1
       /\ UNCHANGED current_version

TrieGet(v, k) ==
  IF v < horizon THEN Value \cup {NoValue}
  ELSE {IF snapshots[v] = None THEN NoValue ELSE snapshots[v][k]}
=============================================================================
