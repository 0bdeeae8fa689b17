----------------------------- MODULE ActivePages -----------------------------
(***************************************************************************)
(* What the pool of active delta pages promises DMMTrie::CalcRootHash: one *)
(* delta page per pid, as if all of them were kept, except that            *)
(* b_update_count_ of a page that holds no items may change between two    *)
(* commits.  VersionedPages is written against this promise (its function  *)
(* "active" and its action EvictActive).                                   *)
(***************************************************************************)
EXTENDS Integers

CONSTANTS
  Pid,         \* page identifiers
  Weight,      \* Weight[p]: delta items one slot update of p appends (1 or 2)
  Td, Tb,      \* delta page capacity; updates between two checkpoints
  MaxVersion,  \* BOUND: the greatest version a caller commits
  MaxUpdates,  \* BOUND: slot updates of one page in one commit
  None         \* no call, no page

VARIABLES
  active,  \* the active delta page of each pid
  call     \* the page CalcRootHash is updating

vars == <<active, call>>

-----------------------------------------------------------------------------
Versions == 0..MaxVersion
Key == [pid : Pid, version : Versions, delta : BOOLEAN]
BaseKey(p, v) == [pid |-> p, version |-> v, delta |-> FALSE]
DeltaKey(p, v) == [pid |-> p, version |-> v, delta |-> TRUE]
Page == [last : Key, count : Nat, bcount : Nat]
Call == [pid : Pid, version : Versions, exceed : BOOLEAN, left : 0..MaxUpdates]

NewPage(p) == [last |-> DeltaKey(p, 0), count |-> 0, bcount |-> 0]

(* The page after its items were frozen under key k. *)
Cleared(a, k) == [last |-> k, count |-> 0, bcount |-> a.bcount]
(* The page after a checkpoint under base key k. *)
Checkpointed(a, k) == [last |-> k, count |-> a.count, bcount |-> 0]

(* Before the updates: a page that will go to a base page is frozen first. *)
Exceeds(a, n) == 2 * n + a.count >= Td
Opened(a, c) ==
  IF c.exceed /\ a.count # 0 THEN Cleared(a, DeltaKey(c.pid, c.version)) ELSE a

(* After one update: Td_ freezes the delta page, Tb_ makes a base page. *)
FreezeDue(a) == a.count >= Td
MutantCheckpointByDeltaCount(a) == a.count >= Tb
CheckpointDue(a) == a.bcount >= Tb
Updated(a, c) ==
  LET grown == [last |-> a.last, count |-> a.count + Weight[c.pid],
                bcount |-> a.bcount + Weight[c.pid]]
      rest == IF FreezeDue(grown) THEN Cleared(grown, DeltaKey(c.pid, c.version))
              ELSE grown
  IN IF c.exceed THEN a
     ELSE IF CheckpointDue(rest)
       THEN Checkpointed(rest, BaseKey(c.pid, c.version))
     ELSE rest

(* After the updates: what is left is frozen. *)
Closed(a, c) ==
  LET rest == IF c.exceed THEN Checkpointed(a, BaseKey(c.pid, c.version)) ELSE a
  IN IF rest.count # 0 THEN Cleared(rest, DeltaKey(c.pid, c.version)) ELSE rest

-----------------------------------------------------------------------------
Init ==
  /\ active = [p \in Pid |-> NewPage(p)]
  /\ call = None

(* CalcRootHash starts on page p at a version newer than p's last page. *)
Begin(p, v, n) ==
  /\ call = None /\ v > active[p].last.version
  /\ call' = [pid |-> p, version |-> v, exceed |-> Exceeds(active[p], n), left |-> n]
  /\ active' = [active EXCEPT ![p] = Opened(@, call')]

Update ==
  /\ call # None /\ call.left > 0
  /\ active' = [active EXCEPT ![call.pid] = Updated(@, call)]
  /\ call' = [call EXCEPT !.left = @ - 1]

End ==
  /\ call # None /\ call.left = 0
  /\ active' = [active EXCEPT ![call.pid] = Closed(@, call)]
  /\ call' = None

(* Between commits a page without items may come back with another count   *)
(* of updates since its last checkpoint.                                   *)
Recounted(a, b) ==
  \/ b = a
  \/ /\ a.count = 0
     /\ \E n \in 0..(Tb - 1) : b = [last |-> a.last, count |-> 0, bcount |-> n]
Recount ==
  /\ call = None /\ UNCHANGED call
  /\ active' = [p \in Pid |-> active'[p]]
  /\ \A p \in Pid : Recounted(active[p], active'[p])

Next ==
  \/ \E p \in Pid, v \in Versions, n \in 1..MaxUpdates : Begin(p, v, n)
  \/ Update
  \/ End
  \/ Recount

Spec == Init /\ [][Next]_vars

=============================================================================
