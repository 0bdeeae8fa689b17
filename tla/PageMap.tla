------------------------------- MODULE PageMap -------------------------------
(***************************************************************************)
(* What the page table of LSVPS promises to the layers above it: a map     *)
(* from page keys to pages in which a page, once stored, stays as it was.  *)
(* LSVPS::StorePage adds one page; moving pages to disk shows nothing.     *)
(***************************************************************************)
CONSTANTS Key, Page, None

VARIABLE stored

Init == stored = [k \in Key |-> None]

StorePage(k) ==
  /\ stored[k] = None /\ stored'[k] \in Page
  /\ \A j \in Key \ {k} : stored'[j] = stored[j]

Next == \E k \in Key : StorePage(k)

Spec == Init /\ [][Next]_stored
=============================================================================
