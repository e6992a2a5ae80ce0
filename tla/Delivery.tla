-------------------------------- MODULE Delivery -------------------------------
(***************************************************************************)
(* What executing the commands of a flush promises: when it reports        *)
(* success, each item was delivered in this run, but for those that may be *)
(* and were skipped.  It may fail at any time, which says nothing of what  *)
(* was delivered, and what it began goes on being delivered after that.    *)
(***************************************************************************)
EXTENDS Naturals

CONSTANT Item  \* all items there can be

VARIABLES
  items,      \* those of this flush
  optional,   \* those of them that may be skipped
  delivered,  \* those that were delivered in this run
  skipped,
  result      \* "open", "ok" or "failed"

vars == <<items, optional, delivered, skipped, result>>

Init ==
  /\ items \subseteq Item /\ optional \subseteq items
  /\ delivered = {} /\ skipped = {} /\ result = "open"

Deliver ==
  /\ \E some \in SUBSET items : delivered' = delivered \union some
  /\ UNCHANGED <<items, optional, skipped, result>>

Skip ==
  /\ \E item \in optional : skipped' = skipped \union {item}
  /\ UNCHANGED <<items, optional, delivered, result>>

Succeed ==
  /\ result = "open"
  /\ delivered \union skipped = items
  /\ result' = "ok"
  /\ UNCHANGED <<items, optional, delivered, skipped>>

\* The request that fails may have delivered something.
Fail ==
  /\ result = "open"
  /\ result' = "failed"
  /\ \E some \in SUBSET items : delivered' = delivered \union some
  /\ UNCHANGED <<items, optional, skipped>>

\* Another run delivers everything again.
Again ==
  /\ result = "failed"
  /\ result' = "open" /\ delivered' = {} /\ skipped' = {}
  /\ UNCHANGED <<items, optional>>

Next == Deliver \/ Skip \/ Succeed \/ Fail \/ Again

Spec == Init /\ [][Next]_vars
==============================================================================
