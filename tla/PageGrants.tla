----------------------------- MODULE PageGrants -----------------------------
(***************************************************************************)
(* What /dev/versat promises of physical pages: a page is free, or owned   *)
(* by one process, or gone for good.  A process acquires a block of pages  *)
(* that are all free, and gives back a block of its own.                   *)
(***************************************************************************)
CONSTANTS
  Proc,
  Blocks   (* the sets of pages that are handed out together                *)

VARIABLES owned, gone

Taken == gone \cup UNION {owned[p] : p \in Proc}

Init == owned = [p \in Proc |-> {}] /\ gone = {}

Acquire(p, block) ==
  /\ owned' = [owned EXCEPT ![p] = @ \cup block]
  /\ block \cap Taken = {}
  /\ gone' = gone

GiveBack(p, block) ==
  /\ block \subseteq owned[p]
  /\ owned' = [owned EXCEPT ![p] = @ \ block]
  /\ gone' = gone

Lose(p, block) ==
  /\ block \subseteq owned[p]
  /\ owned' = [owned EXCEPT ![p] = @ \ block]
  /\ gone' = gone \cup block

Next == \E p \in Proc, block \in Blocks :
          Acquire(p, block) \/ GiveBack(p, block) \/ Lose(p, block)

Spec == Init /\ [][Next]_<<owned, gone>>
=============================================================================
