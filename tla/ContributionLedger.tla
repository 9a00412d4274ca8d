------------------------- MODULE ContributionLedger -------------------------
(***************************************************************************)
(* What the token ledger promises, whatever runs around it: an entry is    *)
(* booked once, under the id of the audit row that justifies it; its       *)
(* beneficiary, amount and source never change; it can be rejected, which  *)
(* is final; and no entry ever disappears.                                 *)
(***************************************************************************)
CONSTANTS Logs, Parties, Amounts, Sources

VARIABLE book   \* the entries, by log id

Entry == [agent : Parties, delta : Amounts, draft : Sources,
          status : {"confirmed", "rejected"}]

Init == book = [l \in {} |-> l]

\* Entry e is booked under l.
Confirm(l, e) ==
  /\ l \notin DOMAIN book
  /\ e.status = "confirmed"
  /\ book' = [k \in DOMAIN book \cup {l} |-> IF k = l THEN e ELSE book[k]]

\* The entry booked under l is rejected.
Reject(l) ==
  /\ l \in DOMAIN book
  /\ book[l].status = "confirmed"
  /\ book' = [book EXCEPT ![l].status = "rejected"]

Next ==
  \/ \E l \in Logs, e \in Entry : Confirm(l, e)
  \/ \E l \in Logs : Reject(l)

Spec == Init /\ [][Next]_book
=============================================================================
