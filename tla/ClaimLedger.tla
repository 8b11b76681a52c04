----------------------------- MODULE ClaimLedger -----------------------------
(***************************************************************************)
(* What the store promises about its claims, with no transactions, retries *)
(* or reads in sight.  A claim is recorded once, is live until one event   *)
(* closes it, keeps that closure for as long as it is stored, and is gone  *)
(* for good once erased.  Each step is one commit: a write (new claims,    *)
(* with the claims they replace closed in the same instant), a forget, an  *)
(* expiry sweep or a purge; never a mixture.                               *)
(***************************************************************************)
CONSTANTS MemId, Space, Hash, None

VARIABLE ledger

Absent == [state |-> "absent", space |-> None, content |-> None,
           at |-> None, reason |-> None, by |-> None]
Gone == [Absent EXCEPT !.state = "gone"]

Init == ledger = [m \in MemId |-> Absent]

\* A claim enters the ledger live.
Recorded(m) ==
    /\ ledger[m].state = "absent"
    /\ ledger'[m].state = "live"
    /\ ledger'[m].space \in Space /\ ledger'[m].content \in Hash
    /\ ledger'[m].at = None /\ ledger'[m].reason = None /\ ledger'[m].by = None

\* A live claim is closed; what it says does not change.
ClosedAs(m, reason) ==
    /\ ledger[m].state = "live"
    /\ ledger'[m].state = "closed"
    /\ ledger'[m].space = ledger[m].space
    /\ ledger'[m].content = ledger[m].content
    /\ ledger'[m].at # None
    /\ ledger'[m].reason = reason

\* Closed in favour of another claim of the same space that was recorded.
Replaced(m) ==
    /\ ClosedAs(m, "superseded")
    /\ \E n \in MemId \ {m} :
          /\ ledger'[m].by = n
          /\ ledger'[n].state # "absent"
          /\ ledger'[n].state # "gone" => ledger'[n].space = ledger'[m].space

Dropped(m, reason) == ClosedAs(m, reason) /\ ledger'[m].by = None

Erased(m) == ledger[m].state \in {"live", "closed"} /\ ledger'[m] = Gone

Same(m) == ledger'[m] = ledger[m]

\* At most one live claim says a thing in a space.
OneLive ==
    \A m, n \in MemId :
        /\ ledger[m].state = "live" /\ ledger[n].state = "live"
        /\ ledger[m].space = ledger[n].space
        /\ ledger[m].content = ledger[n].content
        => m = n

Write == /\ \A m \in MemId : Same(m) \/ Recorded(m) \/ Replaced(m)
         /\ OneLive'
Forget == \A m \in MemId : Same(m) \/ Dropped(m, "forgotten")
Expire == \A m \in MemId : Same(m) \/ Dropped(m, "expired")
Purge == \A m \in MemId : Same(m) \/ Erased(m)

\* The ledger is one table: a step replaces it as a whole.
Step == Write \/ Forget \/ Expire \/ Purge

Spec == Init /\ [][Step]_ledger
=============================================================================
