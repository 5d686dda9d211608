----------------------------- MODULE JobLedger -----------------------------
(***************************************************************************)
(* What durable ingestion promises about its jobs, and nothing of how it   *)
(* keeps the promise (ADR 0007): an upload that is accepted has its event  *)
(* in the outbox from the same instant; it is open until it gets one       *)
(* outcome; an outcome is never replaced by another; a job with an outcome *)
(* is opened again only by a repair, which owes a new event for it; it     *)
(* disappears only with its document, for good.  Module Ingestion          *)
(* implements this one.                                                    *)
(***************************************************************************)
CONSTANT Jobs

VARIABLES
  ledger,   \* per job: "none", "open", one of Outcomes, or "gone"
  due,      \* jobs whose event the outbox owes to the broker
  excused   \* jobs the promise to settle no longer covers

ledgerVars == <<ledger, due, excused>>

Outcomes == {"completed", "failed", "cancelled"}

LedgerInit ==
  /\ ledger = [j \in Jobs |-> "none"]
  /\ due = {}
  /\ excused = {}

\* While a job stays what it is its event comes and goes, but nothing is owed
\* for a job that does not exist.
Stays(j) ==
  /\ ledger'[j] = ledger[j]
  /\ ledger[j] \in {"none", "gone"} => j \notin due'

Accept(j) == ledger[j] = "none" /\ ledger'[j] = "open" /\ j \in due'

Settle(j) == ledger[j] = "open" /\ ledger'[j] \in Outcomes

\* A cancelled job is never repaired.
Repair(j) ==
  ledger[j] \in {"completed", "failed"} /\ ledger'[j] = "open" /\ j \in due'

Remove(j) ==
  ledger[j] \in {"open"} \cup Outcomes /\ ledger'[j] = "gone" /\ j \notin due'

\* The deletion of a document settles or removes all of its jobs at once.
LedgerNext ==
  /\ excused \subseteq excused'
  /\ \A j \in Jobs :
       Stays(j) \/ Accept(j) \/ Settle(j) \/ Repair(j) \/ Remove(j)

EveryJobSettles ==
  \A j \in Jobs :
    ledger[j] = "open" /\ j \notin excused
      ~> ledger[j] # "open" \/ j \in excused

LedgerSafety == LedgerInit /\ [][LedgerNext]_ledgerVars

LedgerSpec == LedgerSafety /\ EveryJobSettles
=============================================================================
