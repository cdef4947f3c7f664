---------------------------- MODULE EnrichmentLedger ----------------------------
(***************************************************************************)
(* What the durable table enrichment_jobs promises about one deferred job, *)
(* said without queue, threads or process: a row is admitted once, an      *)
(* execution is started at most once, and an outcome, once written, stays. *)
(* EnrichmentPipeline is shown to implement this module.                   *)
(***************************************************************************)
EXTENDS Naturals

CONSTANT Job       \* the identities of jobs (job_id, a fresh uuid per job)

VARIABLES ledger,    \* ledger[j]: the column state, "absent" before the INSERT
          attempts   \* attempts[j]: the column attempt_count

vars == <<ledger, attempts>>

Terminal == {"succeeded", "failed"}
State == {"absent", "queued", "running"} \cup Terminal

TypeOK ==
  /\ ledger \in [Job -> State]
  /\ attempts \in [Job -> Nat]

Init ==
  /\ ledger = [j \in Job |-> "absent"]
  /\ attempts = [j \in Job |-> 0]

Admit(j) ==
  /\ ledger[j] = "absent"
  /\ ledger' = [ledger EXCEPT ![j] = "queued"]
  /\ UNCHANGED attempts

Start(j) ==
  /\ ledger[j] = "queued"
  /\ ledger' = [ledger EXCEPT ![j] = "running"]
  /\ attempts' = [attempts EXCEPT ![j] = @ + 1]

\* A job that was never started can only be refused or fail.
GiveUp(j) ==
  /\ ledger[j] = "queued"
  /\ ledger' = [ledger EXCEPT ![j] = "failed"]
  /\ UNCHANGED attempts

Finish(j) ==
  /\ ledger[j] = "running"
  /\ \E s \in Terminal : ledger' = [ledger EXCEPT ![j] = s]
  /\ UNCHANGED attempts

Next == \E j \in Job : Admit(j) \/ Start(j) \/ GiveUp(j) \/ Finish(j)

Spec == Init /\ [][Next]_vars

\* The consequence a reader of the table relies on: nothing runs twice, what succeeded has run.
RunsAtMostOnce ==
  \A j \in Job : /\ attempts[j] <= 1
                 /\ ledger[j] \in {"running", "succeeded"} => attempts[j] = 1
=============================================================================
