---------------------------- MODULE DurableStore ----------------------------
(***************************************************************************)
(* The SQLite rows of ONE project (core/persistence.py) and the            *)
(* transactions that read and write them.  Every transaction of the code   *)
(* runs between BEGIN IMMEDIATE and COMMIT, or is a single UPDATE, so each *)
(* is one atomic operator here; the exception is _settle_failure, whose    *)
(* SELECT runs before its transaction starts (LeaseHeld and SettleFailure  *)
(* are two steps in SegmentPipeline).                                      *)
(*                                                                         *)
(* The module has no behaviour of its own: SegmentPipeline says which      *)
(* worker calls which transaction when.                                    *)
(*                                                                         *)
(* Abstractions.  The scheduler draws a fresh lease_owner for every claim  *)
(* and a claim increments lease_epoch, so the pair (owner, epoch) that the *)
(* code compares is the epoch alone: a worker's fencing token.  Wall-clock *)
(* time is leaseAge: whether lease_expires_at < now.  Contents of results, *)
(* texts and audio are left out; which row is in which state is kept.      *)
(***************************************************************************)
EXTENDS Integers

CONSTANT NumSegments          \* planned_segment_count of the accepted outline

ASSUME NumSegmentsAssumption == NumSegments \in Nat \ {0}

Segments == 1 .. NumSegments  \* segments.idx, counted from one
Project  == 0                 \* scope_id 'project'
Scopes   == Segments \cup {Project}

\* generation_stage_results has one row per (scope_id, stage_name).
LeadResearch == <<Project, "research">>
Finalizing   == <<Project, "finalizing">>
Stages ==
  {LeadResearch, Finalizing}
    \cup (Segments \X {"research", "text_generation", "fact_checking",
                       "tts", "mixing"})

\* The stages run by a provider: one logical_operation_id each.
Operations ==
  {LeadResearch}
    \cup (Segments \X {"research", "text_generation", "fact_checking", "tts"})

VARIABLES
  \* project_pipeline
  pipeState,     \* state; "absent" once the row is deleted
  epoch,         \* lease_epoch
  leaseAge,      \* "expired" once lease_expires_at < now, else "current"
  \* project_generation
  disposition,   \* active, cancellation_requested or terminal
  outcome,       \* terminal_outcome
  version,       \* progress_version
  \* generation_stage_results, provider_attempts, segments, provenance
  stage,         \* state of each stage row
  attempt,       \* state of the attempt row of each logical operation
  segStatus,     \* segments.status
  validated,     \* segments whose provenance row is 'validated'
  artifacts,     \* number of ready artifact rows of each scope
  \* projects
  projStatus,    \* status
  finalReady,    \* final_download_ready, 0 or 1
  retention      \* "kept", or "deleted" once deleted_at is set

workRow    == <<pipeState, epoch, leaseAge>>
genRow     == <<disposition, outcome, version>>
resultRows == <<stage, attempt, segStatus, validated, artifacts>>
projRow    == <<projStatus, finalReady, retention>>
storeVars  == <<workRow, genRow, resultRows, projRow>>

PipeStates    == {"pending", "leased", "succeeded", "failed", "cancelled",
                  "absent"}
Dispositions  == {"active", "cancellation_requested", "terminal"}
Outcomes      == {"none", "ready", "failed", "cancelled", "deleted"}
StageStates   == {"pending", "running", "completed", "failed", "cancelled",
                  "absent"}
AttemptStates == {"none", "reserved", "dispatched", "completed",
                  "failed_unknown"}
SegStatuses   == {"queued", "tts", "ready", "failed", "absent"}
ProjStatuses  == {"queued", "partially_ready", "ready", "failed", "deleted"}

StoreTypeOK ==
  /\ pipeState \in PipeStates
  /\ epoch \in Nat
  /\ leaseAge \in {"current", "expired"}
  /\ disposition \in Dispositions
  /\ outcome \in Outcomes
  /\ version \in Nat
  /\ stage \in [Stages -> StageStates]
  /\ attempt \in [Operations -> AttemptStates]
  /\ segStatus \in [Segments -> SegStatuses]
  /\ validated \in SUBSET Segments
  /\ artifacts \in [Scopes -> Nat]
  /\ projStatus \in ProjStatuses
  /\ finalReady \in {0, 1}
  /\ retention \in {"kept", "deleted"}

\* _create_progress_project commits the whole plan at once.
StoreInit ==
  /\ pipeState = "pending" /\ epoch = 0 /\ leaseAge = "current"
  /\ disposition = "active" /\ outcome = "none" /\ version = 0
  /\ stage = [k \in Stages |-> "pending"]
  /\ attempt = [o \in Operations |-> "none"]
  /\ segStatus = [s \in Segments |-> "queued"]
  /\ validated = {}
  /\ artifacts = [s \in Scopes |-> 0]
  /\ projStatus = "queued" /\ finalReady = 0 /\ retention = "kept"

-----------------------------------------------------------------------------
(***************************************************************************)
(* The lease and the fence.                                                *)
(***************************************************************************)

expired == leaseAge = "expired"
deleted == retention = "deleted"

\* Mutant: the WHERE clauses forget lease_epoch.
LeaseHeldByAnyone(t) == pipeState = "leased"

\* The row is leased to the holder of token t, expired or not.
LeaseHeld(t) == pipeState = "leased" /\ epoch = t

\* Mutant: the fence forgets disposition = 'active'.
CanRenewAnyDisposition(t) == LeaseHeld(t) /\ ~expired

\* The WHERE clause of _renew_work_lease.
CanRenew(t) == LeaseHeld(t) /\ ~expired /\ disposition = "active"

\* The publication fence every guarded transaction repeats.
Fence(t) == CanRenew(t) /\ ~deleted

\* Mutant: expired leases are not reclaimed.
ClaimableOnce == pipeState = "pending"

\* _claim_next_work takes a pending row, or a leased one past its expiry; it
\* looks at neither the disposition nor the project.
Claimable == pipeState = "pending" \/ (pipeState = "leased" /\ expired)

ClaimWork ==
  /\ Claimable
  /\ pipeState' = "leased"
  /\ epoch' = epoch + 1
  /\ leaseAge' = "current"
  /\ UNCHANGED <<genRow, resultRows, projRow>>

\* The wall clock passes lease_expires_at.
LeaseExpires ==
  /\ pipeState = "leased" /\ ~expired
  /\ leaseAge' = "expired"
  /\ UNCHANGED <<pipeState, epoch, genRow, resultRows, projRow>>

-----------------------------------------------------------------------------
(***************************************************************************)
(* Stage rows and provider attempts.                                       *)
(***************************************************************************)

\* A stage write and the progress_version increment that goes with it.
WriteStage(k, s) ==
  /\ stage' = [stage EXCEPT ![k] = s]
  /\ version' = version + 1
  /\ UNCHANGED <<disposition, outcome>>

RecordStageTransition(t, k, s) ==
  /\ Fence(t)
  /\ WriteStage(k, s)
  /\ UNCHANGED <<workRow, attempt, segStatus, validated, artifacts, projRow>>

WriteAttempt(o, s) ==
  /\ attempt' = [attempt EXCEPT ![o] = s]
  /\ UNCHANGED <<workRow, genRow, stage, segStatus, validated, artifacts,
                 projRow>>

ReserveAttempt(t, o)  == Fence(t) /\ attempt[o] = "none"
                           /\ WriteAttempt(o, "reserved")
DispatchAttempt(t, o) == Fence(t) /\ attempt[o] = "reserved"
                           /\ WriteAttempt(o, "dispatched")
CompleteAttempt(t, o) == Fence(t) /\ attempt[o] = "dispatched"
                           /\ WriteAttempt(o, "completed")

-----------------------------------------------------------------------------
(***************************************************************************)
(* Settlement: the transactions that end a generation.                     *)
(***************************************************************************)

SettledStatus ==
  IF \E s \in Segments : segStatus[s] = "ready"
  THEN "partially_ready" ELSE "failed"

Terminate(result) ==
  /\ disposition' = "terminal"
  /\ outcome' = result
  /\ version' = version + 1

\* Unfinished stages become cancelled and unfinished segments failed; what is
\* ready stays ready.
ObserveCancellation ==
  /\ stage' = [k \in Stages |->
                 IF stage[k] \in {"completed", "failed", "cancelled"}
                 THEN stage[k] ELSE "cancelled"]
  /\ segStatus' = [s \in Segments |->
                     IF segStatus[s] = "ready" THEN "ready" ELSE "failed"]
  /\ pipeState' = "cancelled"
  /\ Terminate("cancelled")
  /\ projStatus' = SettledStatus
  /\ UNCHANGED <<epoch, leaseAge, validated, artifacts, finalReady, retention>>

\* _settle_cancellation does not ask whether the lease expired.
CanSettleCancellation(t) ==
  LeaseHeld(t) /\ disposition = "cancellation_requested" /\ ~deleted

SettleCancellation(t) ==
  CanSettleCancellation(t) /\ ObserveCancellation /\ UNCHANGED attempt

\* _fail_dispatched_attempt_unknown: the answer to a dispatched request is not
\* known, so the generation ends - cancelled if that was asked, else failed.
CanFailUnknown(t, o) ==
  /\ attempt[o] = "dispatched"
  /\ LeaseHeld(t) /\ ~deleted
  /\ \/ disposition = "active" /\ ~expired
     \/ disposition = "cancellation_requested"

FailAttemptUnknown(t, o) ==
  /\ CanFailUnknown(t, o)
  /\ attempt' = [attempt EXCEPT ![o] = "failed_unknown"]
  /\ \/ /\ disposition = "cancellation_requested"
        /\ ObserveCancellation
     \/ /\ disposition = "active"
        /\ stage' = [stage EXCEPT ![o] =
                       IF @ = "completed" THEN "completed" ELSE "failed"]
        /\ pipeState' = "failed"
        /\ Terminate("failed")
        /\ projStatus' = SettledStatus
        /\ UNCHANGED <<epoch, leaseAge, segStatus, validated, artifacts,
                       finalReady, retention>>

\* Mutants: the pipeline row is not guarded by the epoch, the generation row
\* not by its disposition.
SettleFailureUnfenced(t) ==
  /\ pipeState' = IF ~deleted THEN "failed" ELSE pipeState
  /\ IF disposition = "active" THEN Terminate("failed") ELSE UNCHANGED genRow
  /\ projStatus' = SettledStatus
  /\ UNCHANGED <<epoch, leaseAge, resultRows, finalReady, retention>>

SettleFailureTwice(t) ==
  /\ pipeState' = IF epoch = t /\ ~deleted THEN "failed" ELSE pipeState
  /\ Terminate("failed")
  /\ projStatus' = SettledStatus
  /\ UNCHANGED <<epoch, leaseAge, resultRows, finalReady, retention>>

\* The writes of _settle_failure.  The pipeline row is guarded by owner and
\* epoch, the generation row only by its disposition, the project row not at
\* all; rows deleted meanwhile are not found.
SettleFailure(t) ==
  /\ pipeState' = IF epoch = t /\ ~deleted THEN "failed" ELSE pipeState
  /\ IF disposition = "active" THEN Terminate("failed") ELSE UNCHANGED genRow
  /\ projStatus' = SettledStatus
  /\ UNCHANGED <<epoch, leaseAge, resultRows, finalReady, retention>>

-----------------------------------------------------------------------------
(***************************************************************************)
(* Publication.                                                            *)
(***************************************************************************)

PublishVerifiedText(t, s) ==
  /\ Fence(t)
  /\ validated' = validated \cup {s}
  /\ segStatus' = [segStatus EXCEPT ![s] = "tts"]
  /\ WriteStage(<<s, "fact_checking">>, "completed")
  /\ UNCHANGED <<workRow, attempt, artifacts, projRow>>

PublishAudio(t, s) ==
  /\ Fence(t)
  /\ artifacts' = [artifacts EXCEPT ![s] = @ + 1]
  /\ segStatus' = [segStatus EXCEPT ![s] = "ready"]
  /\ projStatus' = IF projStatus = "queued" THEN "partially_ready"
                   ELSE projStatus
  /\ WriteStage(<<s, "mixing">>, "completed")
  /\ UNCHANGED <<workRow, attempt, validated, finalReady, retention>>

\* Mutant: the work row is left for _settle_ready.
PublishFinalOnly(t) ==
  /\ Fence(t)
  /\ stage[Finalizing] = "running"
  /\ artifacts' = [artifacts EXCEPT ![Project] = @ + 1]
  /\ stage' = [stage EXCEPT ![Finalizing] = "completed"]
  /\ version' = version + 1
  /\ projStatus' = "ready"
  /\ finalReady' = 1
  /\ UNCHANGED <<workRow, disposition, outcome, attempt, segStatus, validated,
                 retention>>

\* _publish_final_artifact settles the generation in the same transaction, and
\* looks at no segment.
PublishFinal(t) ==
  /\ Fence(t)
  /\ stage[Finalizing] = "running"
  /\ artifacts' = [artifacts EXCEPT ![Project] = @ + 1]
  /\ stage' = [stage EXCEPT ![Finalizing] = "completed"]
  /\ pipeState' = "succeeded"
  /\ Terminate("ready")
  /\ projStatus' = "ready"
  /\ finalReady' = 1
  /\ UNCHANGED <<epoch, leaseAge, attempt, segStatus, validated, retention>>

\* _settle_ready settles a generation whose final artifact is published.
SettleReady(t) ==
  /\ Fence(t)
  /\ pipeState' = "succeeded"
  /\ Terminate("ready")
  /\ projStatus' = "ready" /\ finalReady' = 1
  /\ UNCHANGED <<epoch, leaseAge, resultRows, retention>>

-----------------------------------------------------------------------------
(***************************************************************************)
(* The client's requests.                                                  *)
(***************************************************************************)

\* Mutant: the request does not move progress_version.
RequestCancellationSilently ==
  /\ ~deleted /\ disposition = "active"
  /\ disposition' = "cancellation_requested"
  /\ UNCHANGED <<outcome, version, workRow, resultRows, projRow>>

\* Only an active generation changes: a repeated request answers 202, a
\* request after the end 200 or 409, and none of them writes.
RequestCancellation ==
  /\ ~deleted /\ disposition = "active"
  /\ disposition' = "cancellation_requested"
  /\ version' = version + 1
  /\ UNCHANGED <<outcome, workRow, resultRows, projRow>>

\* Mutant: the artifact rows are left to the file sweep.
DeleteProjectKeepingArtifacts ==
  /\ ~deleted
  /\ retention' = "deleted" /\ projStatus' = "deleted" /\ finalReady' = 0
  /\ IF disposition = "terminal" THEN UNCHANGED genRow ELSE Terminate("deleted")
  /\ pipeState' = "absent"
  /\ stage' = [k \in Stages |-> "absent"]
  /\ attempt' = [o \in Operations |-> "none"]
  /\ segStatus' = [s \in Segments |-> "absent"]
  /\ validated' = {}
  /\ UNCHANGED <<epoch, leaseAge, artifacts>>

\* The generation is terminalised and then its rows are removed: removed rows
\* are "absent", a removed attempt is "none", and the removed generation row
\* keeps the last values it had.
DeleteProject ==
  /\ ~deleted
  /\ retention' = "deleted" /\ projStatus' = "deleted" /\ finalReady' = 0
  /\ IF disposition = "terminal" THEN UNCHANGED genRow ELSE Terminate("deleted")
  /\ pipeState' = "absent"
  /\ stage' = [k \in Stages |-> "absent"]
  /\ attempt' = [o \in Operations |-> "none"]
  /\ segStatus' = [s \in Segments |-> "absent"]
  /\ validated' = {}
  /\ artifacts' = [s \in Scopes |-> 0]
  /\ UNCHANGED <<epoch, leaseAge>>
=============================================================================
