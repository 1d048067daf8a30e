--------------------------- MODULE SegmentPipeline ---------------------------
(***************************************************************************)
(* The workers that generate one project (core/segment_pipeline.py), the   *)
(* scheduler that hands them the work (main.py), the client that cancels   *)
(* or deletes the project, and the faults: process crashes, stalls that    *)
(* outlive the lease, and exceptions.                                      *)
(*                                                                         *)
(* A worker is a thread running run_project_pipeline for one claim.  It    *)
(* walks through the stages in plan order; each step below is the code     *)
(* from one transaction to the next.  token[w] is the lease epoch of its   *)
(* claim, at[w] the stage it works on, pc[w] what it does next:            *)
(*                                                                         *)
(*   hydrate       read the committed inputs under the lease               *)
(*   renew         renew the lease at the head of a segment                *)
(*   check         read the stage row (_completed_result)                  *)
(*   start         write the stage row 'running'                           *)
(*   reserve, dispatch, call, returned, complete                           *)
(*                 _provider_operation, around one external call           *)
(*   abandon_lost, abandon_raised                                          *)
(*                 its two exception handlers                              *)
(*   audio         local audio work, then the renewal that follows it      *)
(*   finish        the transaction that completes the stage                *)
(*   ready         _settle_ready, for an episode published before          *)
(*   cancel        FenceLost was raised: _settle_cancellation              *)
(*   failing, fail another exception was raised: _settle_failure's         *)
(*                 unprotected SELECT, and its writes                      *)
(*   idle          not running                                             *)
(*                                                                         *)
(* The heartbeat thread only renews, so it keeps the lease current; a lease *)
(* that expires although its holder runs is a stall of both.               *)
(***************************************************************************)
EXTENDS DurableStore, FiniteSets

CONSTANTS
  Workers,      \* worker threads
  MaxEpoch,     \* bound on the number of claims
  MaxCrashes,   \* bound on crashes of a running worker
  MaxStalls,    \* bound on leases that expire under a running worker
  MayRaise      \* whether code other than provider calls may raise

ASSUME PipelineAssumption ==
  /\ MaxEpoch \in Nat /\ MaxCrashes \in Nat /\ MaxStalls \in Nat
  /\ MayRaise \in BOOLEAN

VARIABLES
  pc, at, token,
  calls,            \* history: how often each operation reached its provider
  crashes, stalls   \* faults so far

workerVars == <<pc, at, token>>
faultVars  == <<crashes, stalls>>
vars == <<storeVars, workerVars, calls, faultVars>>

Phases == {"idle", "hydrate", "renew", "check", "start", "reserve", "dispatch",
           "call", "returned", "complete", "abandon_lost", "abandon_raised",
           "audio", "finish", "ready", "cancel", "failing", "fail"}

\* The phases of _provider_operation.
ProviderPhases == {"reserve", "dispatch", "call", "returned", "complete",
                   "abandon_lost", "abandon_raised"}

WorkerTypeOK ==
  /\ pc \in [Workers -> Phases]
  /\ at \in [Workers -> Stages]
  /\ token \in [Workers -> Nat]
  /\ \A w \in Workers : pc[w] \in ProviderPhases => at[w] \in Operations

\* Types, and that a worker is in _provider_operation only for a stage that
\* has a provider.
TypeOK ==
  /\ StoreTypeOK
  /\ WorkerTypeOK
  /\ calls \in [Operations -> Nat]
  /\ crashes \in Nat /\ stalls \in Nat

Init ==
  /\ StoreInit
  /\ pc = [w \in Workers |-> "idle"]
  /\ at = [w \in Workers |-> LeadResearch]
  /\ token = [w \in Workers |-> 0]
  /\ calls = [o \in Operations |-> 0]
  /\ crashes = 0 /\ stalls = 0

-----------------------------------------------------------------------------
(***************************************************************************)
(* The plan: which stage follows which.                                    *)
(***************************************************************************)

\* Mutant: one segment too many.
AfterSegmentOffByOne(s) ==
  IF s <= NumSegments THEN <<s + 1, "research">> ELSE Finalizing

AfterSegment(s) == IF s < NumSegments THEN <<s + 1, "research">> ELSE Finalizing

\* Mutant: speech is made of a draft that was not checked.
FollowUpUnchecked(k) ==
  CASE k = LeadResearch          -> <<1, "research">>
    [] k[2] = "mixing"           -> AfterSegment(k[1])
    [] k[2] = "tts"              -> <<k[1], "mixing">>
    [] k[2] = "text_generation"  -> <<k[1], "tts">>
    [] OTHER                     -> <<k[1], "text_generation">>

FollowUp(k) ==
  CASE k = LeadResearch          -> <<1, "research">>
    [] k[2] = "mixing"           -> AfterSegment(k[1])
    [] k[2] = "tts"              -> <<k[1], "mixing">>
    [] k[2] = "fact_checking"    -> <<k[1], "tts">>
    [] k[2] = "text_generation"  -> <<k[1], "fact_checking">>
    [] OTHER                     -> <<k[1], "text_generation">>

\* A segment begins with a renewal; mixing follows tts without a look at its
\* row; every other stage begins with _completed_result.
EntryPhase(k) ==
  CASE k[2] = "mixing"                          -> "start"
    [] k[2] = "research" /\ k # LeadResearch    -> "renew"
    [] OTHER                                    -> "check"

\* Mutant: it is decided by the tts row.
CheckedStageOwn(k) == k

\* Whether speech has to be synthesised is decided by the mixing row.
CheckedStage(k) == IF k[2] = "tts" THEN <<k[1], "mixing">> ELSE k

-----------------------------------------------------------------------------
(***************************************************************************)
(* Control flow of a worker.                                               *)
(***************************************************************************)

Goto(w, phase) ==
  /\ pc' = [pc EXCEPT ![w] = phase]
  /\ UNCHANGED <<at, token>>

MoveTo(w, k) ==
  /\ pc' = [pc EXCEPT ![w] = EntryPhase(k)]
  /\ at' = [at EXCEPT ![w] = k]
  /\ UNCHANGED token

\* The thread ends and forgets its claim.
Stop(w) ==
  /\ pc' = [pc EXCEPT ![w] = "idle"]
  /\ at' = [at EXCEPT ![w] = LeadResearch]
  /\ token' = [token EXCEPT ![w] = 0]

RaiseFenceLost(w) == Goto(w, "cancel") /\ UNCHANGED storeVars
Raise(w)          == Goto(w, "failing") /\ UNCHANGED storeVars

\* A step of worker w in phase p that neither calls a provider nor is a fault.
In(w, p) == pc[w] = p /\ UNCHANGED <<calls, faultVars>>

-----------------------------------------------------------------------------
(***************************************************************************)
(* _run_pipeline.                                                          *)
(***************************************************************************)

Hydrate(w) ==
  /\ In(w, "hydrate")
  /\ IF LeaseHeld(token[w]) /\ ~expired /\ ~deleted
     THEN Goto(w, "check") /\ UNCHANGED storeVars
     ELSE RaiseFenceLost(w)

Renew(w) ==
  /\ In(w, "renew")
  /\ IF CanRenew(token[w])
     THEN Goto(w, "check") /\ UNCHANGED storeVars
     ELSE RaiseFenceLost(w)

\* Mutant: a stage that an earlier worker left running is run again.
CheckStageAgain(w) ==
  LET k == at[w]
      s == stage[CheckedStage(k)] IN
  /\ In(w, "check")
  /\ \/ s = "absent" /\ Raise(w)
     \/ /\ s = "completed" /\ k = Finalizing
        /\ Goto(w, "ready") /\ UNCHANGED storeVars
     \/ /\ s = "completed" /\ k # Finalizing
        /\ MoveTo(w, IF k[2] = "tts" THEN AfterSegment(k[1]) ELSE FollowUp(k))
        /\ UNCHANGED storeVars
     \/ /\ s \in {"pending", "running", "failed", "cancelled"}
        /\ Goto(w, "start") /\ UNCHANGED storeVars

\* A running row was left by an earlier worker: its outcome is taken to be
\* unknown.  A missing row, too, is an invariant error.
CheckStage(w) ==
  LET k == at[w]
      s == stage[CheckedStage(k)] IN
  /\ In(w, "check")
  /\ \/ s \in {"running", "absent"} /\ Raise(w)
     \/ /\ s = "completed" /\ k = Finalizing
        /\ Goto(w, "ready") /\ UNCHANGED storeVars
     \/ /\ s = "completed" /\ k # Finalizing
        /\ MoveTo(w, IF k[2] = "tts" THEN AfterSegment(k[1]) ELSE FollowUp(k))
        /\ UNCHANGED storeVars
     \/ /\ s \in {"pending", "failed", "cancelled"}
        /\ Goto(w, "start") /\ UNCHANGED storeVars

StartStage(w) ==
  LET k == at[w] IN
  /\ In(w, "start")
  /\ \/ /\ RecordStageTransition(token[w], k, "running")
        /\ Goto(w, IF k \in Operations THEN "reserve" ELSE "audio")
     \/ ~Fence(token[w]) /\ RaiseFenceLost(w)

\* Convert, mix or encode into files of the project; then renew.
LocalAudio(w) ==
  /\ In(w, "audio")
  /\ IF CanRenew(token[w])
     THEN Goto(w, "finish") /\ UNCHANGED storeVars
     ELSE RaiseFenceLost(w)

\* Each stage is completed by its own transaction.
PublishStage(t, k) ==
  \/ k = Finalizing /\ PublishFinal(t)
  \/ k[2] = "mixing" /\ PublishAudio(t, k[1])
  \/ k[2] = "fact_checking" /\ PublishVerifiedText(t, k[1])
  \/ /\ k[2] \in {"research", "text_generation", "tts"}
     /\ RecordStageTransition(t, k, "completed")

FinishStage(w) ==
  LET k == at[w]
      t == token[w] IN
  /\ In(w, "finish")
  /\ IF ~Fence(t) THEN RaiseFenceLost(w)
     ELSE IF k = Finalizing /\ stage[k] # "running" THEN Raise(w)
     ELSE /\ PublishStage(t, k)
          /\ IF k = Finalizing THEN Stop(w) ELSE MoveTo(w, FollowUp(k))

\* The episode was already published: settle without it.  Only a superseded
\* worker comes here (FinalIsComplete), and the fence rejects it.
Ready(w) ==
  /\ In(w, "ready")
  /\ IF Fence(token[w]) THEN SettleReady(token[w]) /\ Stop(w)
     ELSE RaiseFenceLost(w)

-----------------------------------------------------------------------------
(***************************************************************************)
(* _provider_operation.                                                    *)
(***************************************************************************)

Reserve(w) ==
  LET o == at[w] IN
  /\ In(w, "reserve")
  /\ IF ~Fence(token[w]) THEN RaiseFenceLost(w)
     ELSE \/ ReserveAttempt(token[w], o) /\ Goto(w, "dispatch")
          \/ /\ attempt[o] = "reserved"
             /\ Goto(w, "dispatch") /\ UNCHANGED storeVars
          \/ /\ attempt[o] = "completed"
             /\ Goto(w, IF o[2] = "tts" THEN "audio" ELSE "finish")
             /\ UNCHANGED storeVars
          \/ /\ attempt[o] = "dispatched"
             /\ Goto(w, "abandon_raised") /\ UNCHANGED storeVars
          \/ attempt[o] = "failed_unknown" /\ Raise(w)

Dispatch(w) ==
  LET o == at[w] IN
  /\ In(w, "dispatch")
  /\ \/ DispatchAttempt(token[w], o) /\ Goto(w, "call")
     \/ /\ ~(Fence(token[w]) /\ attempt[o] = "reserved")
        /\ RaiseFenceLost(w)

\* Mutant: a call that timed out is made again.
CallProviderAgain(w) ==
  /\ pc[w] = "call"
  /\ calls' = [calls EXCEPT ![at[w]] = @ + 1]
  /\ \E next \in {"returned", "abandon_raised", "call"} : Goto(w, next)
  /\ calls[at[w]] < 2
  /\ UNCHANGED <<storeVars, faultVars>>

\* The request reaches the provider, which answers or makes the call raise.
CallProvider(w) ==
  /\ pc[w] = "call"
  /\ calls' = [calls EXCEPT ![at[w]] = @ + 1]
  /\ \E answer \in {"returned", "abandon_raised"} : Goto(w, answer)
  /\ UNCHANGED <<storeVars, faultVars>>

\* The renewal after the call tells whether the lease was lost meanwhile.
CallReturned(w) ==
  /\ In(w, "returned")
  /\ Goto(w, IF CanRenew(token[w]) THEN "complete" ELSE "abandon_lost")
  /\ UNCHANGED storeVars

AbandonAttempt(w) ==
  /\ pc[w] \in {"abandon_lost", "abandon_raised"}
  /\ IF CanFailUnknown(token[w], at[w])
     THEN FailAttemptUnknown(token[w], at[w])
     ELSE UNCHANGED storeVars
  /\ Goto(w, IF pc[w] = "abandon_lost" THEN "cancel" ELSE "failing")
  /\ UNCHANGED <<calls, faultVars>>

Complete(w) ==
  LET o == at[w] IN
  /\ In(w, "complete")
  /\ \/ /\ CompleteAttempt(token[w], o)
        /\ Goto(w, IF o[2] = "tts" THEN "audio" ELSE "finish")
     \/ /\ ~(Fence(token[w]) /\ attempt[o] = "dispatched")
        /\ RaiseFenceLost(w)

-----------------------------------------------------------------------------
(***************************************************************************)
(* run_project_pipeline's exception handlers.                              *)
(***************************************************************************)

\* Mutant: FenceLost only ends the thread.
CancelUnobserved(w) ==
  /\ In(w, "cancel")
  /\ UNCHANGED storeVars
  /\ Stop(w)

Cancel(w) ==
  /\ In(w, "cancel")
  /\ IF CanSettleCancellation(token[w])
     THEN SettleCancellation(token[w]) ELSE UNCHANGED storeVars
  /\ Stop(w)

\* The SELECT of _settle_failure, before its transaction.
Failing(w) ==
  /\ In(w, "failing")
  /\ IF LeaseHeld(token[w]) THEN Goto(w, "fail") ELSE Stop(w)
  /\ UNCHANGED storeVars

Fail(w) ==
  /\ In(w, "fail")
  /\ SettleFailure(token[w])
  /\ Stop(w)

\* A file, a codec, a parser or the database raises.  Inside the renewed part
\* of a provider operation the handler of that operation comes first.
StepRaises(w) ==
  /\ MayRaise
  /\ pc[w] \in {"hydrate", "renew", "check", "start", "reserve", "dispatch",
                "returned", "complete", "abandon_lost", "abandon_raised",
                "audio", "finish", "ready"}
  /\ Goto(w, IF pc[w] = "returned" THEN "abandon_raised" ELSE "failing")
  /\ UNCHANGED <<storeVars, calls, faultVars>>

-----------------------------------------------------------------------------
(***************************************************************************)
(* The scheduler, the clock, crashes and the client.                       *)
(***************************************************************************)

\* _drain_durable_work claims the work and starts a thread for the claim.
Claim(w) ==
  /\ pc[w] = "idle" /\ epoch < MaxEpoch
  /\ ClaimWork
  /\ pc' = [pc EXCEPT ![w] = "hydrate"]
  /\ token' = [token EXCEPT ![w] = epoch + 1]
  /\ UNCHANGED <<at, calls, faultVars>>

Running(w) == pc[w] # "idle"
HolderRuns == \E w \in Workers : Running(w) /\ token[w] = epoch

\* Nobody renews a lease whose holder is gone.
OrphanedLeaseExpires ==
  /\ ~HolderRuns
  /\ LeaseExpires
  /\ UNCHANGED <<workerVars, calls, faultVars>>

\* The holder, its heartbeat included, was too slow.
LeaseExpiresUnderHolder ==
  /\ HolderRuns /\ stalls < MaxStalls
  /\ LeaseExpires
  /\ stalls' = stalls + 1
  /\ UNCHANGED <<workerVars, calls, crashes>>

Crash(w) ==
  /\ Running(w) /\ crashes < MaxCrashes
  /\ Stop(w)
  /\ crashes' = crashes + 1
  /\ UNCHANGED <<storeVars, calls, stalls>>

ClientCancels ==
  RequestCancellation /\ UNCHANGED <<workerVars, calls, faultVars>>
ClientDeletes ==
  DeleteProject /\ UNCHANGED <<workerVars, calls, faultVars>>

WorkerStep(w) ==
  \/ Hydrate(w) \/ Renew(w) \/ CheckStage(w) \/ StartStage(w)
  \/ Reserve(w) \/ Dispatch(w) \/ CallProvider(w) \/ CallReturned(w)
  \/ AbandonAttempt(w) \/ Complete(w) \/ LocalAudio(w) \/ FinishStage(w)
  \/ Ready(w) \/ Cancel(w) \/ Failing(w) \/ Fail(w)

Next ==
  \/ \E w \in Workers : WorkerStep(w) \/ StepRaises(w) \/ Claim(w) \/ Crash(w)
  \/ OrphanedLeaseExpires \/ LeaseExpiresUnderHolder
  \/ ClientCancels \/ ClientDeletes

Spec == Init /\ [][Next]_vars

\* Threads are scheduled and their calls return, time passes, and the
\* reclaimer keeps polling.  Faults, exceptions and clients owe nothing.
FairSpec ==
  /\ Spec
  /\ \A w \in Workers : WF_vars(WorkerStep(w))
  /\ WF_vars(\E w \in Workers : Claim(w))
  /\ WF_vars(OrphanedLeaseExpires)
-----------------------------------------------------------------------------
(***************************************************************************)
(* Safety.                                                                 *)
(***************************************************************************)

\* No logical operation reaches its provider twice, whatever crashes, stalls
\* and reclaims happen: dispatch is committed before the call and is
\* irreversible (_mark_provider_attempt_dispatched).
ProviderCalledAtMostOnce == \A o \in Operations : calls[o] <= 1

\* Why: the attempt row runs ahead of the call.  While it says that nothing
\* was dispatched nothing was called and nobody is about to call; whoever is
\* about to call is alone and the first.  (Deletion removes the row, but no
\* fence opens after it.)
DispatchPrecedesCall ==
  /\ ProviderCalledAtMostOnce
  /\ \A o \in Operations :
       ~deleted /\ attempt[o] \in {"none", "reserved"} => calls[o] = 0
  /\ \A w \in Workers : pc[w] = "call" =>
       /\ calls[at[w]] = 0
       /\ deleted \/ attempt[at[w]] \notin {"none", "reserved"}
       /\ \A v \in Workers : pc[v] = "call" /\ at[v] = at[w] => v = w

\* The schema invariants of persistence.py, which no table constraint
\* enforces: a segment in tts has validated provenance, a ready segment also
\* has its artifact row - exactly one, although a publication may be repeated
\* by the next worker.
PublishedSegmentsAreBacked ==
  \A s \in Segments :
    /\ segStatus[s] \in {"tts", "ready"} => s \in validated
    /\ segStatus[s] = "ready" <=> artifacts[s] = 1
    /\ artifacts[s] <= 1

\* The episode is downloadable only with every segment ready and one final
\* artifact, although _publish_final_artifact reads no segment row: it holds
\* because every worker walks all the stages before it.  And its stage row is
\* completed only together with the work, so the idempotent recovery of
\* _settle_ready has nothing left to do.
FinalIsComplete ==
  /\ finalReady = 1 =>
       /\ \A s \in Segments : segStatus[s] = "ready"
       /\ artifacts[Project] = 1
       /\ outcome = "ready"
  /\ stage[Finalizing] = "completed" => pipeState = "succeeded"

\* A segment's drafting reads the text of the segment before it
\* (previous_text): no provider is asked anything for a segment before the
\* one ahead of it is published.
SegmentsInOrder ==
  \A s \in Segments \ {1} :
    (\E o \in Operations : o[1] = s /\ attempt[o] # "none")
      => segStatus[s - 1] = "ready"

\* The work row and the generation row end together, succeeded as ready and
\* cancelled as cancelled, and part in two ways only.  An exception after a
\* request to cancel fails the work of a generation that stays open; and a
\* superseded worker's exception fails the generation under the lease of its
\* successor, which takes a stall and a second claim.
WorkAndGenerationAgree ==
  /\ pipeState = "succeeded" <=> (outcome = "ready" /\ ~deleted)
  /\ pipeState = "cancelled" <=> (outcome = "cancelled" /\ ~deleted)
  /\ pipeState = "failed" =>
       \/ outcome = "failed"
       \/ outcome = "none" /\ disposition = "cancellation_requested"
  /\ outcome = "failed" /\ ~deleted =>
       \/ pipeState = "failed"
       \/ pipeState = "leased" /\ stalls > 0 /\ epoch > 1

\* The fence: a step of a worker whose claim has been superseded leaves every
\* stage, attempt, segment and artifact row alone.
Acts(w) == pc'[w] # pc[w] \/ at'[w] # at[w]
StaleWorkerPublishesNothing ==
  [][\A w \in Workers :
       Running(w) /\ Acts(w) /\ token[w] # epoch => UNCHANGED resultRows]_vars

\* From the moment a cancellation is requested nothing begins and nothing is
\* published: no attempt is reserved, dispatched or completed, no stage is started
\* or completed, and neither a verified text nor a segment's audio nor the episode
\* comes out - not even from a provider call that was under way.
NothingStartsAfterCancellation ==
  [][disposition # "active" =>
       /\ \A o \in Operations :
            attempt'[o] \in {"reserved", "dispatched", "completed"}
              => attempt'[o] = attempt[o]
       /\ \A k \in Stages :
            stage'[k] \in {"running", "completed"} => stage'[k] = stage[k]
       /\ validated' \subseteq validated
       /\ \A s \in Segments :
            segStatus'[s] \in {"tts", "ready"} => segStatus'[s] = segStatus[s]
       /\ \A s \in Scopes : artifacts'[s] <= artifacts[s]
       /\ finalReady' <= finalReady]_vars

\* A client that polls by progress_version misses nothing: whatever step
\* changes a stage row or the disposition moves the version by exactly one -
\* the deletion of a generation that has ended excepted, whose rows are gone.
ProgressIsVersioned ==
  [][(stage' # stage \/ disposition' # disposition) /\ disposition # "terminal"
       => version' = version + 1]_vars

\* The generation as its client sees it.
LifecyclePhase ==
  IF deleted THEN "deleted"
  ELSE IF disposition = "terminal" THEN outcome ELSE disposition
Lifecycle == INSTANCE GenerationLifecycle
             WITH phase <- LifecyclePhase,
                  delivered <- {s \in Segments : segStatus[s] = "ready"},
                  final <- (finalReady = 1)

\* The workers, the scheduler and the faults together implement the promise
\* made to the client.
ImplementsLifecycle == Lifecycle!Spec

-----------------------------------------------------------------------------
(***************************************************************************)
(* Liveness.                                                               *)
(***************************************************************************)

\* Work that is pending or leased is settled (or deleted): a crash between any
\* two steps is recovered by the reclaimer.
WorkIsSettled ==
  (pipeState \in {"pending", "leased"}) ~> (pipeState \notin {"pending", "leased"})

\* A requested cancellation ends the generation, at whatever step of the worker
\* it arrives and however the provider call under way comes back, unless a
\* crash comes between (CancellationCanBeObserved says what goes wrong then).
CancellationEnds ==
  (disposition = "cancellation_requested" /\ crashes = 0)
    ~> (disposition = "terminal" \/ crashes > 0)

-----------------------------------------------------------------------------
(***************************************************************************)
(* What the code's comments and checks say, and its runs refute.           *)
(***************************************************************************)

\* "Observe and atomically terminalize a requested cancellation": while a
\* cancellation is unobserved there is a work row that can still observe it.
CancellationCanBeObserved ==
  disposition = "cancellation_requested" => pipeState \in {"pending", "leased"}

\* "Every externally visible write is guarded by the project-pipeline
\* owner/epoch fence": a superseded worker does not end the generation either.
StaleWorkerEndsNothing ==
  [][\A w \in Workers :
       Running(w) /\ Acts(w) /\ token[w] # epoch
         => UNCHANGED <<genRow, projRow>>]_vars
=============================================================================
