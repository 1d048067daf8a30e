----------------------- MODULE SegmentPipelineProofs -----------------------
(***************************************************************************)
(* Theorems about SegmentPipeline for every number of segments, workers,   *)
(* claims and faults: its types and the fence of the lease; the order of   *)
(* the stages; the audio work between two transactions, which no fence     *)
(* guards (every publication is made by one worker at most); and what the  *)
(* client sees of it, GenerationLifecycle.                                 *)
(***************************************************************************)
EXTENDS SegmentPipeline, TLAPS

-----------------------------------------------------------------------------
(***************************************************************************)
(* The plan.                                                               *)
(***************************************************************************)

\* The plan leads from stage to stage: operations are stages, what follows a
\* segment or a stage is a stage again, and a stage that is not one of the two
\* of the project belongs to a segment.
LEMMA PlanType ==
  /\ LeadResearch \in Stages /\ Finalizing \in Stages
  /\ Operations \subseteq Stages
  /\ \A s \in Segments : AfterSegment(s) \in Stages
  /\ \A k \in Stages \ {Finalizing} : FollowUp(k) \in Stages
  /\ \A k \in Stages \ {LeadResearch, Finalizing} : k[1] \in Segments
  BY NumSegmentsAssumption
  DEF Stages, Operations, LeadResearch, Finalizing, AfterSegment, FollowUp,
      Segments, Project

\* A stage is entered at its check, its start or, for a segment's research,
\* the renewal.
LEMMA EntryPhaseType ==
  ASSUME NEW k \in Stages
  PROVE  /\ EntryPhase(k) \in {"start", "renew", "check"}
         /\ EntryPhase(k) = "renew" => k[2] = "research" /\ k # LeadResearch
  BY DEF EntryPhase

-----------------------------------------------------------------------------
(***************************************************************************)
(* Types.                                                                  *)
(***************************************************************************)

\* The stages that publication completes are stages.
LEMMA StagesOfSegments ==
  ASSUME NEW s \in Segments
  PROVE  /\ <<s, "fact_checking">> \in Stages
         /\ <<s, "mixing">> \in Stages
  BY DEF Stages

\* Every transaction keeps the types of the rows.
LEMMA TransactionTypes ==
  ASSUME StoreTypeOK, NEW t \in Nat, NEW o \in Operations,
         \/ ClaimWork \/ LeaseExpires
         \/ ReserveAttempt(t, o) \/ DispatchAttempt(t, o)
         \/ CompleteAttempt(t, o) \/ FailAttemptUnknown(t, o)
         \/ SettleCancellation(t) \/ SettleFailure(t)
         \/ SettleReady(t) \/ RequestCancellation \/ DeleteProject
  PROVE  StoreTypeOK'
<1> USE DEF StoreTypeOK, workRow, genRow, resultRows, projRow, PipeStates,
            Dispositions, Outcomes, StageStates, AttemptStates, SegStatuses,
            ProjStatuses
<1>0. /\ SettledStatus \in ProjStatuses
      /\ Finalizing \in Stages /\ Project \in Scopes
  BY DEF SettledStatus, Stages, Scopes
<1>1. CASE ClaimWork
  BY <1>1 DEF ClaimWork
<1>2. CASE LeaseExpires
  BY <1>2 DEF LeaseExpires
<1>3. CASE ReserveAttempt(t, o) \/ DispatchAttempt(t, o) \/ CompleteAttempt(t, o)
  BY <1>3 DEF ReserveAttempt, DispatchAttempt, CompleteAttempt, WriteAttempt
<1>4. ASSUME ObserveCancellation, attempt' \in [Operations -> AttemptStates]
      PROVE  StoreTypeOK'
  BY <1>0, <1>4 DEF ObserveCancellation, Terminate
<1>5. CASE FailAttemptUnknown(t, o)
  <2>1. attempt' \in [Operations -> AttemptStates]
    BY <1>5 DEF FailAttemptUnknown
  <2>2. CASE ObserveCancellation
    BY <1>4, <2>1, <2>2
  <2>3. CASE ~ObserveCancellation
    BY <1>0, <1>5, <2>1, <2>3 DEF FailAttemptUnknown, Terminate
  <2> QED BY <2>2, <2>3
<1>6. CASE SettleCancellation(t)
  BY <1>4, <1>6 DEF SettleCancellation
<1>7. CASE SettleFailure(t)
  BY <1>0, <1>7 DEF SettleFailure, Terminate
<1>8. CASE SettleReady(t)
  BY <1>0, <1>8 DEF SettleReady, Terminate
<1>9. CASE RequestCancellation
  BY <1>9 DEF RequestCancellation
<1>10. CASE DeleteProject
  BY <1>10 DEF DeleteProject, Terminate
<1> QED
  BY <1>1, <1>2, <1>3, <1>5, <1>6, <1>7, <1>8, <1>9, <1>10

\* So does every transaction that completes or starts a stage.
LEMMA StageWriteTypes ==
  ASSUME StoreTypeOK, NEW t \in Nat, NEW k \in Stages,
         RecordStageTransition(t, k, "running") \/ PublishStage(t, k)
  PROVE  StoreTypeOK'
<1> USE DEF StoreTypeOK, workRow, genRow, resultRows, projRow, PipeStates,
            Dispositions, Outcomes, StageStates, SegStatuses, ProjStatuses
<1>1. /\ Segments \subseteq Scopes /\ Project \in Scopes
      /\ Finalizing \in Stages
      /\ Finalizing[2] = "finalizing" /\ LeadResearch[2] = "research"
  BY PlanType DEF Scopes, LeadResearch, Finalizing
<1>2. ASSUME NEW s \in StageStates, RecordStageTransition(t, k, s)
      PROVE  StoreTypeOK'
  BY <1>2 DEF RecordStageTransition, WriteStage
<1>3. ASSUME NEW s \in Segments, PublishVerifiedText(t, s)
      PROVE  StoreTypeOK'
  <2>1. <<s, "fact_checking">> \in Stages
    BY StagesOfSegments
  <2> DEFINE f == <<s, "fact_checking">>
  <2>2. stage' = [stage EXCEPT ![f] = "completed"] /\ version' = version + 1
    BY <1>3 DEF PublishVerifiedText, WriteStage
  <2> HIDE DEF f
  <2>3. stage' \in [Stages -> StageStates] /\ version' \in Nat
    BY <2>1, <2>2 DEF f
  <2> QED BY <1>3, <2>3 DEF PublishVerifiedText, WriteStage
<1>4. ASSUME NEW s \in Segments, PublishAudio(t, s)
      PROVE  StoreTypeOK'
  <2>1. <<s, "mixing">> \in Stages
    BY StagesOfSegments
  <2> DEFINE m == <<s, "mixing">>
  <2>2. stage' = [stage EXCEPT ![m] = "completed"] /\ version' = version + 1
    BY <1>4 DEF PublishAudio, WriteStage
  <2> HIDE DEF m
  <2>3. stage' \in [Stages -> StageStates] /\ version' \in Nat
    BY <2>1, <2>2 DEF m
  <2> QED BY <1>1, <1>4, <2>3 DEF PublishAudio, WriteStage
<1>5. ASSUME PublishFinal(t)
      PROVE  StoreTypeOK'
  BY <1>1, <1>5 DEF PublishFinal, Terminate
<1>6. CASE RecordStageTransition(t, k, "running")
  BY <1>2, <1>6
<1>7. CASE PublishStage(t, k)
  <2>1. k[2] \in {"mixing", "fact_checking"} => k[1] \in Segments
    BY <1>1, PlanType
  <2> QED BY <1>2, <1>3, <1>4, <1>5, <1>7, <2>1 DEF PublishStage
<1> QED
  BY <1>6, <1>7

\* A worker that changes its phase, its stage or both.
LEMMA ControlTypes ==
  ASSUME WorkerTypeOK, NEW w \in Workers,
         \/ \E p \in Phases :
              Goto(w, p) /\ (p \in ProviderPhases => at[w] \in Operations)
         \/ \E k \in Stages : MoveTo(w, k)
         \/ Stop(w)
         \/ UNCHANGED workerVars
  PROVE  WorkerTypeOK'
<1>1. CASE UNCHANGED workerVars
  BY <1>1 DEF WorkerTypeOK, workerVars
<1>2. ASSUME NEW p \in Phases, Goto(w, p),
             p \in ProviderPhases => at[w] \in Operations
      PROVE  WorkerTypeOK'
  BY <1>2 DEF WorkerTypeOK, Goto
<1>3. ASSUME NEW k \in Stages, NEW p \in Phases \ ProviderPhases, NEW t \in Nat,
             pc' = [pc EXCEPT ![w] = p], at' = [at EXCEPT ![w] = k],
             token' = [token EXCEPT ![w] = t]
      PROVE  WorkerTypeOK'
  BY <1>3 DEF WorkerTypeOK
<1>4. ASSUME NEW k \in Stages, MoveTo(w, k)
      PROVE  WorkerTypeOK'
  <2>1. EntryPhase(k) \in Phases \ ProviderPhases
    BY EntryPhaseType DEF Phases, ProviderPhases
  <2>2. token[w] \in Nat /\ token' = [token EXCEPT ![w] = token[w]]
    BY <1>4 DEF MoveTo, WorkerTypeOK
  <2> QED BY <1>3, <1>4, <2>1, <2>2 DEF MoveTo
<1>5. CASE Stop(w)
  BY <1>3, <1>5, PlanType DEF Stop, Phases, ProviderPhases
<1> QED BY <1>1, <1>2, <1>4, <1>5

\* What every step of a worker starts from.
LEMMA WorkerContext ==
  ASSUME TypeOK, NEW w \in Workers
  PROVE  /\ pc[w] \in Phases /\ at[w] \in Stages /\ token[w] \in Nat
         /\ pc[w] \in ProviderPhases => at[w] \in Operations
  BY DEF TypeOK, WorkerTypeOK

\* Each kind of step, every action being of one kind.
LEMMA StepTypes ==
  ASSUME TypeOK, WorkerTypeOK', StoreTypeOK' \/ UNCHANGED storeVars,
         calls' \in [Operations -> Nat], crashes' \in Nat, stalls' \in Nat
  PROVE  TypeOK'
<1>1. UNCHANGED storeVars => StoreTypeOK'
  BY DEF TypeOK, StoreTypeOK, storeVars, workRow, genRow, resultRows, projRow
<1> QED BY <1>1 DEF TypeOK

\* The steps of _run_pipeline.
LEMMA RunPipelineTypes ==
  ASSUME TypeOK, NEW w \in Workers,
         \/ Hydrate(w) \/ Renew(w) \/ CheckStage(w) \/ StartStage(w)
         \/ LocalAudio(w) \/ FinishStage(w) \/ Ready(w)
  PROVE  TypeOK'
<1> DEFINE k == at[w]
           t == token[w]
           Moves == \/ \E p \in Phases :
                        Goto(w, p) /\ (p \in ProviderPhases => at[w] \in Operations)
                    \/ \E j \in Stages : MoveTo(w, j)
                    \/ Stop(w)
<1>0. /\ k \in Stages /\ t \in Nat
      /\ {"check", "start", "ready", "cancel", "failing", "finish", "audio"}
           \subseteq Phases \ ProviderPhases
      /\ "reserve" \in Phases
  BY WorkerContext DEF Phases, ProviderPhases
<1>1. UNCHANGED <<calls, faultVars>>
  BY DEF Hydrate, Renew, CheckStage, StartStage, LocalAudio, FinishStage,
         Ready, In
<1>2. RaiseFenceLost(w) \/ Raise(w) => Moves /\ UNCHANGED storeVars
  BY <1>0 DEF RaiseFenceLost, Raise
<1>3. Moves /\ (StoreTypeOK' \/ UNCHANGED storeVars)
  <2>1. CASE Hydrate(w)
    BY <1>0, <1>2, <2>1 DEF Hydrate
  <2>2. CASE Renew(w)
    BY <1>0, <1>2, <2>2 DEF Renew
  <2>3. CASE CheckStage(w)
    <3>1. k # Finalizing => FollowUp(k) \in Stages
      BY <1>0, PlanType
    <3>2. k # Finalizing /\ k[2] = "tts" => AfterSegment(k[1]) \in Stages
      BY <1>0, PlanType DEF LeadResearch
    <3> QED BY <1>0, <1>2, <2>3, <3>1, <3>2 DEF CheckStage
  <2>4. CASE StartStage(w)
    <3>1. CASE RecordStageTransition(t, k, "running")
                 /\ Goto(w, IF k \in Operations THEN "reserve" ELSE "audio")
      <4>1. StoreTypeOK'
        BY <1>0, <3>1, StageWriteTypes DEF TypeOK
      <4>2. Moves
        BY <1>0, <3>1
      <4> QED BY <4>1, <4>2
    <3> QED BY <1>2, <2>4, <3>1 DEF StartStage
  <2>5. CASE LocalAudio(w)
    BY <1>0, <1>2, <2>5 DEF LocalAudio
  <2>6. CASE FinishStage(w)
    <3>1. CASE PublishStage(t, k)
                 /\ IF k = Finalizing THEN Stop(w) ELSE MoveTo(w, FollowUp(k))
      <4>1. StoreTypeOK'
        BY <1>0, <3>1, StageWriteTypes DEF TypeOK
      <4>2. Moves
        BY <1>0, <3>1, PlanType
      <4> QED BY <4>1, <4>2
    <3> QED BY <1>2, <2>6, <3>1 DEF FinishStage
  <2>7. CASE Ready(w)
    <3>1. SettleReady(t) => StoreTypeOK'
      BY <1>0, PlanType, TransactionTypes DEF TypeOK, Operations
    <3> QED BY <1>2, <2>7, <3>1 DEF Ready
  <2> QED BY <2>1, <2>2, <2>3, <2>4, <2>5, <2>6, <2>7
<1>4. WorkerTypeOK'
  BY <1>3, ControlTypes DEF TypeOK
<1> QED BY <1>1, <1>3, <1>4, StepTypes DEF TypeOK, faultVars

\* The steps of _provider_operation.
LEMMA ProviderOperationTypes ==
  ASSUME TypeOK, NEW w \in Workers,
         \/ Reserve(w) \/ Dispatch(w) \/ CallProvider(w) \/ CallReturned(w)
         \/ AbandonAttempt(w) \/ Complete(w)
  PROVE  TypeOK'
<1> DEFINE o == at[w]
           t == token[w]
           Moves == \E p \in Phases :
                      Goto(w, p) /\ (p \in ProviderPhases => at[w] \in Operations)
<1>0. /\ o \in Operations /\ t \in Nat
      /\ {"cancel", "failing", "finish", "audio"} \subseteq Phases
      /\ ProviderPhases \subseteq Phases
  BY WorkerContext DEF Phases, ProviderPhases, Reserve, Dispatch, CallProvider,
       CallReturned, AbandonAttempt, Complete, In
<1>1. UNCHANGED faultVars
  BY DEF Reserve, Dispatch, CallProvider, CallReturned, AbandonAttempt,
         Complete, In
<1>2. calls' \in [Operations -> Nat]
  BY <1>0 DEF Reserve, Dispatch, CallProvider, CallReturned, AbandonAttempt,
         Complete, In, TypeOK
<1>3. /\ \A p \in {"cancel", "failing", "finish", "audio"} : Goto(w, p) => Moves
      /\ \A p \in ProviderPhases : Goto(w, p) => Moves
      /\ RaiseFenceLost(w) \/ Raise(w) => Moves /\ UNCHANGED storeVars
  BY <1>0 DEF RaiseFenceLost, Raise
<1>4. ReserveAttempt(t, o) \/ DispatchAttempt(t, o) \/ CompleteAttempt(t, o)
        \/ FailAttemptUnknown(t, o) => StoreTypeOK'
  BY <1>0, TransactionTypes DEF TypeOK
<1> HIDE DEF Moves
<1>5. Moves /\ (StoreTypeOK' \/ UNCHANGED storeVars)
  <2>1. CASE Reserve(w)
    BY <1>3, <1>4, <2>1 DEF Reserve, ProviderPhases
  <2>2. CASE Dispatch(w)
    BY <1>3, <1>4, <2>2 DEF Dispatch, ProviderPhases
  <2>3. CASE CallProvider(w)
    BY <1>3, <2>3 DEF CallProvider, ProviderPhases
  <2>4. CASE CallReturned(w)
    BY <1>3, <2>4 DEF CallReturned, ProviderPhases
  <2>5. CASE AbandonAttempt(w)
    BY <1>3, <1>4, <2>5 DEF AbandonAttempt
  <2>6. CASE Complete(w)
    BY <1>3, <1>4, <2>6 DEF Complete
  <2> QED BY <2>1, <2>2, <2>3, <2>4, <2>5, <2>6
<1>6. WorkerTypeOK'
  BY <1>5, ControlTypes DEF TypeOK, Moves
<1> QED BY <1>1, <1>2, <1>5, <1>6, StepTypes DEF TypeOK, faultVars

\* The exception handlers, the scheduler, the faults and the client.
LEMMA OtherTypes ==
  ASSUME TypeOK,
         \/ \E w \in Workers : \/ Cancel(w) \/ Failing(w) \/ Fail(w)
                               \/ StepRaises(w) \/ Claim(w) \/ Crash(w)
         \/ OrphanedLeaseExpires \/ LeaseExpiresUnderHolder
         \/ ClientCancels \/ ClientDeletes
  PROVE  TypeOK'
<1>0. {"fail", "failing", "abandon_raised"} \subseteq Phases /\ "hydrate" \in Phases
  BY DEF Phases
<1>1. calls' \in [Operations -> Nat] /\ crashes' \in Nat /\ stalls' \in Nat
  BY DEF Cancel, Failing, Fail, StepRaises, Claim, Crash, OrphanedLeaseExpires,
         LeaseExpiresUnderHolder, ClientCancels, ClientDeletes, In, TypeOK,
         faultVars
<1>2. \E o \in Operations : TRUE
  BY DEF Operations
<1>3. (StoreTypeOK' \/ UNCHANGED storeVars) /\ WorkerTypeOK'
  <2>1. CASE \E w \in Workers : Cancel(w)
    <3> PICK w \in Workers : Cancel(w) BY <2>1
    <3>1. StoreTypeOK' \/ UNCHANGED storeVars
      BY <1>2, WorkerContext, TransactionTypes DEF Cancel, TypeOK
    <3> QED BY <3>1, ControlTypes DEF Cancel, TypeOK
  <2>2. CASE \E w \in Workers : Failing(w)
    BY <1>0, <2>2, ControlTypes DEF Failing, TypeOK, ProviderPhases
  <2>3. CASE \E w \in Workers : Fail(w)
    <3> PICK w \in Workers : Fail(w) BY <2>3
    <3>1. StoreTypeOK'
      BY <1>2, WorkerContext, TransactionTypes DEF Fail, TypeOK
    <3> QED BY <3>1, ControlTypes DEF Fail, TypeOK
  <2>4. CASE \E w \in Workers : StepRaises(w)
    <3> PICK w \in Workers : StepRaises(w) BY <2>4
    <3>1. CASE pc[w] = "returned"
      BY <1>0, <3>1, WorkerContext, ControlTypes DEF StepRaises, TypeOK, ProviderPhases
    <3>2. CASE pc[w] # "returned"
      BY <1>0, <3>2, ControlTypes DEF StepRaises, TypeOK, ProviderPhases
    <3> QED BY <3>1, <3>2
  <2>5. CASE \E w \in Workers : Claim(w)
    <3>1. StoreTypeOK'
      BY <1>2, <2>5, TransactionTypes DEF Claim, TypeOK
    <3> QED BY <1>0, <2>5, <3>1 DEF Claim, TypeOK, WorkerTypeOK, StoreTypeOK, ProviderPhases
  <2>6. CASE \E w \in Workers : Crash(w)
    BY <2>6, ControlTypes DEF Crash, TypeOK
  <2>7. CASE \/ OrphanedLeaseExpires \/ LeaseExpiresUnderHolder
             \/ ClientCancels \/ ClientDeletes
    <3>1. StoreTypeOK'
      BY <1>2, <2>7, TransactionTypes DEF TypeOK, OrphanedLeaseExpires,
           LeaseExpiresUnderHolder, ClientCancels, ClientDeletes
    <3>2. UNCHANGED workerVars
      BY <2>7 DEF OrphanedLeaseExpires, LeaseExpiresUnderHolder, ClientCancels,
           ClientDeletes
    <3> QED BY <3>1, <3>2 DEF workerVars, TypeOK, WorkerTypeOK
  <2> QED BY <2>1, <2>2, <2>3, <2>4, <2>5, <2>6, <2>7
<1> QED BY <1>1, <1>3, StepTypes

\* The rows and the workers only ever hold values of their types, and a worker
\* is inside _provider_operation only for a stage that has a provider.
THEOREM TypeCorrect == Spec => []TypeOK
<1>1. Init => TypeOK
  BY PlanType DEF Init, StoreInit, TypeOK, StoreTypeOK, WorkerTypeOK, PipeStates,
       Dispositions, Outcomes, StageStates, AttemptStates, SegStatuses,
       ProjStatuses, Phases, ProviderPhases
<1>2. TypeOK /\ [Next]_vars => TypeOK'
  <2> SUFFICES ASSUME TypeOK, [Next]_vars PROVE TypeOK'
    OBVIOUS
  <2>1. CASE UNCHANGED vars
    BY <2>1, StepTypes DEF vars, workerVars, faultVars, TypeOK, WorkerTypeOK
  <2>2. CASE Next
    BY <2>2, RunPipelineTypes, ProviderOperationTypes, OtherTypes
    DEF Next, WorkerStep
  <2> QED BY <2>1, <2>2
<1> QED BY <1>1, <1>2, PTL DEF Spec

-----------------------------------------------------------------------------
(***************************************************************************)
(* At most one call per logical operation.                                 *)
(***************************************************************************)

\* Once a row has left 'reserved' it does not come back, except by deletion.
Undispatched == {"none", "reserved"}
AttemptsAdvance ==
  \/ deleted'
  \/ /\ ~deleted
     /\ \A o \in Operations :
          attempt'[o] \in Undispatched => attempt[o] \in Undispatched

\* Every transaction lets the attempts advance.
LEMMA TransactionsAdvance ==
  ASSUME TypeOK, NEW t \in Nat, NEW o \in Operations, NEW k \in Stages,
         \/ UNCHANGED storeVars
         \/ ClaimWork \/ LeaseExpires
         \/ ReserveAttempt(t, o) \/ DispatchAttempt(t, o)
         \/ CompleteAttempt(t, o) \/ FailAttemptUnknown(t, o)
         \/ SettleCancellation(t) \/ SettleFailure(t)
         \/ SettleReady(t) \/ RequestCancellation \/ DeleteProject
         \/ RecordStageTransition(t, k, "running") \/ PublishStage(t, k)
  PROVE  AttemptsAdvance
<1> USE DEF AttemptsAdvance, Undispatched, deleted
<1>1. CASE UNCHANGED <<attempt, retention>>
  BY <1>1
<1>2. CASE ReserveAttempt(t, o) \/ DispatchAttempt(t, o) \/ CompleteAttempt(t, o)
  BY <1>2 DEF ReserveAttempt, DispatchAttempt, CompleteAttempt, WriteAttempt,
       projRow, Fence, TypeOK, StoreTypeOK
<1>3. CASE FailAttemptUnknown(t, o)
  BY <1>3 DEF FailAttemptUnknown, ObserveCancellation, CanFailUnknown, TypeOK,
       StoreTypeOK
<1>4. CASE DeleteProject
  BY <1>4 DEF DeleteProject
<1>5. CASE \/ UNCHANGED storeVars
           \/ ClaimWork \/ LeaseExpires \/ SettleCancellation(t)
           \/ SettleFailure(t) \/ SettleReady(t) \/ RequestCancellation
           \/ RecordStageTransition(t, k, "running") \/ PublishStage(t, k)
  BY <1>1, <1>5 DEF storeVars, resultRows, projRow, ClaimWork, LeaseExpires,
       SettleCancellation, ObserveCancellation, SettleFailure, SettleReady,
       RequestCancellation, RecordStageTransition, PublishStage, PublishFinal,
       PublishAudio, PublishVerifiedText
<1> QED BY <1>2, <1>3, <1>4, <1>5

\* A step that calls nobody and leads nobody to a call keeps the invariant.
LEMMA QuietSteps ==
  ASSUME TypeOK, DispatchPrecedesCall, AttemptsAdvance, UNCHANGED calls,
         \A w \in Workers : pc'[w] = "call" => pc[w] = "call" /\ at'[w] = at[w]
  PROVE  DispatchPrecedesCall'
<1>1. ProviderCalledAtMostOnce'
  BY DEF DispatchPrecedesCall, ProviderCalledAtMostOnce
<1>2. \A o \in Operations :
        ~deleted' /\ attempt'[o] \in {"none", "reserved"} => calls'[o] = 0
  BY DEF DispatchPrecedesCall, AttemptsAdvance, Undispatched
<1>3. ASSUME NEW w \in Workers, pc'[w] = "call"
      PROVE  /\ calls'[at'[w]] = 0
             /\ deleted' \/ attempt'[at'[w]] \notin {"none", "reserved"}
             /\ \A v \in Workers : pc'[v] = "call" /\ at'[v] = at'[w] => v = w
  <2>1. at[w] \in Operations
    BY <1>3, WorkerContext DEF ProviderPhases
  <2> QED BY <1>3, <2>1 DEF DispatchPrecedesCall, AttemptsAdvance, Undispatched
<1> QED BY <1>1, <1>2, <1>3 DEF DispatchPrecedesCall

\* Whoever commits the dispatch is alone, and nothing was called before.
LEMMA DispatchKeeps ==
  ASSUME TypeOK, DispatchPrecedesCall, NEW w \in Workers, Dispatch(w)
  PROVE  DispatchPrecedesCall'
<1> DEFINE o == at[w]
<1>0. o \in Operations /\ token[w] \in Nat
  BY WorkerContext DEF Dispatch, In, ProviderPhases
<1>1. CASE RaiseFenceLost(w)
  <2>1. AttemptsAdvance
    BY <1>0, <1>1, TransactionsAdvance, PlanType DEF RaiseFenceLost
  <2> QED BY <1>1, <2>1, QuietSteps DEF RaiseFenceLost, Goto, Dispatch, In,
            TypeOK, WorkerTypeOK
<1>2. CASE DispatchAttempt(token[w], o) /\ Goto(w, "call")
  <2>1. /\ ~deleted /\ ~deleted'
        /\ attempt[o] = "reserved"
        /\ attempt' = [attempt EXCEPT ![o] = "dispatched"]
        /\ pc' = [pc EXCEPT ![w] = "call"] /\ at' = at /\ calls' = calls
    BY <1>2 DEF DispatchAttempt, WriteAttempt, Fence, Goto, Dispatch, In,
         deleted, projRow
  <2>2. calls[o] = 0 /\ \A v \in Workers : ~(pc[v] = "call" /\ at[v] = o)
    BY <1>0, <2>1 DEF DispatchPrecedesCall
  <2> QED BY <1>0, <2>1, <2>2 DEF DispatchPrecedesCall,
            ProviderCalledAtMostOnce, TypeOK, StoreTypeOK, WorkerTypeOK
<1> QED BY <1>1, <1>2 DEF Dispatch

\* The one call.
LEMMA CallKeeps ==
  ASSUME TypeOK, DispatchPrecedesCall, NEW w \in Workers, CallProvider(w)
  PROVE  DispatchPrecedesCall'
<1>1. at[w] \in Operations /\ calls[at[w]] = 0
  BY WorkerContext DEF CallProvider, ProviderPhases, DispatchPrecedesCall
<1>2. /\ UNCHANGED <<attempt, retention, at>>
      /\ calls' = [calls EXCEPT ![at[w]] = @ + 1]
      /\ \E p \in {"returned", "abandon_raised"} : pc' = [pc EXCEPT ![w] = p]
  BY DEF CallProvider, Goto, storeVars, resultRows, projRow
<1>3. deleted \/ attempt[at[w]] \notin {"none", "reserved"}
  BY DEF DispatchPrecedesCall, CallProvider
<1>4. calls'[at[w]] = 1 /\ \A o \in Operations \ {at[w]} : calls'[o] = calls[o]
  BY <1>1, <1>2 DEF TypeOK
<1>5. \A v \in Workers : pc'[v] = "call" => pc[v] = "call" /\ v # w /\ at[v] # at[w]
  BY <1>2 DEF DispatchPrecedesCall, CallProvider, TypeOK, WorkerTypeOK
<1>6. \A v \in Workers : pc[v] = "call" => at[v] \in Operations
  BY WorkerContext DEF ProviderPhases
<1> QED BY <1>1, <1>2, <1>3, <1>4, <1>5, <1>6
  DEF DispatchPrecedesCall, ProviderCalledAtMostOnce, deleted, TypeOK

\* Every other step is quiet.
LEMMA ControlIsQuiet ==
  ASSUME WorkerTypeOK, NEW w \in Workers,
         \/ \E p \in Phases \ {"call"} : Goto(w, p)
         \/ \E k \in Stages : MoveTo(w, k)
         \/ Stop(w)
         \/ UNCHANGED workerVars
  PROVE  \A v \in Workers : pc'[v] = "call" => pc[v] = "call" /\ at'[v] = at[v]
<1>1. CASE \E p \in Phases \ {"call"} : Goto(w, p)
  BY <1>1 DEF Goto, WorkerTypeOK
<1>2. ASSUME NEW k \in Stages, MoveTo(w, k)
      PROVE  \A v \in Workers : pc'[v] = "call" => pc[v] = "call" /\ at'[v] = at[v]
  BY <1>2, EntryPhaseType DEF MoveTo, WorkerTypeOK
<1>3. CASE Stop(w) \/ UNCHANGED workerVars
  BY <1>3 DEF Stop, workerVars, WorkerTypeOK
<1> QED BY <1>1, <1>2, <1>3

\* The steps of _run_pipeline call nobody and lead nobody to a call.
LEMMA RunPipelineIsQuiet ==
  ASSUME TypeOK, DispatchPrecedesCall, NEW w \in Workers,
         \/ Hydrate(w) \/ Renew(w) \/ CheckStage(w) \/ StartStage(w)
         \/ LocalAudio(w) \/ FinishStage(w) \/ Ready(w)
  PROVE  DispatchPrecedesCall'
<1> DEFINE k == at[w]
           t == token[w]
<1>0. /\ k \in Stages /\ t \in Nat
      /\ {"check", "start", "ready", "cancel", "failing", "finish", "audio",
          "reserve"} \subseteq Phases \ {"call"}
  BY WorkerContext DEF Phases
<1>1. UNCHANGED calls
  BY DEF Hydrate, Renew, CheckStage, StartStage, LocalAudio, FinishStage,
         Ready, In
<1>2. \/ UNCHANGED storeVars \/ SettleReady(t)
      \/ RecordStageTransition(t, k, "running") \/ PublishStage(t, k)
  BY DEF Hydrate, Renew, CheckStage, StartStage, LocalAudio, FinishStage,
         Ready, RaiseFenceLost, Raise
<1>3. AttemptsAdvance
  BY <1>0, <1>2, TransactionsAdvance DEF Operations
<1> DEFINE Moves == \/ \E p \in Phases \ {"call"} : Goto(w, p)
                    \/ \E j \in Stages : MoveTo(w, j)
                    \/ Stop(w)
<1>4. RaiseFenceLost(w) \/ Raise(w) => Moves
  BY <1>0 DEF RaiseFenceLost, Raise
<1>5. Moves
  <2>1. CASE Hydrate(w)
    BY <1>0, <1>4, <2>1 DEF Hydrate
  <2>2. CASE Renew(w)
    BY <1>0, <1>4, <2>2 DEF Renew
  <2>3. CASE CheckStage(w)
    <3>1. k # Finalizing => FollowUp(k) \in Stages
      BY <1>0, PlanType
    <3>2. k # Finalizing /\ k[2] = "tts" => AfterSegment(k[1]) \in Stages
      BY <1>0, PlanType DEF LeadResearch
    <3> QED BY <1>0, <1>4, <2>3, <3>1, <3>2 DEF CheckStage
  <2>4. CASE StartStage(w)
    BY <1>0, <1>4, <2>4 DEF StartStage
  <2>5. CASE LocalAudio(w)
    BY <1>0, <1>4, <2>5 DEF LocalAudio
  <2>6. CASE FinishStage(w)
    BY <1>0, <1>4, <2>6, PlanType DEF FinishStage
  <2>7. CASE Ready(w)
    BY <1>4, <2>7 DEF Ready
  <2> QED BY <2>1, <2>2, <2>3, <2>4, <2>5, <2>6, <2>7
<1> QED BY <1>1, <1>3, <1>5, ControlIsQuiet, QuietSteps DEF TypeOK

\* Nor do those of _provider_operation, the dispatch and the call excepted.
LEMMA ProviderOperationIsQuiet ==
  ASSUME TypeOK, DispatchPrecedesCall, NEW w \in Workers,
         \/ Reserve(w) \/ CallReturned(w) \/ AbandonAttempt(w) \/ Complete(w)
  PROVE  DispatchPrecedesCall'
<1> DEFINE o == at[w]
           t == token[w]
<1>0. /\ o \in Operations /\ o \in Stages /\ t \in Nat
      /\ {"dispatch", "complete", "abandon_lost", "abandon_raised", "audio",
          "finish", "cancel", "failing"} \subseteq Phases \ {"call"}
  BY WorkerContext DEF Phases, ProviderPhases, Reserve, CallReturned,
       AbandonAttempt, Complete, In
<1>1. UNCHANGED calls
  BY DEF Reserve, CallReturned, AbandonAttempt, Complete, In
<1>2. \/ UNCHANGED storeVars \/ ReserveAttempt(t, o) \/ CompleteAttempt(t, o)
      \/ FailAttemptUnknown(t, o)
  BY DEF Reserve, CallReturned, AbandonAttempt, Complete, RaiseFenceLost, Raise
<1>3. AttemptsAdvance
  BY <1>0, <1>2, TransactionsAdvance
<1>4. \E p \in Phases \ {"call"} : Goto(w, p)
  BY <1>0 DEF Reserve, CallReturned, AbandonAttempt, Complete, RaiseFenceLost,
       Raise
<1> QED BY <1>1, <1>3, <1>4, ControlIsQuiet, QuietSteps DEF TypeOK

\* Nor do the handlers, the scheduler, the clock, the faults and the client.
LEMMA OthersAreQuiet ==
  ASSUME TypeOK, DispatchPrecedesCall,
         \/ \E w \in Workers : \/ Cancel(w) \/ Failing(w) \/ Fail(w)
                               \/ StepRaises(w) \/ Claim(w) \/ Crash(w)
         \/ OrphanedLeaseExpires \/ LeaseExpiresUnderHolder
         \/ ClientCancels \/ ClientDeletes
         \/ UNCHANGED vars
  PROVE  DispatchPrecedesCall'
<1>1. UNCHANGED calls
  BY DEF Cancel, Failing, Fail, StepRaises, Claim, Crash, OrphanedLeaseExpires,
         LeaseExpiresUnderHolder, ClientCancels, ClientDeletes, In, vars
<1>2. LeadResearch \in Operations /\ LeadResearch \in Stages
  BY PlanType DEF Operations
<1>3. AttemptsAdvance
  <2>1. \/ UNCHANGED storeVars \/ ClaimWork \/ LeaseExpires
        \/ RequestCancellation \/ DeleteProject
        \/ \E w \in Workers : SettleCancellation(token[w]) \/ SettleFailure(token[w])
    BY DEF Cancel, Failing, Fail, StepRaises, Claim, Crash, vars,
           OrphanedLeaseExpires, LeaseExpiresUnderHolder, ClientCancels,
           ClientDeletes
  <2>2. \A w \in Workers : token[w] \in Nat
    BY WorkerContext
  <2> QED BY <1>2, <2>1, <2>2, TransactionsAdvance
<1>4. \A v \in Workers : pc'[v] = "call" => pc[v] = "call" /\ at'[v] = at[v]
  <2>1. {"fail", "failing", "abandon_raised"} \subseteq Phases \ {"call"}
    BY DEF Phases
  <2>2. CASE \E w \in Workers : Claim(w)
    BY <2>2 DEF Claim, TypeOK, WorkerTypeOK
  <2>3. CASE \E w \in Workers : \/ Cancel(w) \/ Failing(w) \/ Fail(w)
                               \/ StepRaises(w) \/ Crash(w)
    <3>1. PICK w \in Workers : \/ Stop(w) \/ Goto(w, "fail")
                              \/ Goto(w, "failing") \/ Goto(w, "abandon_raised")
      BY <2>3 DEF Cancel, Failing, Fail, StepRaises, Crash
    <3> QED BY <2>1, <3>1, ControlIsQuiet DEF TypeOK
  <2>4. CASE UNCHANGED workerVars
    BY <2>4 DEF workerVars
  <2> QED BY <2>2, <2>3, <2>4 DEF OrphanedLeaseExpires, vars,
            LeaseExpiresUnderHolder, ClientCancels, ClientDeletes
<1> QED BY <1>1, <1>3, <1>4, QuietSteps

\* The attempt row runs ahead of the call, whatever crashes, stalls, claims
\* and requests of the client come in between.
THEOREM DispatchIsCommittedFirst == Spec => []DispatchPrecedesCall
<1>1. Init => DispatchPrecedesCall
  BY PlanType DEF Init, StoreInit, DispatchPrecedesCall, ProviderCalledAtMostOnce
<1>2. TypeOK /\ DispatchPrecedesCall /\ [Next]_vars => DispatchPrecedesCall'
  <2> SUFFICES ASSUME TypeOK, DispatchPrecedesCall, [Next]_vars
               PROVE  DispatchPrecedesCall'
    OBVIOUS
  <2> QED BY RunPipelineIsQuiet, ProviderOperationIsQuiet, DispatchKeeps,
             CallKeeps, OthersAreQuiet DEF Next, WorkerStep
<1> QED BY <1>1, <1>2, TypeCorrect, PTL DEF Spec

\* No logical operation reaches its provider twice.
THEOREM AtMostOneCall == Spec => []ProviderCalledAtMostOnce
<1>1. DispatchPrecedesCall => ProviderCalledAtMostOnce
  BY DEF DispatchPrecedesCall
<1> QED BY <1>1, DispatchIsCommittedFirst, PTL

-----------------------------------------------------------------------------
(***************************************************************************)
(* What a single step may never do.                                        *)
(***************************************************************************)

\* The transactions a worker with token t can be in, at operation o or stage k.
WorkerTransaction(t, o, k) ==
  \/ ReserveAttempt(t, o) \/ DispatchAttempt(t, o)
  \/ CompleteAttempt(t, o) \/ FailAttemptUnknown(t, o)
  \/ RecordStageTransition(t, k, "running") \/ PublishStage(t, k)
  \/ SettleCancellation(t) \/ SettleFailure(t) \/ SettleReady(t)

\* A step of a worker is one of its transactions or leaves the rows alone, and
\* it leaves the other workers alone.
LEMMA WorkerSteps ==
  ASSUME TypeOK, NEW w \in Workers, WorkerStep(w) \/ StepRaises(w) \/ Crash(w)
  PROVE  /\ \/ UNCHANGED storeVars
            \/ \E o \in Operations, k \in Stages :
                  WorkerTransaction(token[w], o, k)
         /\ \A v \in Workers \ {w} : pc'[v] = pc[v] /\ at'[v] = at[v]
<1>0. /\ at[w] \in Stages
      /\ pc[w] \in ProviderPhases => at[w] \in Operations
      /\ LeadResearch \in Operations /\ LeadResearch \in Stages
  BY WorkerContext, PlanType DEF Operations
<1>1. CASE \/ Hydrate(w) \/ Renew(w) \/ CheckStage(w) \/ LocalAudio(w)
           \/ CallProvider(w) \/ CallReturned(w) \/ Failing(w)
           \/ StepRaises(w) \/ Crash(w)
  <2>1. UNCHANGED storeVars
    BY <1>1 DEF Hydrate, Renew, CheckStage, LocalAudio, CallProvider,
         CallReturned, Failing, StepRaises, Crash, RaiseFenceLost, Raise
  <2>2. (\E p : Goto(w, p)) \/ (\E k : MoveTo(w, k)) \/ Stop(w)
    BY <1>1 DEF Hydrate, Renew, CheckStage, LocalAudio, CallProvider,
         CallReturned, Failing, StepRaises, Crash, RaiseFenceLost, Raise
  <2> QED BY <2>1, <2>2 DEF Goto, MoveTo, Stop, TypeOK, WorkerTypeOK
<1>2. CASE StartStage(w) \/ FinishStage(w) \/ Ready(w)
  <2>1. \/ UNCHANGED storeVars
        \/ RecordStageTransition(token[w], at[w], "running")
        \/ PublishStage(token[w], at[w]) \/ SettleReady(token[w])
    BY <1>2 DEF StartStage, FinishStage, Ready, RaiseFenceLost, Raise
  <2>2. (\E p : Goto(w, p)) \/ (\E k : MoveTo(w, k)) \/ Stop(w)
    BY <1>2 DEF StartStage, FinishStage, Ready, RaiseFenceLost, Raise
  <2>3. \A v \in Workers \ {w} : pc'[v] = pc[v] /\ at'[v] = at[v]
    BY <2>2 DEF Goto, MoveTo, Stop, TypeOK, WorkerTypeOK
  <2> QED BY <1>0, <2>1, <2>3 DEF WorkerTransaction
<1>3. CASE Reserve(w) \/ Dispatch(w) \/ AbandonAttempt(w) \/ Complete(w)
  <2>1. at[w] \in Operations
    BY <1>0, <1>3 DEF Reserve, Dispatch, AbandonAttempt, Complete, In,
         ProviderPhases
  <2>2. \/ UNCHANGED storeVars
        \/ ReserveAttempt(token[w], at[w]) \/ DispatchAttempt(token[w], at[w])
        \/ CompleteAttempt(token[w], at[w]) \/ FailAttemptUnknown(token[w], at[w])
    BY <1>3 DEF Reserve, Dispatch, AbandonAttempt, Complete, RaiseFenceLost, Raise
  <2>3. \E p : Goto(w, p)
    BY <1>3 DEF Reserve, Dispatch, AbandonAttempt, Complete, RaiseFenceLost, Raise
  <2>4. \A v \in Workers \ {w} : pc'[v] = pc[v] /\ at'[v] = at[v]
    BY <2>3 DEF Goto, TypeOK, WorkerTypeOK
  <2> QED BY <1>0, <2>1, <2>2, <2>4 DEF WorkerTransaction
<1>4. CASE Cancel(w) \/ Fail(w)
  <2>1. \/ UNCHANGED storeVars \/ SettleCancellation(token[w])
        \/ SettleFailure(token[w])
    BY <1>4 DEF Cancel, Fail
  <2>2. Stop(w)
    BY <1>4 DEF Cancel, Fail
  <2>3. \A v \in Workers \ {w} : pc'[v] = pc[v] /\ at'[v] = at[v]
    BY <2>2 DEF Stop, TypeOK, WorkerTypeOK
  <2> QED BY <1>0, <2>1, <2>3 DEF WorkerTransaction
<1> QED BY <1>1, <1>2, <1>3, <1>4 DEF WorkerStep

\* Only the holder of the lease touches the results.
LEMMA WritersHoldTheLease ==
  ASSUME NEW t, NEW o, NEW k, WorkerTransaction(t, o, k)
  PROVE  LeaseHeld(t) \/ UNCHANGED resultRows
<1> USE DEF Fence, CanRenew
<1>1. CASE ReserveAttempt(t, o) \/ DispatchAttempt(t, o) \/ CompleteAttempt(t, o)
  BY <1>1 DEF ReserveAttempt, DispatchAttempt, CompleteAttempt
<1>2. CASE FailAttemptUnknown(t, o) \/ SettleCancellation(t)
  BY <1>2 DEF FailAttemptUnknown, CanFailUnknown, SettleCancellation,
       CanSettleCancellation
<1>3. CASE RecordStageTransition(t, k, "running") \/ SettleReady(t)
  BY <1>3 DEF RecordStageTransition, SettleReady
<1>4. CASE PublishStage(t, k)
  BY <1>4 DEF PublishStage, PublishFinal, PublishAudio, PublishVerifiedText,
       RecordStageTransition
<1>5. CASE SettleFailure(t)
  BY <1>5 DEF SettleFailure
<1> QED BY <1>1, <1>2, <1>3, <1>4, <1>5 DEF WorkerTransaction

\* The fence holds for every number of workers, claims and stalls.
THEOREM StaleWorkersAreFenced == Spec => StaleWorkerPublishesNothing
<1>1. TypeOK /\ [Next]_vars =>
        [\A w \in Workers :
           Running(w) /\ Acts(w) /\ token[w] # epoch => UNCHANGED resultRows]_vars
  <2> SUFFICES ASSUME TypeOK, [Next]_vars, NEW w \in Workers, Running(w),
                      Acts(w), token[w] # epoch
               PROVE  UNCHANGED resultRows
    OBVIOUS
  <2>1. \E v \in Workers : \/ WorkerStep(v) \/ StepRaises(v) \/ Crash(v)
                          \/ Claim(v)
    BY DEF Next, Acts, OrphanedLeaseExpires, LeaseExpiresUnderHolder,
           ClientCancels, ClientDeletes, workerVars, vars
  <2>2. CASE \E v \in Workers : Claim(v)
    BY <2>2 DEF Claim, ClaimWork
  <2>3. CASE \E v \in Workers : WorkerStep(v) \/ StepRaises(v) \/ Crash(v)
    <3>1. WorkerStep(w) \/ StepRaises(w) \/ Crash(w)
      BY <2>3, WorkerSteps DEF Acts
    <3>2. CASE UNCHANGED storeVars
      BY <3>2 DEF storeVars
    <3>3. CASE \E o \in Operations, k \in Stages :
                 WorkerTransaction(token[w], o, k)
      BY <3>3, WritersHoldTheLease DEF LeaseHeld
    <3> QED BY <3>1, <3>2, <3>3, WorkerSteps
  <2> QED BY <2>1, <2>2, <2>3
<1> QED BY <1>1, TypeCorrect, PTL DEF Spec, StaleWorkerPublishesNothing

\* Every step is a transaction or leaves the rows alone.
LEMMA StepsAreTransactions ==
  ASSUME TypeOK, [Next]_vars
  PROVE  \/ UNCHANGED storeVars
         \/ ClaimWork \/ LeaseExpires \/ RequestCancellation \/ DeleteProject
         \/ \E t \in Nat, o \in Operations, k \in Stages :
               WorkerTransaction(t, o, k)
<1>1. CASE \E w \in Workers : WorkerStep(w) \/ StepRaises(w) \/ Crash(w)
  BY <1>1, WorkerSteps, WorkerContext
<1>2. CASE \/ \E w \in Workers : Claim(w)
           \/ OrphanedLeaseExpires \/ LeaseExpiresUnderHolder
           \/ ClientCancels \/ ClientDeletes \/ UNCHANGED vars
  BY <1>2 DEF Claim, OrphanedLeaseExpires, LeaseExpiresUnderHolder,
       ClientCancels, ClientDeletes, vars
<1> QED BY <1>1, <1>2 DEF Next

\* Nothing begins and nothing is published in a step.
NothingStarts ==
  /\ \A o \in Operations :
       attempt'[o] \in {"reserved", "dispatched", "completed"} => attempt'[o] = attempt[o]
  /\ \A k \in Stages :
       stage'[k] \in {"running", "completed"} => stage'[k] = stage[k]
  /\ validated' \subseteq validated
  /\ \A s \in Segments :
       segStatus'[s] \in {"tts", "ready"} => segStatus'[s] = segStatus[s]
  /\ \A s \in Scopes : artifacts'[s] <= artifacts[s]
  /\ finalReady' <= finalReady

\* Every transaction that begins or publishes something asks for an active
\* generation; those that end one only fail and cancel.
LEMMA StartsNeedAnActiveGeneration ==
  ASSUME TypeOK, disposition # "active", NEW t \in Nat, NEW o \in Operations,
         NEW k \in Stages, WorkerTransaction(t, o, k)
  PROVE  NothingStarts
<1> USE DEF Fence, CanRenew
<1>0. /\ \A s \in Scopes : artifacts[s] \in Nat
      /\ finalReady \in {0, 1}
  BY DEF TypeOK, StoreTypeOK
<1>1. CASE ReserveAttempt(t, o) \/ DispatchAttempt(t, o) \/ CompleteAttempt(t, o)
  BY <1>1 DEF ReserveAttempt, DispatchAttempt, CompleteAttempt
<1>2. CASE FailAttemptUnknown(t, o)
  <2>1. /\ UNCHANGED <<validated, artifacts, finalReady>>
        /\ attempt' = [attempt EXCEPT ![o] = "failed_unknown"]
        /\ stage' = [q \in Stages |->
                       IF stage[q] \in {"completed", "failed", "cancelled"}
                       THEN stage[q] ELSE "cancelled"]
        /\ segStatus' = [s \in Segments |->
                           IF segStatus[s] = "ready" THEN "ready" ELSE "failed"]
    BY <1>2 DEF FailAttemptUnknown, ObserveCancellation
  <2> QED BY <1>0, <2>1 DEF TypeOK, StoreTypeOK, NothingStarts
<1>3. CASE SettleCancellation(t)
  <2>1. /\ UNCHANGED <<attempt, validated, artifacts, finalReady>>
        /\ stage' = [q \in Stages |->
                       IF stage[q] \in {"completed", "failed", "cancelled"}
                       THEN stage[q] ELSE "cancelled"]
        /\ segStatus' = [s \in Segments |->
                           IF segStatus[s] = "ready" THEN "ready" ELSE "failed"]
    BY <1>3 DEF SettleCancellation, ObserveCancellation
  <2> QED BY <1>0, <2>1 DEF NothingStarts
<1>4. CASE RecordStageTransition(t, k, "running") \/ SettleReady(t)
  BY <1>4 DEF RecordStageTransition, SettleReady
<1>5. CASE PublishStage(t, k)
  BY <1>5 DEF PublishStage, PublishFinal, PublishAudio, PublishVerifiedText,
       RecordStageTransition
<1>6. CASE SettleFailure(t)
  BY <1>0, <1>6 DEF SettleFailure, resultRows, NothingStarts
<1> QED BY <1>1, <1>2, <1>3, <1>4, <1>5, <1>6 DEF WorkerTransaction

\* After a cancellation request nothing begins, and neither a verified text nor
\* a segment's audio nor the episode is published, by anyone.
THEOREM CancellationStopsStarts == Spec => NothingStartsAfterCancellation
<1>1. TypeOK /\ [Next]_vars => [disposition # "active" => NothingStarts]_vars
  <2> SUFFICES ASSUME TypeOK, [Next]_vars, disposition # "active"
               PROVE  NothingStarts
    OBVIOUS
  <2>0. /\ \A s \in Scopes : artifacts[s] \in Nat
        /\ finalReady \in {0, 1}
    BY DEF TypeOK, StoreTypeOK
  <2>1. CASE UNCHANGED <<resultRows, finalReady>>
    BY <2>0, <2>1 DEF resultRows, NothingStarts
  <2>2. CASE DeleteProject
    <3>1. /\ finalReady' = 0 /\ validated' = {}
          /\ \A k \in Stages : stage'[k] = "absent"
          /\ \A o \in Operations : attempt'[o] = "none"
          /\ \A s \in Segments : segStatus'[s] = "absent"
          /\ \A s \in Scopes : artifacts'[s] = 0
      BY <2>2 DEF DeleteProject
    <3> QED BY <2>0, <3>1 DEF NothingStarts
  <2>3. CASE \E t \in Nat, o \in Operations, k \in Stages :
               WorkerTransaction(t, o, k)
    BY <2>3, StartsNeedAnActiveGeneration
  <2>4. CASE UNCHANGED storeVars \/ ClaimWork \/ LeaseExpires \/ RequestCancellation
    BY <2>1, <2>4 DEF storeVars, resultRows, projRow, ClaimWork, LeaseExpires,
         RequestCancellation
  <2> QED BY <2>2, <2>3, <2>4, StepsAreTransactions
<1> QED BY <1>1, TypeCorrect, PTL DEF Spec, NothingStartsAfterCancellation, NothingStarts

\* A worker's transaction that changes a stage or the disposition says so.
LEMMA WritesAreVersioned ==
  ASSUME NEW t, NEW o, NEW k, WorkerTransaction(t, o, k),
         stage' # stage \/ disposition' # disposition
  PROVE  version' = version + 1
<1>1. CASE ReserveAttempt(t, o) \/ DispatchAttempt(t, o) \/ CompleteAttempt(t, o)
  BY <1>1 DEF ReserveAttempt, DispatchAttempt, CompleteAttempt, WriteAttempt,
       genRow
<1>2. CASE FailAttemptUnknown(t, o) \/ SettleCancellation(t)
  BY <1>2 DEF FailAttemptUnknown, SettleCancellation, ObserveCancellation, Terminate
<1>3. CASE RecordStageTransition(t, k, "running") \/ SettleReady(t)
  BY <1>3 DEF RecordStageTransition, SettleReady, WriteStage, Terminate
<1>4. CASE PublishStage(t, k)
  BY <1>4 DEF PublishStage, PublishFinal, PublishAudio, PublishVerifiedText,
       RecordStageTransition, WriteStage, Terminate
<1>5. CASE SettleFailure(t)
  BY <1>5 DEF SettleFailure, Terminate, genRow, resultRows
<1> QED BY <1>1, <1>2, <1>3, <1>4, <1>5 DEF WorkerTransaction

\* Whoever polls by version sees every change of a generation that runs.
THEOREM ChangesAreVersioned == Spec => ProgressIsVersioned
<1>1. TypeOK /\ [Next]_vars =>
        [(stage' # stage \/ disposition' # disposition) /\ disposition # "terminal"
           => version' = version + 1]_vars
  <2> SUFFICES ASSUME TypeOK, [Next]_vars, disposition # "terminal",
                      stage' # stage \/ disposition' # disposition
               PROVE  version' = version + 1
    OBVIOUS
  <2>1. CASE DeleteProject
    BY <2>1 DEF DeleteProject, Terminate
  <2>2. CASE RequestCancellation
    BY <2>2 DEF RequestCancellation
  <2>3. CASE UNCHANGED storeVars \/ ClaimWork \/ LeaseExpires
    BY <2>3 DEF storeVars, resultRows, genRow, ClaimWork, LeaseExpires
  <2>4. CASE \E t \in Nat, o \in Operations, k \in Stages :
               WorkerTransaction(t, o, k)
    BY <2>4, WritesAreVersioned
  <2> QED BY <2>1, <2>2, <2>3, <2>4, StepsAreTransactions
<1> QED BY <1>1, TypeCorrect, PTL DEF Spec, ProgressIsVersioned

-----------------------------------------------------------------------------
(***************************************************************************)
(* The order of the stages: what the rows of a generation say of each      *)
(* other.  No transaction checks any of it: _publish_audio looks at no     *)
(* provenance, _publish_final_artifact at no segment.  It holds because at *)
(* most one running worker has the current epoch, and what that worker has *)
(* walked past is in the rows.                                             *)
(***************************************************************************)
Mixing(s) == <<s, "mixing">>
Check(s)  == <<s, "fact_checking">>

Done(k)  == stage[k] = "completed"
Ahead(n) == \A r \in Segments : r < n => Done(Mixing(r))

\* The phases of a worker that is at a stage it has not found completed.
Busy == {"start", "reserve", "dispatch", "call", "returned", "complete",
         "abandon_lost", "abandon_raised", "audio", "finish"}

\* The rows of one segment follow its two publications.
SegmentRows(s) ==
  /\ Done(Mixing(s)) => Done(Check(s))
  /\ s \in validated <=> Done(Check(s))
  /\ segStatus[s] = "ready" <=> Done(Mixing(s))
  /\ segStatus[s] = "tts" => Done(Check(s))
  /\ artifacts[s] = IF Done(Mixing(s)) THEN 1 ELSE 0

FinalRows ==
  /\ Done(Finalizing) => pipeState = "succeeded"
  /\ Done(Finalizing) => \A r \in Segments : Done(Mixing(r))
  /\ artifacts[Project] = IF Done(Finalizing) THEN 1 ELSE 0
  /\ finalReady = 1 => Done(Finalizing) /\ outcome = "ready"

\* Nothing is asked or published for a segment before its turn.
RowsInOrder ==
  /\ \A o \in Operations : attempt[o] # "none" => Ahead(o[1])
  /\ \A s \in Segments : Done(Mixing(s)) => Ahead(s)

KeptRows == (\A s \in Segments : SegmentRows(s)) /\ FinalRows /\ RowsInOrder

DeletedRows ==
  /\ finalReady = 0 /\ validated = {}
  /\ \A k \in Stages : stage[k] = "absent"
  /\ \A s \in Segments : segStatus[s] = "absent"
  /\ \A s \in Scopes : artifacts[s] = 0
  /\ \A o \in Operations : attempt[o] = "none"

RowsInv == IF deleted THEN DeletedRows ELSE KeptRows

\* A work row that has succeeded or is cancelled; what else the two rows say of
\* each other depends on the faults (Partings).
SettledTogether ==
  /\ pipeState = "succeeded" <=> (outcome = "ready" /\ ~deleted)
  /\ pipeState = "cancelled" <=> (outcome = "cancelled" /\ ~deleted)
  /\ pipeState = "failed" => outcome \in {"failed", "none"}

\* The work row and the generation row.
EndRows ==
  /\ outcome = "none" <=> disposition # "terminal"
  /\ outcome = "deleted" => deleted
  /\ deleted <=> pipeState = "absent"
  /\ SettledTogether

\* At most one running worker has the current epoch.
OneHolder ==
  /\ \A w \in Workers : Running(w) => token[w] <= epoch
  /\ \A v, w \in Workers :
       Running(v) /\ Running(w) /\ token[v] = token[w] => v = w
  /\ \A w \in Workers : ~Running(w) => at[w] = LeadResearch
  /\ \A w \in Workers : pc[w] = "hydrate" => at[w] = LeadResearch

\* What the worker with the current epoch has walked past.
WalkedTo(w) ==
  /\ at[w] # Finalizing => Ahead(at[w][1])
  /\ at[w] = Finalizing => \A r \in Segments : Done(Mixing(r))
  /\ at[w][2] \in {"tts", "mixing"} => Done(Check(at[w][1]))
  /\ pc[w] \in Busy => ~Done(CheckedStage(at[w]))
  /\ pc[w] = "ready" => Done(Finalizing)

HolderInv(w) ==
  ~deleted /\ token[w] = epoch /\ pc[w] \notin {"idle", "cancel", "failing"} =>
    /\ pipeState = "leased"
    /\ pc[w] # "fail" => WalkedTo(w)

OrderInv ==
  /\ RowsInv /\ EndRows /\ OneHolder
  /\ \A w \in Workers : HolderInv(w)

-----------------------------------------------------------------------------

\* The stages of publication are told apart by their segment and their name.
LEMMA Names ==
  /\ \A s \in Segments : Mixing(s) \in Stages /\ Check(s) \in Stages
  /\ \A s, r \in Segments : /\ Mixing(s) = Mixing(r) <=> s = r
                            /\ Check(s) = Check(r) <=> s = r
                            /\ Mixing(s) # Check(r)
  /\ \A s \in Segments : Mixing(s) # Finalizing /\ Check(s) # Finalizing
  /\ \A s \in Segments : Mixing(s) \notin Operations
  /\ Finalizing \notin Operations
  BY DEF Mixing, Check, Stages, Operations, Finalizing, LeadResearch, Segments, Project

\* Three properties follow from the invariant.
LEMMA OrderInvImplies ==
  ASSUME TypeOK, OrderInv
  PROVE  /\ PublishedSegmentsAreBacked /\ SegmentsInOrder
         /\ FinalIsComplete
<1>1. CASE deleted
  <2>1. DeletedRows /\ EndRows /\ Segments \subseteq Scopes
    BY <1>1 DEF OrderInv, RowsInv, Scopes
  <2>2. PublishedSegmentsAreBacked
    BY <2>1 DEF DeletedRows, PublishedSegmentsAreBacked
  <2>3. SegmentsInOrder
    BY <2>1 DEF DeletedRows, SegmentsInOrder
  <2>4. FinalIsComplete
    BY <2>1, PlanType DEF DeletedRows, FinalIsComplete
  <2> QED BY <2>1, <2>2, <2>3, <2>4 DEF EndRows
<1>2. CASE ~deleted
  <2>1. KeptRows /\ EndRows
    BY <1>2 DEF OrderInv, RowsInv
  <2>2. PublishedSegmentsAreBacked
    BY <2>1 DEF KeptRows, SegmentRows, PublishedSegmentsAreBacked
  <2>3. SegmentsInOrder
    <3> SUFFICES ASSUME NEW s \in Segments \ {1}, NEW o \in Operations, o[1] = s,
                        attempt[o] # "none"
                 PROVE  segStatus[s - 1] = "ready"
      BY DEF SegmentsInOrder
    <3>1. Ahead(s)
      BY <2>1 DEF KeptRows, RowsInOrder
    <3>2. s - 1 \in Segments /\ s - 1 < s
      BY NumSegmentsAssumption DEF Segments
    <3> QED BY <2>1, <3>1, <3>2 DEF Ahead, KeptRows, SegmentRows
  <2>4. FinalIsComplete
    BY <2>1 DEF KeptRows, SegmentRows, FinalRows, FinalIsComplete, Done
  <2> QED BY <2>1, <2>2, <2>3, <2>4 DEF EndRows
<1> QED BY <1>1, <1>2

LEMMA OrderInit == Init => OrderInv
<1> SUFFICES ASSUME Init PROVE OrderInv
  OBVIOUS
<1>1. /\ \A k \in Stages : stage[k] = "pending"
      /\ \A s \in Segments : segStatus[s] = "queued" /\ artifacts[s] = 0
      /\ artifacts[Project] = 0 /\ validated = {} /\ finalReady = 0
      /\ \A o \in Operations : attempt[o] = "none"
      /\ ~deleted /\ outcome = "none" /\ disposition = "active" /\ pipeState = "pending"
  BY DEF Init, StoreInit, deleted, Scopes
<1>2. RowsInv
  BY <1>1, Names, PlanType DEF RowsInv, KeptRows, SegmentRows, FinalRows, RowsInOrder, Done
<1>3. EndRows
  BY <1>1 DEF EndRows, SettledTogether, deleted
<1>4. \A w \in Workers : pc[w] = "idle" /\ at[w] = LeadResearch
  BY DEF Init
<1> QED BY <1>2, <1>3, <1>4 DEF OrderInv, OneHolder, HolderInv, Running

-----------------------------------------------------------------------------
(***************************************************************************)
(* What each transaction does to the rows.                                 *)
(***************************************************************************)

\* Whether the stages the rows follow are completed, before and after a step.
SameDone ==
  /\ \A s \in Segments : /\ Done(Mixing(s))' <=> Done(Mixing(s))
                         /\ Done(Check(s))' <=> Done(Check(s))
  /\ Done(Finalizing)' <=> Done(Finalizing)

\* The rows stay in step if those stages and the rows themselves do.
LEMMA RowsFollow ==
  ASSUME KeptRows, SameDone,
         UNCHANGED <<segStatus, validated, artifacts, finalReady>>,
         pipeState' = pipeState \/ ~Done(Finalizing),
         outcome' = outcome \/ finalReady = 0,
         finalReady \in {0, 1},
         \A o \in Operations : attempt'[o] # "none" => attempt[o] # "none" \/ Ahead(o[1])
  PROVE  KeptRows'
<1>1. \A n : Ahead(n)' <=> Ahead(n)
  BY DEF Ahead, SameDone
<1>2. \A s \in Segments : SegmentRows(s)'
  BY DEF KeptRows, SegmentRows, SameDone
<1>3. FinalRows'
  BY DEF KeptRows, FinalRows, SameDone
<1>4. RowsInOrder'
  BY <1>1 DEF KeptRows, RowsInOrder, SameDone
<1> QED BY <1>2, <1>3, <1>4 DEF KeptRows

\* A stage that is started was not completed; tts may be, and no row follows it.
LEMMA StartKeepsDone ==
  ASSUME TypeOK, NEW t, NEW k \in Stages, ~Done(CheckedStage(k)),
         RecordStageTransition(t, k, "running")
  PROVE  SameDone /\ ~Done(CheckedStage(k))'
<1>1. stage' = [stage EXCEPT ![k] = "running"]
  BY DEF RecordStageTransition, WriteStage
<1>2. \A j \in Stages : k # j \/ ~Done(j) => (Done(j)' <=> Done(j))
  BY <1>1 DEF Done, TypeOK, StoreTypeOK
<1>3. /\ \A s \in Segments : /\ k = Mixing(s) => ~Done(k)
                             /\ k = Check(s) => ~Done(k)
      /\ k = Finalizing => ~Done(k)
  BY DEF CheckedStage, Mixing, Check, Finalizing
<1>4. SameDone
  BY <1>2, <1>3, Names, PlanType DEF SameDone
<1>5. CheckedStage(k) \in Stages
  <2>1. k[2] = "tts" => k[1] \in Segments
    BY PlanType DEF LeadResearch, Finalizing
  <2> QED BY <2>1, StagesOfSegments DEF CheckedStage
<1> QED BY <1>2, <1>4, <1>5

LEMMA StartKeepsRows ==
  ASSUME TypeOK, OrderInv, NEW t, NEW k \in Stages, ~Done(CheckedStage(k)),
         RecordStageTransition(t, k, "running")
  PROVE  RowsInv' /\ EndRows'
<1>1. ~deleted /\ KeptRows /\ finalReady \in {0, 1}
  BY DEF RecordStageTransition, Fence, OrderInv, RowsInv, TypeOK, StoreTypeOK
<1>2. UNCHANGED <<workRow, disposition, outcome, attempt, segStatus, validated,
                  artifacts, projRow>>
  BY DEF RecordStageTransition, WriteStage
<1>3. KeptRows'
  BY <1>1, <1>2, StartKeepsDone, RowsFollow DEF workRow, projRow
<1>4. UNCHANGED <<disposition, outcome, pipeState, retention>>
  BY <1>2 DEF workRow, projRow
<1> QED BY <1>1, <1>3, <1>4 DEF RowsInv, EndRows, OrderInv, SettledTogether, deleted

\* Research, drafting and speech are completed without any row that follows.
LEMMA CompleteKeepsRows ==
  ASSUME TypeOK, OrderInv, NEW t, NEW k \in Stages,
         k[2] \in {"research", "text_generation", "tts"},
         RecordStageTransition(t, k, "completed")
  PROVE  RowsInv' /\ EndRows'
<1>1. ~deleted /\ KeptRows /\ finalReady \in {0, 1}
  BY DEF RecordStageTransition, Fence, OrderInv, RowsInv, TypeOK, StoreTypeOK
<1>2. /\ stage' = [stage EXCEPT ![k] = "completed"]
      /\ UNCHANGED <<workRow, disposition, outcome, attempt, segStatus, validated,
                     artifacts, projRow>>
  BY DEF RecordStageTransition, WriteStage
<1>3. \A j \in Stages : k # j => (Done(j)' <=> Done(j))
  BY <1>2 DEF Done, TypeOK, StoreTypeOK
<1>4. (\A s \in Segments : k # Mixing(s) /\ k # Check(s)) /\ k # Finalizing
  BY DEF Mixing, Check, Finalizing
<1>5. SameDone
  BY <1>3, <1>4, Names, PlanType DEF SameDone
<1>6. KeptRows'
  BY <1>1, <1>2, <1>5, RowsFollow DEF workRow, projRow
<1>7. UNCHANGED <<disposition, outcome, pipeState, retention>>
  BY <1>2 DEF workRow, projRow
<1> QED BY <1>1, <1>6, <1>7 DEF RowsInv, EndRows, OrderInv, SettledTogether, deleted

\* An attempt is written only for an operation whose predecessors are done.
LEMMA AttemptKeepsRows ==
  ASSUME TypeOK, OrderInv, NEW t, NEW o \in Operations, Ahead(o[1]),
         ReserveAttempt(t, o) \/ DispatchAttempt(t, o) \/ CompleteAttempt(t, o)
  PROVE  RowsInv' /\ EndRows'
<1>1. ~deleted /\ KeptRows /\ finalReady \in {0, 1}
  BY DEF ReserveAttempt, DispatchAttempt, CompleteAttempt, Fence, OrderInv, RowsInv,
         TypeOK, StoreTypeOK
<1>2. PICK a : attempt' = [attempt EXCEPT ![o] = a]
  BY DEF ReserveAttempt, DispatchAttempt, CompleteAttempt, WriteAttempt
<1>3. UNCHANGED <<workRow, genRow, stage, segStatus, validated, artifacts, projRow>>
  BY DEF ReserveAttempt, DispatchAttempt, CompleteAttempt, WriteAttempt
<1>4. \A p \in Operations : attempt'[p] # "none" => attempt[p] # "none" \/ Ahead(p[1])
  BY <1>2 DEF TypeOK, StoreTypeOK
<1>5. SameDone
  BY <1>3 DEF SameDone, Done
<1>6. KeptRows'
  BY <1>1, <1>3, <1>4, <1>5, RowsFollow DEF workRow, genRow, projRow
<1>7. UNCHANGED <<disposition, outcome, pipeState, retention>>
  BY <1>3 DEF workRow, genRow, projRow
<1> QED BY <1>1, <1>6, <1>7 DEF RowsInv, EndRows, OrderInv, SettledTogether, deleted

\* Verified text is published by a worker that found the stage not completed.
LEMMA VerifiedTextKeepsRows ==
  ASSUME TypeOK, OrderInv, NEW t, NEW s \in Segments, ~Done(Check(s)),
         PublishVerifiedText(t, s)
  PROVE  RowsInv' /\ EndRows'
<1>1. ~deleted /\ KeptRows
  BY DEF PublishVerifiedText, Fence, OrderInv, RowsInv
<1>2. /\ stage' = [stage EXCEPT ![Check(s)] = "completed"]
      /\ validated' = validated \cup {s}
      /\ segStatus' = [segStatus EXCEPT ![s] = "tts"]
      /\ UNCHANGED <<disposition, outcome, pipeState, attempt, artifacts, finalReady, retention>>
  BY DEF PublishVerifiedText, WriteStage, Check, workRow, projRow
<1>3. /\ Done(Check(s))'
      /\ \A j \in Stages : j # Check(s) => (Done(j)' <=> Done(j))
  BY <1>2, Names DEF Done, TypeOK, StoreTypeOK
<1>4. /\ \A r \in Segments : Done(Mixing(r))' <=> Done(Mixing(r))
      /\ \A r \in Segments \ {s} : Done(Check(r))' <=> Done(Check(r))
      /\ Done(Finalizing)' <=> Done(Finalizing)
  BY <1>3, Names, PlanType
<1>5. \A r \in Segments : SegmentRows(r)'
  <2> TAKE r \in Segments
  <2>1. CASE r = s
    BY <1>1, <1>2, <1>3, <1>4, <2>1 DEF KeptRows, SegmentRows, TypeOK, StoreTypeOK
  <2>2. CASE r # s
    BY <1>1, <1>2, <1>4, <2>2 DEF KeptRows, SegmentRows, TypeOK, StoreTypeOK
  <2> QED BY <2>1, <2>2
<1>6. FinalRows' /\ RowsInOrder'
  BY <1>1, <1>2, <1>4 DEF KeptRows, FinalRows, RowsInOrder, Ahead
<1> QED BY <1>1, <1>2, <1>5, <1>6
        DEF RowsInv, KeptRows, EndRows, OrderInv, SettledTogether, deleted

\* So is audio, by one that has walked past the segment's verified text: its
\* artifact row is the first.
LEMMA AudioKeepsRows ==
  ASSUME TypeOK, OrderInv, NEW t, NEW s \in Segments, Done(Check(s)), Ahead(s),
         ~Done(Mixing(s)), PublishAudio(t, s)
  PROVE  RowsInv' /\ EndRows'
<1>1. ~deleted /\ KeptRows
  BY DEF PublishAudio, Fence, OrderInv, RowsInv
<1>2. /\ stage' = [stage EXCEPT ![Mixing(s)] = "completed"]
      /\ artifacts' = [artifacts EXCEPT ![s] = @ + 1]
      /\ segStatus' = [segStatus EXCEPT ![s] = "ready"]
      /\ UNCHANGED <<disposition, outcome, pipeState, attempt, validated, finalReady, retention>>
  BY DEF PublishAudio, WriteStage, Mixing, workRow
<1>3. /\ Done(Mixing(s))'
      /\ \A j \in Stages : j # Mixing(s) => (Done(j)' <=> Done(j))
  BY <1>2, Names DEF Done, TypeOK, StoreTypeOK
<1>4. /\ \A r \in Segments \ {s} : Done(Mixing(r))' <=> Done(Mixing(r))
      /\ \A r \in Segments : Done(Check(r))' <=> Done(Check(r))
      /\ Done(Finalizing)' <=> Done(Finalizing)
  BY <1>3, Names, PlanType
<1>5. \A r \in Segments : SegmentRows(r)'
  <2> TAKE r \in Segments
  <2>0. r \in Scopes /\ s \in Scopes
    BY DEF Scopes
  <2>1. CASE r = s
    BY <1>1, <1>2, <1>3, <1>4, <2>0, <2>1 DEF KeptRows, SegmentRows, TypeOK, StoreTypeOK
  <2>2. CASE r # s
    BY <1>1, <1>2, <1>4, <2>0, <2>2 DEF KeptRows, SegmentRows, TypeOK, StoreTypeOK
  <2> QED BY <2>1, <2>2
<1>6. FinalRows'
  <2>1. artifacts'[Project] = artifacts[Project]
    BY <1>2 DEF TypeOK, StoreTypeOK, Scopes, Segments, Project
  <2> QED BY <1>1, <1>2, <1>3, <1>4, <2>1 DEF KeptRows, FinalRows
<1>7. RowsInOrder'
  BY <1>1, <1>2, <1>3, <1>4 DEF KeptRows, RowsInOrder, Ahead
<1> QED BY <1>1, <1>2, <1>5, <1>6, <1>7
        DEF RowsInv, KeptRows, EndRows, OrderInv, SettledTogether, deleted

\* The episode is published by a worker that has walked past every segment.
LEMMA FinalKeepsRows ==
  ASSUME TypeOK, OrderInv, NEW t, \A r \in Segments : Done(Mixing(r)),
         PublishFinal(t)
  PROVE  RowsInv' /\ EndRows'
<1>1. /\ ~deleted /\ KeptRows
      /\ Project \in Scopes /\ \A s \in Segments : s \in Scopes /\ s # Project
  BY DEF PublishFinal, Fence, OrderInv, RowsInv, Scopes, Segments, Project
<1>2. /\ ~Done(Finalizing) /\ disposition = "active"
      /\ stage' = [stage EXCEPT ![Finalizing] = "completed"]
      /\ artifacts' = [artifacts EXCEPT ![Project] = @ + 1]
      /\ pipeState' = "succeeded" /\ outcome' = "ready" /\ disposition' = "terminal"
      /\ UNCHANGED <<attempt, segStatus, validated, retention>>
  BY DEF PublishFinal, Fence, CanRenew, Terminate, Done
<1>3. /\ Done(Finalizing)'
      /\ \A j \in Stages : j # Finalizing => (Done(j)' <=> Done(j))
  BY <1>2, PlanType DEF Done, TypeOK, StoreTypeOK
<1>4. \A r \in Segments : /\ Done(Mixing(r))' <=> Done(Mixing(r))
                          /\ Done(Check(r))' <=> Done(Check(r))
  BY <1>3, Names
<1>5. \A r \in Segments : SegmentRows(r)'
  <2> TAKE r \in Segments
  <2>1. artifacts'[r] = artifacts[r]
    BY <1>1, <1>2 DEF TypeOK, StoreTypeOK
  <2> QED BY <1>1, <1>2, <1>4, <2>1 DEF KeptRows, SegmentRows
<1>6. FinalRows'
  BY <1>1, <1>2, <1>3, <1>4 DEF KeptRows, FinalRows, TypeOK, StoreTypeOK
<1>7. RowsInOrder'
  BY <1>1, <1>2, <1>4 DEF KeptRows, RowsInOrder, Ahead
<1> QED BY <1>1, <1>2, <1>5, <1>6, <1>7
        DEF RowsInv, KeptRows, EndRows, OrderInv, SettledTogether, deleted

\* A generation that can still be settled has no episode.
LEMMA UnsettledIsUnpublished ==
  ASSUME TypeOK, OrderInv, ~deleted, pipeState # "succeeded"
  PROVE  KeptRows /\ ~Done(Finalizing) /\ finalReady = 0
  BY DEF OrderInv, RowsInv, KeptRows, FinalRows, TypeOK, StoreTypeOK

\* Cancellation leaves what is ready ready.
LEMMA CancellationKeepsRows ==
  ASSUME TypeOK, OrderInv, ~deleted, pipeState = "leased",
         disposition = "cancellation_requested", ObserveCancellation,
         \A o \in Operations : attempt'[o] # "none" => attempt[o] # "none"
  PROVE  RowsInv' /\ EndRows'
<1>1. KeptRows /\ ~Done(Finalizing) /\ finalReady = 0
  BY UnsettledIsUnpublished
<1>2. /\ pipeState' = "cancelled" /\ disposition' = "terminal" /\ outcome' = "cancelled"
      /\ UNCHANGED <<validated, artifacts, finalReady, retention>>
  BY DEF ObserveCancellation, Terminate
<1>3. \A j \in Stages : Done(j)' <=> Done(j)
  BY DEF ObserveCancellation, Done
<1>4. SameDone
  BY <1>3, Names, PlanType DEF SameDone
<1>5. \A s \in Segments : SegmentRows(s)'
  <2> TAKE s \in Segments
  <2>1. segStatus'[s] = IF segStatus[s] = "ready" THEN "ready" ELSE "failed"
    BY DEF ObserveCancellation
  <2> QED BY <1>1, <1>2, <1>4, <2>1 DEF KeptRows, SegmentRows, SameDone
<1>6. FinalRows'
  BY <1>1, <1>2, <1>4 DEF KeptRows, FinalRows, SameDone
<1>7. RowsInOrder'
  BY <1>1, <1>4 DEF KeptRows, RowsInOrder, Ahead, SameDone
<1> QED BY <1>1, <1>2, <1>5, <1>6, <1>7
        DEF RowsInv, KeptRows, EndRows, SettledTogether, deleted

\* So does an operation whose outcome is not known.
LEMMA UnknownKeepsRows ==
  ASSUME TypeOK, OrderInv, NEW t, NEW o \in Operations, FailAttemptUnknown(t, o)
  PROVE  RowsInv' /\ EndRows'
<1>1. ~deleted /\ pipeState = "leased"
  BY DEF FailAttemptUnknown, CanFailUnknown, LeaseHeld
<1>2. \A p \in Operations : attempt'[p] # "none" => attempt[p] # "none"
  BY DEF FailAttemptUnknown, CanFailUnknown, TypeOK, StoreTypeOK
<1>3. CASE disposition = "cancellation_requested" /\ ObserveCancellation
  BY <1>1, <1>2, <1>3, CancellationKeepsRows
<1>4. CASE ~(disposition = "cancellation_requested" /\ ObserveCancellation)
  <2>1. /\ stage' = [stage EXCEPT ![o] = IF @ = "completed" THEN "completed" ELSE "failed"]
        /\ pipeState' = "failed" /\ disposition' = "terminal" /\ outcome' = "failed"
        /\ UNCHANGED <<segStatus, validated, artifacts, finalReady, retention>>
    BY <1>4 DEF FailAttemptUnknown, Terminate
  <2>2. KeptRows /\ ~Done(Finalizing) /\ finalReady = 0
    BY <1>1, UnsettledIsUnpublished
  <2>3. \A j \in Stages : Done(j)' <=> Done(j)
    BY <2>1 DEF Done, TypeOK, StoreTypeOK
  <2>4. SameDone
    BY <2>3, Names, PlanType DEF SameDone
  <2>5. KeptRows'
    BY <1>2, <2>1, <2>2, <2>4, RowsFollow
  <2> QED BY <1>1, <2>1, <2>5 DEF RowsInv, EndRows, SettledTogether, deleted
<1> QED BY <1>3, <1>4

\* A failure settles the work row only for the current epoch, and the
\* generation row only while it is not terminal.
LEMMA FailureKeepsRows ==
  ASSUME TypeOK, OrderInv, NEW t, SettleFailure(t),
         ~deleted /\ epoch = t => pipeState = "leased"
  PROVE  RowsInv' /\ EndRows'
<1>1. /\ pipeState' = IF epoch = t /\ ~deleted THEN "failed" ELSE pipeState
      /\ \/ disposition = "active" /\ disposition' = "terminal" /\ outcome' = "failed"
         \/ disposition # "active" /\ UNCHANGED <<disposition, outcome>>
      /\ UNCHANGED <<stage, attempt, segStatus, validated, artifacts, finalReady, retention>>
  BY DEF SettleFailure, Terminate, genRow, resultRows
<1>2. EndRows'
  BY <1>1 DEF OrderInv, EndRows, SettledTogether, deleted, TypeOK, StoreTypeOK,
     Outcomes
<1>3. CASE deleted
  BY <1>1, <1>2, <1>3 DEF OrderInv, RowsInv, DeletedRows, deleted
<1>4. CASE ~deleted
  <2>1. KeptRows
    BY <1>4 DEF OrderInv, RowsInv
  <2>2. SameDone
    BY <1>1 DEF SameDone, Done
  <2>3. pipeState' = pipeState \/ ~Done(Finalizing)
    BY <1>1, <1>4, UnsettledIsUnpublished
  <2>4. outcome' = outcome \/ finalReady = 0
    BY <1>1, <2>1 DEF OrderInv, EndRows, KeptRows, FinalRows, TypeOK, StoreTypeOK
  <2>5. finalReady \in {0, 1}
    BY DEF TypeOK, StoreTypeOK
  <2>6. KeptRows'
    BY <1>1, <2>1, <2>2, <2>3, <2>4, <2>5, RowsFollow
  <2> QED BY <1>1, <1>2, <1>4, <2>6 DEF RowsInv, deleted
<1> QED BY <1>3, <1>4

\* The scheduler, the clock and a client that cancels touch no result.
LEMMA OutsideKeepsRows ==
  ASSUME TypeOK, OrderInv,
         ClaimWork \/ LeaseExpires \/ RequestCancellation \/ UNCHANGED storeVars
  PROVE  RowsInv' /\ EndRows'
<1>1. /\ UNCHANGED <<stage, attempt, segStatus, validated, artifacts, finalReady, retention, outcome>>
      /\ \/ pipeState' = pipeState
         \/ pipeState' = "leased" /\ pipeState \in {"pending", "leased"}
      /\ \/ disposition' = disposition
         \/ disposition = "active" /\ disposition' = "cancellation_requested"
  BY DEF ClaimWork, Claimable, LeaseExpires, RequestCancellation, storeVars, workRow, genRow,
         resultRows, projRow
<1>2. EndRows'
  BY <1>1 DEF OrderInv, EndRows, SettledTogether, deleted
<1>3. CASE deleted
  BY <1>1, <1>2, <1>3 DEF OrderInv, RowsInv, DeletedRows, deleted
<1>4. CASE ~deleted
  <2>1. KeptRows
    BY <1>4 DEF OrderInv, RowsInv
  <2>2. SameDone
    BY <1>1 DEF SameDone, Done
  <2>3. pipeState' = pipeState \/ ~Done(Finalizing)
    BY <1>1, <1>4, UnsettledIsUnpublished
  <2>4. finalReady \in {0, 1}
    BY DEF TypeOK, StoreTypeOK
  <2>5. KeptRows'
    BY <1>1, <2>1, <2>2, <2>3, <2>4, RowsFollow
  <2> QED BY <1>1, <1>2, <1>4, <2>5 DEF RowsInv, deleted
<1> QED BY <1>3, <1>4

LEMMA DeletionKeepsRows ==
  ASSUME TypeOK, OrderInv, DeleteProject
  PROVE  deleted' /\ RowsInv' /\ EndRows'
<1>1. /\ deleted' /\ finalReady' = 0 /\ validated' = {} /\ pipeState' = "absent"
      /\ stage' = [k \in Stages |-> "absent"]
      /\ attempt' = [o \in Operations |-> "none"]
      /\ segStatus' = [s \in Segments |-> "absent"]
      /\ artifacts' = [s \in Scopes |-> 0]
      /\ \/ disposition = "terminal" /\ UNCHANGED <<disposition, outcome>>
         \/ disposition' = "terminal" /\ outcome' = "deleted"
  BY DEF DeleteProject, deleted, Terminate, genRow
<1>2. RowsInv'
  BY <1>1 DEF RowsInv, DeletedRows
<1>3. EndRows'
  BY <1>1 DEF OrderInv, EndRows, SettledTogether
<1> QED BY <1>1, <1>2, <1>3

-----------------------------------------------------------------------------
(***************************************************************************)
(* One holder.                                                             *)
(***************************************************************************)

\* A worker that goes on goes on to a phase that is neither the first nor the
\* last, or ends.
LEMMA Moves ==
  ASSUME TypeOK, NEW w \in Workers, WorkerStep(w) \/ StepRaises(w) \/ Crash(w)
  PROVE  /\ Running(w)
         /\ \/ \E p \in Phases \ {"hydrate", "idle"} : Goto(w, p)
            \/ \E k \in Stages : MoveTo(w, k)
            \/ Stop(w)
<1> DEFINE k == at[w]
           Ps == Phases \ {"hydrate", "idle"}
<1>0. /\ Ps = Phases \ {"hydrate", "idle"} /\ k \in Stages
      /\ k # Finalizing => FollowUp(k) \in Stages
      /\ k # Finalizing /\ k[2] = "tts" => AfterSegment(k[1]) \in Stages
  BY WorkerContext, PlanType DEF LeadResearch
<1>1. /\ {"check", "start", "ready", "cancel", "failing", "fail", "finish", "audio"} \subseteq Ps
      /\ ProviderPhases \subseteq Ps
  BY DEF Phases, ProviderPhases
<1> HIDE DEF Ps
<1>2. Running(w)
  BY DEF WorkerStep, StepRaises, Crash, Running, Hydrate, Renew, CheckStage, StartStage,
         Reserve, Dispatch, CallProvider, CallReturned, AbandonAttempt, Complete,
         LocalAudio, FinishStage, Ready, Cancel, Failing, Fail, In
<1>3. (\E p \in Ps : Goto(w, p)) \/ (\E j \in Stages : MoveTo(w, j)) \/ Stop(w)
  <2>1. CASE Hydrate(w) \/ Renew(w) \/ LocalAudio(w) \/ Ready(w)
    BY <1>1, <2>1 DEF Hydrate, Renew, LocalAudio, Ready, RaiseFenceLost
  <2>2. CASE CheckStage(w)
    BY <1>0, <1>1, <2>2 DEF CheckStage, Raise
  <2>3. CASE StartStage(w)
    BY <1>1, <2>3 DEF StartStage, RaiseFenceLost, ProviderPhases
  <2>4. CASE FinishStage(w)
    BY <1>0, <1>1, <2>4 DEF FinishStage, RaiseFenceLost, Raise
  <2>5. CASE Reserve(w)
    BY <1>1, <2>5 DEF Reserve, RaiseFenceLost, Raise, ProviderPhases
  <2>6. CASE Dispatch(w) \/ CallProvider(w) \/ CallReturned(w) \/ AbandonAttempt(w) \/ Complete(w)
    BY <1>1, <2>6 DEF Dispatch, CallProvider, CallReturned, AbandonAttempt, Complete,
       RaiseFenceLost, ProviderPhases
  <2>7. CASE Cancel(w) \/ Failing(w) \/ Fail(w) \/ Crash(w)
    BY <1>1, <2>7 DEF Cancel, Failing, Fail, Crash
  <2>8. CASE StepRaises(w)
    BY <1>1, <2>8 DEF StepRaises, ProviderPhases
  <2> QED BY <2>1, <2>2, <2>3, <2>4, <2>5, <2>6, <2>7, <2>8 DEF WorkerStep
<1> QED BY <1>0, <1>2, <1>3

\* A transaction of a worker keeps the epoch; unless it holds the lease it
\* keeps the results and the work row, too.
LEMMA TransactionKeeps ==
  ASSUME NEW t, NEW o, NEW k, WorkerTransaction(t, o, k)
  PROVE  /\ UNCHANGED <<epoch, retention>>
         /\ epoch = t \/ UNCHANGED <<pipeState, resultRows>>
<1> USE DEF Fence, CanRenew, LeaseHeld, workRow, projRow, resultRows
<1>1. CASE ReserveAttempt(t, o) \/ DispatchAttempt(t, o) \/ CompleteAttempt(t, o)
  BY <1>1 DEF ReserveAttempt, DispatchAttempt, CompleteAttempt, WriteAttempt
<1>2. CASE FailAttemptUnknown(t, o) \/ SettleCancellation(t)
  BY <1>2 DEF FailAttemptUnknown, CanFailUnknown, SettleCancellation,
       CanSettleCancellation, ObserveCancellation
<1>3. CASE RecordStageTransition(t, k, "running") \/ SettleReady(t)
  BY <1>3 DEF RecordStageTransition, SettleReady
<1>4. CASE PublishStage(t, k)
  BY <1>4 DEF PublishStage, PublishFinal, PublishAudio, PublishVerifiedText,
       RecordStageTransition
<1>5. CASE SettleFailure(t)
  BY <1>5 DEF SettleFailure
<1> QED BY <1>1, <1>2, <1>3, <1>4, <1>5 DEF WorkerTransaction

LEMMA WorkerKeeps ==
  ASSUME TypeOK, NEW w \in Workers, WorkerStep(w) \/ StepRaises(w) \/ Crash(w)
  PROVE  /\ UNCHANGED <<epoch, retention>>
         /\ epoch = token[w] \/ UNCHANGED <<pipeState, resultRows>>
         /\ \A v \in Workers \ {w} :
              pc'[v] = pc[v] /\ at'[v] = at[v] /\ token'[v] = token[v]
<1>1. \A v \in Workers \ {w} : pc'[v] = pc[v] /\ at'[v] = at[v] /\ token'[v] = token[v]
  <2>1. token' = token \/ token' = [token EXCEPT ![w] = 0]
    BY Moves DEF Goto, MoveTo, Stop
  <2> QED BY <2>1, WorkerSteps DEF TypeOK, WorkerTypeOK
<1>2. CASE UNCHANGED storeVars
  BY <1>1, <1>2 DEF storeVars, workRow, projRow
<1>3. CASE ~UNCHANGED storeVars
  BY <1>1, <1>3, WorkerSteps, TransactionKeeps
<1> QED BY <1>2, <1>3

\* A worker's step gives nobody a token or a first phase.
LEMMA WorkerKeepsOneHolder ==
  ASSUME TypeOK, OneHolder, NEW w \in Workers, WorkerStep(w) \/ StepRaises(w) \/ Crash(w)
  PROVE  OneHolder'
<1>1. epoch' = epoch
  BY WorkerKeeps
<1>2. \A v \in Workers \ {w} : pc'[v] = pc[v] /\ at'[v] = at[v] /\ token'[v] = token[v]
  BY WorkerKeeps
<1>3. /\ Running(w)
      /\ \/ pc'[w] \notin {"hydrate", "idle"} /\ token'[w] = token[w]
         \/ pc'[w] = "idle" /\ at'[w] = LeadResearch
  <2>1. CASE \E p \in Phases \ {"hydrate", "idle"} : Goto(w, p)
    BY <2>1, Moves DEF Goto, TypeOK, WorkerTypeOK
  <2>2. CASE \E k \in Stages : MoveTo(w, k)
    BY <2>2, Moves, EntryPhaseType DEF MoveTo, TypeOK, WorkerTypeOK
  <2>3. CASE Stop(w)
    BY <2>3, Moves DEF Stop, TypeOK, WorkerTypeOK
  <2> QED BY <2>1, <2>2, <2>3, Moves
<1> QED BY <1>1, <1>2, <1>3 DEF OneHolder, Running

\* A claim makes its worker the only one with the new epoch.
LEMMA ClaimKeepsHolders ==
  ASSUME TypeOK, OrderInv, NEW w \in Workers, Claim(w)
  PROVE  OneHolder' /\ \A v \in Workers : HolderInv(v)'
<1>1. /\ pc[w] = "idle" /\ at[w] = LeadResearch /\ epoch \in Nat
      /\ epoch' = epoch + 1 /\ pipeState' = "leased"
      /\ pc' = [pc EXCEPT ![w] = "hydrate"] /\ token' = [token EXCEPT ![w] = epoch + 1]
      /\ UNCHANGED <<at, retention>>
  BY DEF Claim, ClaimWork, OrderInv, OneHolder, Running, TypeOK, StoreTypeOK, projRow
<1>2. /\ pc'[w] = "hydrate" /\ token'[w] = epoch'
      /\ \A v \in Workers \ {w} : /\ pc'[v] = pc[v] /\ token'[v] = token[v]
                                  /\ Running(v) => token'[v] < epoch'
  BY <1>1 DEF OrderInv, OneHolder, TypeOK, WorkerTypeOK
<1>3. \A v \in Workers : token[v] \in Nat
  BY WorkerContext
<1>4. OneHolder'
  BY <1>1, <1>2, <1>3 DEF OrderInv, OneHolder, Running
<1>5. \A v \in Workers \ {w} : HolderInv(v)'
  BY <1>1, <1>2, <1>3 DEF HolderInv, Running
<1>6. HolderInv(w)'
  BY <1>1, <1>2, PlanType DEF HolderInv, WalkedTo, Ahead, Busy, LeadResearch, Finalizing,
     Segments, Project
<1> QED BY <1>4, <1>5, <1>6

\* The clock and the client change no worker, and leave a kept lease leased.
LEMMA OutsideKeepsHolders ==
  ASSUME TypeOK, OrderInv, UNCHANGED workerVars,
         LeaseExpires \/ RequestCancellation \/ DeleteProject \/ UNCHANGED storeVars
  PROVE  OneHolder' /\ \A v \in Workers : HolderInv(v)'
<1>1. /\ UNCHANGED epoch
      /\ deleted' \/ UNCHANGED <<pipeState, stage, retention>>
  BY DEF LeaseExpires, RequestCancellation, DeleteProject, deleted, storeVars, workRow,
         projRow, resultRows
<1>2. OneHolder'
  BY <1>1 DEF OrderInv, OneHolder, Running, workerVars
<1>3. ASSUME NEW v \in Workers PROVE HolderInv(v)'
  BY <1>1 DEF OrderInv, HolderInv, WalkedTo, Ahead, Done, workerVars, deleted
<1> QED BY <1>2, <1>3

\* Whoever else has the current epoch is not disturbed.
LEMMA OtherHolders ==
  ASSUME TypeOK, OrderInv, NEW w \in Workers, WorkerStep(w) \/ StepRaises(w) \/ Crash(w),
         NEW v \in Workers \ {w}
  PROVE  HolderInv(v)'
<1>1. /\ UNCHANGED <<epoch, retention>>
      /\ pc'[v] = pc[v] /\ at'[v] = at[v] /\ token'[v] = token[v]
  BY WorkerKeeps
<1>2. CASE token[v] = epoch /\ Running(v)
  <2>1. epoch # token[w]
    BY <1>2, Moves DEF OrderInv, OneHolder
  <2>2. UNCHANGED <<pipeState, stage>>
    BY <2>1, WorkerKeeps DEF resultRows
  <2> QED BY <1>1, <2>2 DEF OrderInv, HolderInv, WalkedTo, Ahead, Done, deleted
<1>3. CASE ~(token[v] = epoch /\ Running(v))
  BY <1>1, <1>3 DEF HolderInv, Running
<1> QED BY <1>2, <1>3

-----------------------------------------------------------------------------
(***************************************************************************)
(* What the holder has walked past is in the rows.                         *)
(***************************************************************************)

\* After a segment comes a stage that has everything ahead of it done, if the
\* segment has and is: D is the set of segments that are done.
LEMMA AfterIsAhead ==
  ASSUME NEW D, NEW s \in Segments, s \in D,
         \A r \in Segments : r < s => r \in D
  PROVE  LET k == AfterSegment(s)
         IN  /\ k # Finalizing => \A r \in Segments : r < k[1] => r \in D
             /\ k = Finalizing => \A r \in Segments : r \in D
             /\ k[2] \notin {"tts", "mixing"}
<1>1. CASE s < NumSegments
  <2>1. AfterSegment(s) = <<s + 1, "research">>
    BY <1>1 DEF AfterSegment
  <2>2. \A r \in Segments : r < s + 1 => r \in D
    BY NumSegmentsAssumption DEF Segments
  <2> QED BY <2>1, <2>2 DEF Finalizing
<1>2. CASE ~(s < NumSegments)
  <2>1. AfterSegment(s) = Finalizing
    BY <1>2 DEF AfterSegment
  <2>2. \A r \in Segments : r \in D
    BY <1>2, NumSegmentsAssumption DEF Segments
  <2> QED BY <2>1, <2>2 DEF Finalizing
<1> QED BY <1>1, <1>2

\* A holder that goes on with the same stage.
LEMMA HolderGoes ==
  ASSUME TypeOK, NEW w \in Workers, HolderInv(w), NEW p, Goto(w, p),
         UNCHANGED <<epoch, retention, pipeState>>, SameDone,
         pc[w] \notin {"idle", "cancel", "failing", "fail"}, p # "fail",
         p \in Busy =>
            \/ pc[w] \in Busy /\ (~Done(CheckedStage(at[w])) => ~Done(CheckedStage(at[w]))')
            \/ ~Done(CheckedStage(at[w]))',
         p = "ready" => Done(Finalizing)
  PROVE  HolderInv(w)'
<1>1. pc'[w] = p /\ at' = at /\ token' = token
  BY DEF Goto, TypeOK, WorkerTypeOK
<1> SUFFICES ASSUME ~deleted, token[w] = epoch
             PROVE  pipeState' = "leased" /\ WalkedTo(w)'
  BY <1>1 DEF HolderInv, deleted
<1>2. pipeState = "leased" /\ WalkedTo(w)
  BY DEF HolderInv
<1>3. at[w] \in Stages
  BY WorkerContext
<1>4. at[w][2] \in {"tts", "mixing"} => at[w][1] \in Segments
  BY <1>3, PlanType DEF LeadResearch, Finalizing
<1> QED BY <1>1, <1>2, <1>4 DEF WalkedTo, SameDone, Ahead

\* A holder that moves to the stage k.
LEMMA HolderMoves ==
  ASSUME TypeOK, NEW w \in Workers, NEW k \in Stages, MoveTo(w, k),
         UNCHANGED <<epoch, retention>>,
         ~deleted /\ token[w] = epoch =>
           /\ pipeState' = "leased"
           /\ k # Finalizing => Ahead(k[1])'
           /\ k = Finalizing => \A r \in Segments : Done(Mixing(r))'
           /\ k[2] \in {"tts", "mixing"} => Done(Check(k[1]))'
           /\ k[2] = "mixing" => ~Done(k)'
  PROVE  HolderInv(w)'
<1>1. pc'[w] = EntryPhase(k) /\ at'[w] = k /\ token' = token
  BY DEF MoveTo, TypeOK, WorkerTypeOK
<1> SUFFICES ASSUME ~deleted, token[w] = epoch
             PROVE  pipeState' = "leased" /\ WalkedTo(w)'
  BY <1>1 DEF HolderInv, deleted
<1>2. EntryPhase(k) \in Busy => k[2] = "mixing" /\ CheckedStage(k) = k
  BY DEF EntryPhase, Busy, CheckedStage
<1>3. EntryPhase(k) # "ready"
  BY DEF EntryPhase
<1>4. pc'[w] \in Busy => ~Done(CheckedStage(at[w]))'
  BY <1>1, <1>2
<1>5. /\ at'[w] # Finalizing => Ahead(at[w][1])'
      /\ at'[w] = Finalizing => \A r \in Segments : Done(Mixing(r))'
      /\ at'[w][2] \in {"tts", "mixing"} => Done(Check(at[w][1]))'
  BY <1>1
<1> QED BY <1>1, <1>3, <1>4, <1>5 DEF WalkedTo

\* A worker that has ended or is about to settle holds nothing.
LEMMA HolderLeaves ==
  ASSUME TypeOK, NEW w \in Workers,
         Stop(w) \/ Goto(w, "cancel") \/ Goto(w, "failing")
  PROVE  HolderInv(w)'
<1>1. pc'[w] \in {"idle", "cancel", "failing"}
  BY DEF Stop, Goto, TypeOK, WorkerTypeOK
<1> QED BY <1>1 DEF HolderInv

\* What a fenced transaction knows of its worker.
LEMMA FencedIsHolder ==
  ASSUME OrderInv, NEW w \in Workers, Fence(token[w]),
         pc[w] \notin {"idle", "cancel", "failing", "fail"}
  PROVE  ~deleted /\ token[w] = epoch /\ pipeState = "leased" /\ WalkedTo(w)
  BY DEF OrderInv, HolderInv, Fence, CanRenew, LeaseHeld

\* Steps that read, compute or call a provider.
LEMMA QuietOrder ==
  ASSUME TypeOK, OrderInv, NEW w \in Workers,
         \/ Hydrate(w) \/ Renew(w) \/ LocalAudio(w) \/ CallProvider(w) \/ CallReturned(w)
         \/ Failing(w) \/ StepRaises(w) \/ Crash(w)
  PROVE  RowsInv' /\ EndRows' /\ HolderInv(w)'
<1>1. UNCHANGED storeVars
  BY DEF Hydrate, Renew, LocalAudio, CallProvider, CallReturned, Failing, StepRaises, Crash,
         RaiseFenceLost
<1>2. RowsInv' /\ EndRows'
  BY <1>1, OutsideKeepsRows
<1>3. /\ SameDone /\ UNCHANGED <<epoch, retention, pipeState>>
      /\ \A k : Done(k)' <=> Done(k)
  BY <1>1 DEF SameDone, Done, storeVars, workRow, projRow, resultRows
<1>4. HolderInv(w)
  BY DEF OrderInv
<1>5. HolderInv(w)'
  <2>1. CASE Hydrate(w) \/ Renew(w)
    <3>1. pc[w] \in {"hydrate", "renew"}
      BY <2>1 DEF Hydrate, Renew, In
    <3>2. Goto(w, "check") \/ Goto(w, "cancel")
      BY <2>1 DEF Hydrate, Renew, RaiseFenceLost
    <3> QED BY <1>3, <1>4, <3>1, <3>2, HolderGoes, HolderLeaves DEF Busy
  <2>2. CASE LocalAudio(w) \/ CallProvider(w) \/ CallReturned(w)
    <3>1. pc[w] \in {"audio", "call", "returned"}
      BY <2>2 DEF LocalAudio, CallProvider, CallReturned, In
    <3>2. PICK p \in Phases : Goto(w, p) /\ p \in {"finish", "cancel", "returned", "abandon_raised",
                                      "abandon_lost", "complete"}
      BY <2>2 DEF LocalAudio, CallProvider, CallReturned, RaiseFenceLost, Phases
    <3>3. ~Done(CheckedStage(at[w])) => ~Done(CheckedStage(at[w]))'
      <4>1. at' = at
        BY <3>2 DEF Goto
      <4> QED BY <1>3, <4>1
    <3> QED BY <1>3, <1>4, <3>1, <3>2, <3>3, HolderGoes, HolderLeaves DEF Busy
  <2>3. CASE Failing(w)
    <3>1. CASE Stop(w)
      BY <3>1, HolderLeaves
    <3>2. CASE LeaseHeld(token[w]) /\ Goto(w, "fail")
      BY <1>3, <3>2 DEF HolderInv, LeaseHeld, Goto, TypeOK, WorkerTypeOK
    <3> QED BY <2>3, <3>1, <3>2 DEF Failing
  <2>4. CASE StepRaises(w)
    <3>1. CASE Goto(w, "failing")
      BY <3>1, HolderLeaves
    <3>2. CASE pc[w] = "returned" /\ Goto(w, "abandon_raised")
      <4>1. ~Done(CheckedStage(at[w])) => ~Done(CheckedStage(at[w]))'
        BY <1>3, <3>2 DEF Goto
      <4> QED BY <1>3, <1>4, <3>2, <4>1, HolderGoes DEF Busy
    <3> QED BY <2>4, <3>1, <3>2 DEF StepRaises
  <2>5. CASE Crash(w)
    BY <2>5, HolderLeaves DEF Crash
  <2> QED BY <2>1, <2>2, <2>3, <2>4, <2>5
<1> QED BY <1>2, <1>5

\* A stage that is looked at and found completed is walked past.
LEMMA CheckOrder ==
  ASSUME TypeOK, OrderInv, NEW w \in Workers, CheckStage(w)
  PROVE  RowsInv' /\ EndRows' /\ HolderInv(w)'
<1> PICK k \in Stages : k = at[w]
  BY WorkerContext
<1>1. UNCHANGED storeVars /\ pc[w] = "check"
  BY DEF CheckStage, Raise, In
<1>2. RowsInv' /\ EndRows'
  BY <1>1, OutsideKeepsRows
<1>3. /\ SameDone /\ UNCHANGED <<epoch, retention, pipeState>>
      /\ \A j : Done(j)' <=> Done(j)
      /\ \A n : Ahead(n)' <=> Ahead(n)
  BY <1>1 DEF SameDone, Ahead, Done, storeVars, workRow, projRow, resultRows
<1>4. /\ HolderInv(w) /\ k \in Stages
      /\ ~deleted /\ token[w] = epoch => pipeState = "leased" /\ WalkedTo(w)
      /\ k \notin {LeadResearch, Finalizing} => k[1] \in Segments
  BY <1>1, WorkerContext, PlanType DEF OrderInv, HolderInv
<1>5. HolderInv(w)'
  <2>1. CASE Raise(w)
    BY <2>1, HolderLeaves DEF Raise
  <2>2. CASE Done(CheckedStage(k)) /\ k = Finalizing /\ Goto(w, "ready")
    <3>1. Done(Finalizing)
      BY <2>2 DEF CheckedStage, Finalizing
    <3> QED BY <1>1, <1>3, <1>4, <2>2, <3>1, HolderGoes DEF Busy
  <2>3. CASE ~Done(CheckedStage(k)) /\ Goto(w, "start")
    <3>1. ~Done(CheckedStage(at[w]))'
      BY <1>3, <2>3 DEF Goto
    <3> QED BY <1>1, <1>3, <1>4, <2>3, <3>1, HolderGoes DEF Busy
  <2>4. CASE /\ Done(CheckedStage(k)) /\ k # Finalizing
             /\ k[2] \in {"tts", "mixing"} /\ MoveTo(w, AfterSegment(k[1]))
    <3> DEFINE D == {r \in Segments : Done(Mixing(r))'}
    <3>1. k[1] \in Segments
      BY <1>4, <2>4 DEF LeadResearch
    <3> PICK j \in Stages : j = AfterSegment(k[1])
      BY <3>1, PlanType
    <3>2. CheckedStage(k) = Mixing(k[1])
      <4>1. k[2] = "mixing" => k = <<k[1], "mixing">>
        BY <1>4, <2>4 DEF Stages, LeadResearch, Finalizing
      <4> QED BY <2>4, <4>1 DEF CheckedStage, Mixing
    <3>3. k[1] \in D
      BY <1>3, <2>4, <3>1, <3>2
    <3>4. ~deleted /\ token[w] = epoch => \A r \in Segments : r < k[1] => r \in D
      BY <1>3, <1>4, <2>4 DEF WalkedTo, Ahead
    <3>5. ~deleted /\ token[w] = epoch =>
            /\ j # Finalizing => Ahead(j[1])'
            /\ j = Finalizing => \A r \in Segments : Done(Mixing(r))'
            /\ j[2] \notin {"tts", "mixing"}
      <4> SUFFICES ASSUME ~deleted, token[w] = epoch
                   PROVE  /\ j # Finalizing => \A r \in Segments : r < j[1] => r \in D
                          /\ j = Finalizing => \A r \in Segments : r \in D
                          /\ j[2] \notin {"tts", "mixing"}
        BY DEF Ahead
      <4> HIDE DEF D
      <4> QED BY <3>1, <3>3, <3>4, AfterIsAhead
    <3> HIDE DEF D
    <3> QED BY <1>3, <1>4, <2>4, <3>5, HolderMoves
  <2>5. CASE /\ Done(CheckedStage(k)) /\ k # Finalizing
             /\ k[2] \notin {"tts", "mixing"} /\ MoveTo(w, FollowUp(k))
    <3> PICK j \in Stages : j = FollowUp(k)
      BY <2>5, PlanType
    <3>1. j # Finalizing /\ j[2] # "mixing" /\ Done(k)
      BY <1>4, <2>5, PlanType DEF FollowUp, CheckedStage, Finalizing
    <3>2. \/ k = LeadResearch /\ j[1] = 1
          \/ k # LeadResearch /\ j[1] = k[1]
      <4>1. CASE k = LeadResearch
        BY <4>1 DEF FollowUp, LeadResearch
      <4>2. CASE k # LeadResearch
        <5>1. j \in {<<k[1], "tts">>, <<k[1], "fact_checking">>, <<k[1], "text_generation">>}
          BY <2>5, <4>2 DEF FollowUp
        <5> QED BY <4>2, <5>1
      <4> QED BY <4>1, <4>2
    <3>3. ~deleted /\ token[w] = epoch => Ahead(j[1])
      <4>1. Ahead(1)
        BY DEF Ahead, Segments
      <4> QED BY <1>4, <2>5, <3>2, <4>1 DEF WalkedTo
    <3>4. j[2] = "tts" => Done(Check(j[1]))
      <4>1. j[2] = "tts" => k[2] = "fact_checking" /\ k # LeadResearch
        BY <2>5 DEF FollowUp, LeadResearch
      <4>2. k[2] = "fact_checking" /\ k # LeadResearch => k = Check(k[1])
        BY <1>4, <2>5 DEF Stages, LeadResearch, Finalizing, Check
      <4> QED BY <3>1, <3>2, <4>1, <4>2
    <3>5. j[2] \in {"tts", "mixing"} => Done(Check(j[1]))'
      BY <1>3, <3>1, <3>4
    <3> QED BY <1>3, <1>4, <2>5, <3>1, <3>3, <3>5, HolderMoves
  <2>6. \/ Raise(w)
        \/ Done(CheckedStage(k)) /\ k = Finalizing /\ Goto(w, "ready")
        \/ ~Done(CheckedStage(k)) /\ Goto(w, "start")
        \/ /\ Done(CheckedStage(k)) /\ k # Finalizing
           /\ MoveTo(w, IF k[2] = "tts" THEN AfterSegment(k[1]) ELSE FollowUp(k))
    BY DEF CheckStage, Done
  <2>7. k[2] = "mixing" => FollowUp(k) = AfterSegment(k[1])
    BY DEF FollowUp, LeadResearch
  <2> QED BY <2>1, <2>2, <2>3, <2>4, <2>5, <2>6, <2>7
<1> QED BY <1>2, <1>5

\* A stage that is started, and the operation that is asked for it.
LEMMA StartOrder ==
  ASSUME TypeOK, OrderInv, NEW w \in Workers, StartStage(w)
  PROVE  RowsInv' /\ EndRows' /\ HolderInv(w)'
<1>1. CASE RaiseFenceLost(w)
  BY <1>1, OutsideKeepsRows, HolderLeaves DEF RaiseFenceLost
<1>2. CASE /\ RecordStageTransition(token[w], at[w], "running")
           /\ Goto(w, IF at[w] \in Operations THEN "reserve" ELSE "audio")
  <2>1. pc[w] = "start" /\ at[w] \in Stages /\ at' = at
    BY <1>2, WorkerContext DEF StartStage, In, Goto
  <2>2. ~Done(CheckedStage(at[w]))
    BY <1>2, <2>1, FencedIsHolder DEF RecordStageTransition, WalkedTo, Busy
  <2>3. SameDone /\ ~Done(CheckedStage(at[w]))'
    <3>1. (~Done(CheckedStage(at[w]))') <=> stage'[CheckedStage(at[w])] # "completed"
      BY <2>1 DEF Done
    <3> QED BY <1>2, <2>1, <2>2, <3>1, StartKeepsDone DEF Done
  <2>4. UNCHANGED <<epoch, retention, pipeState>>
    BY <1>2 DEF RecordStageTransition, workRow, projRow
  <2>5. HolderInv(w)'
    BY <1>2, <2>1, <2>3, <2>4, HolderGoes DEF OrderInv, Busy
  <2> QED BY <1>2, <2>1, <2>2, <2>5, StartKeepsRows
<1> QED BY <1>1, <1>2 DEF StartStage

LEMMA AttemptOrder ==
  ASSUME TypeOK, OrderInv, NEW w \in Workers,
         Reserve(w) \/ Dispatch(w) \/ Complete(w) \/ AbandonAttempt(w)
  PROVE  RowsInv' /\ EndRows' /\ HolderInv(w)'
<1>1. /\ pc[w] \in ProviderPhases /\ at[w] \in Operations
      /\ pc[w] \in Busy
      /\ pc[w] \notin {"idle", "cancel", "failing", "fail"}
  BY WorkerContext DEF Reserve, Dispatch, Complete, AbandonAttempt, In, ProviderPhases, Busy
<1>2. CASE RaiseFenceLost(w) \/ Raise(w)
  BY <1>2, OutsideKeepsRows, HolderLeaves DEF RaiseFenceLost, Raise
<1>3. CASE AbandonAttempt(w)
  <2>1. HolderInv(w)'
    BY <1>3, HolderLeaves DEF AbandonAttempt
  <2>2. RowsInv' /\ EndRows'
    BY <1>1, <1>3, UnknownKeepsRows, OutsideKeepsRows DEF AbandonAttempt
  <2> QED BY <2>1, <2>2
<1>4. CASE /\ \/ ReserveAttempt(token[w], at[w]) \/ DispatchAttempt(token[w], at[w])
              \/ CompleteAttempt(token[w], at[w]) \/ UNCHANGED storeVars
           /\ \E p \in Busy \ {"fail"} : Goto(w, p)
  <2>1. UNCHANGED <<epoch, retention, pipeState, stage>>
    BY <1>4 DEF ReserveAttempt, DispatchAttempt, CompleteAttempt, WriteAttempt, storeVars,
       workRow, projRow, resultRows
  <2>2. SameDone /\ (~Done(CheckedStage(at[w])) => ~Done(CheckedStage(at[w]))')
    BY <1>4, <2>1 DEF SameDone, Done, Goto
  <2>3. HolderInv(w)'
    BY <1>1, <1>4, <2>1, <2>2, HolderGoes DEF OrderInv, Busy
  <2>4. RowsInv' /\ EndRows'
    <3>1. CASE UNCHANGED storeVars
      BY <3>1, OutsideKeepsRows
    <3>2. CASE \/ ReserveAttempt(token[w], at[w]) \/ DispatchAttempt(token[w], at[w])
               \/ CompleteAttempt(token[w], at[w])
      <4>1. Fence(token[w])
        BY <3>2 DEF ReserveAttempt, DispatchAttempt, CompleteAttempt
      <4>2. Ahead(at[w][1])
        BY <1>1, <4>1, FencedIsHolder, Names DEF WalkedTo
      <4> QED BY <1>1, <3>2, <4>2, AttemptKeepsRows
    <3> QED BY <1>4, <3>1, <3>2
  <2> QED BY <2>3, <2>4
<1> QED BY <1>2, <1>3, <1>4 DEF Reserve, Dispatch, Complete, Busy

\* A stage that is completed, and the stage after it.
LEMMA FinishOrder ==
  ASSUME TypeOK, OrderInv, NEW w \in Workers, FinishStage(w)
  PROVE  RowsInv' /\ EndRows' /\ HolderInv(w)'
<1> PICK k \in Stages : k = at[w]
  BY WorkerContext
<1> PICK t \in Nat : t = token[w]
  BY WorkerContext
<1>1. CASE RaiseFenceLost(w) \/ Raise(w)
  BY <1>1, OutsideKeepsRows, HolderLeaves DEF RaiseFenceLost, Raise
<1>2. CASE /\ Fence(t) /\ PublishStage(t, k)
           /\ IF k = Finalizing THEN Stop(w) ELSE MoveTo(w, FollowUp(k))
  <2>1. pc[w] = "finish"
    BY DEF FinishStage, In
  <2>2. /\ ~deleted /\ token[w] = epoch /\ pipeState = "leased" /\ WalkedTo(w)
        /\ ~Done(CheckedStage(k))
    BY <1>2, <2>1, FencedIsHolder DEF WalkedTo, Busy
  <2>3. CASE k = Finalizing
    <3>1. PublishFinal(t) /\ Stop(w)
      BY <1>2, <2>3 DEF PublishStage, Finalizing
    <3> QED BY <2>2, <2>3, <3>1, FinalKeepsRows, HolderLeaves DEF WalkedTo
  <2>4. CASE k # Finalizing
    <3> PICK j \in Stages : j = FollowUp(k)
      BY <2>4, PlanType
    <3>0. MoveTo(w, j) /\ Ahead(k[1])
      BY <1>2, <2>2, <2>4 DEF WalkedTo
    <3>1. CASE k[2] = "mixing"
      <4>1. /\ k[1] \in Segments /\ k = Mixing(k[1]) /\ j = AfterSegment(k[1])
            /\ PublishAudio(t, k[1]) /\ k # LeadResearch
        <5>1. k # LeadResearch
          BY <3>1 DEF LeadResearch
        <5>2. k[1] \in Segments /\ k = <<k[1], "mixing">>
          BY <2>4, <3>1, <5>1 DEF Stages, LeadResearch, Finalizing
        <5>3. j = AfterSegment(k[1])
          BY <3>1, <5>1 DEF FollowUp
        <5>4. PublishAudio(t, k[1])
          BY <1>2, <2>4, <3>1 DEF PublishStage
        <5> QED BY <5>1, <5>2, <5>3, <5>4 DEF Mixing
      <4> PICK s \in Segments : s = k[1]
        BY <4>1
      <4>2. Done(Check(s)) /\ ~Done(Mixing(s))
        BY <2>2, <3>1, <4>1 DEF WalkedTo, CheckedStage
      <4>3. RowsInv' /\ EndRows'
        BY <3>0, <4>1, <4>2, AudioKeepsRows
      <4>4. /\ UNCHANGED <<epoch, retention, pipeState>>
            /\ stage' = [stage EXCEPT ![Mixing(s)] = "completed"]
        BY <4>1 DEF PublishAudio, WriteStage, workRow, Mixing
      <4> DEFINE D == {r \in Segments : Done(Mixing(r))'}
      <4>5. s \in D /\ \A r \in Segments : r < s => r \in D
        BY <3>0, <4>4, Names DEF Ahead, Done, TypeOK, StoreTypeOK
      <4> HIDE DEF D
      <4>6. /\ j # Finalizing => \A r \in Segments : r < j[1] => r \in D
            /\ j = Finalizing => \A r \in Segments : r \in D
            /\ j[2] \notin {"tts", "mixing"}
        BY <4>1, <4>5, AfterIsAhead
      <4>7. HolderInv(w)'
        BY <2>2, <3>0, <4>4, <4>6, HolderMoves DEF D, Ahead
      <4> QED BY <4>3, <4>7
    <3>2. CASE k[2] = "fact_checking"
      <4>1. k # LeadResearch
        BY <3>2 DEF LeadResearch
      <4>2. /\ k[1] \in Segments /\ k = Check(k[1]) /\ j = <<k[1], "tts">>
            /\ PublishVerifiedText(t, k[1])
        <5>1. k[1] \in Segments /\ k = <<k[1], "fact_checking">>
          BY <2>4, <3>2, <4>1 DEF Stages, LeadResearch, Finalizing
        <5>2. j = <<k[1], "tts">>
          BY <3>2, <4>1 DEF FollowUp
        <5>3. PublishVerifiedText(t, k[1])
          BY <1>2, <2>4, <3>2 DEF PublishStage
        <5> QED BY <5>1, <5>2, <5>3 DEF Check
      <4> PICK s \in Segments : s = k[1]
        BY <4>2
      <4>3. ~Done(Check(s))
        BY <2>2, <3>2, <4>2 DEF CheckedStage
      <4>4. RowsInv' /\ EndRows'
        BY <4>2, <4>3, VerifiedTextKeepsRows
      <4>5. /\ UNCHANGED <<epoch, retention, pipeState>>
            /\ stage' = [stage EXCEPT ![Check(s)] = "completed"]
        BY <4>2 DEF PublishVerifiedText, WriteStage, workRow, projRow, Check
      <4>6. Ahead(s)' /\ Done(Check(s))'
        BY <3>0, <4>5, Names DEF Ahead, Done, TypeOK, StoreTypeOK
      <4>7. j[1] = s /\ j[2] = "tts" /\ j # Finalizing
        BY <4>2 DEF Finalizing
      <4>8. HolderInv(w)'
        BY <2>2, <3>0, <4>5, <4>6, <4>7, HolderMoves
      <4> QED BY <4>4, <4>8
    <3>3. CASE k[2] \in {"research", "text_generation", "tts"}
      <4>1. RecordStageTransition(t, k, "completed")
        BY <1>2, <2>4, <3>3 DEF PublishStage
      <4>2. RowsInv' /\ EndRows'
        BY <3>3, <4>1, CompleteKeepsRows
      <4>3. /\ UNCHANGED <<epoch, retention, pipeState>>
            /\ stage' = [stage EXCEPT ![k] = "completed"]
        BY <4>1 DEF RecordStageTransition, WriteStage, workRow, projRow
      <4>4. \A i \in Stages : i # k => (Done(i)' <=> Done(i))
        BY <4>3 DEF Done, TypeOK, StoreTypeOK
      <4>5. \A r \in Segments : /\ k # Mixing(r) /\ k # Check(r)
                                /\ Done(Mixing(r))' <=> Done(Mixing(r))
                                /\ Done(Check(r))' <=> Done(Check(r))
        <5>1. \A r \in Segments : k # Mixing(r) /\ k # Check(r)
          BY <3>3 DEF Mixing, Check
        <5> QED BY <4>4, <5>1, Names
      <4>6. CASE k[2] = "tts"
        <5>1. k # LeadResearch
          BY <4>6 DEF LeadResearch
        <5>2. k[1] \in Segments /\ j = <<k[1], "mixing">>
          BY <2>4, <4>6, <5>1, PlanType DEF FollowUp
        <5> PICK s \in Segments : s = k[1]
          BY <5>2
        <5>3. j = Mixing(s) /\ j[1] = s /\ j[2] = "mixing" /\ j # Finalizing
          BY <5>2 DEF Mixing, Finalizing
        <5>4. Done(Check(s)) /\ ~Done(Mixing(s))
          BY <2>2, <4>6 DEF WalkedTo, CheckedStage, Mixing
        <5>5. Ahead(s)' /\ Done(Check(s))' /\ ~Done(Mixing(s))'
          BY <3>0, <4>5, <5>4 DEF Ahead
        <5>6. ~Done(j)'
          <6>1. Done(j)' <=> Done(Mixing(s))'
            BY <5>3 DEF Done
          <6> QED BY <5>5, <6>1
        <5>7. HolderInv(w)'
          BY <2>2, <3>0, <4>3, <5>3, <5>5, <5>6, HolderMoves
        <5> QED BY <4>2, <5>7
      <4>7. CASE k[2] # "tts"
        <5>1. /\ j # Finalizing /\ j[2] \notin {"tts", "mixing"}
              /\ j[1] = 1 \/ j[1] = k[1]
          <6>1. CASE k = LeadResearch
            BY <6>1 DEF FollowUp, LeadResearch, Finalizing
          <6>2. CASE k # LeadResearch
            <7>1. j \in {<<k[1], "fact_checking">>, <<k[1], "text_generation">>}
              BY <3>3, <4>7, <6>2 DEF FollowUp
            <7> QED BY <7>1 DEF Finalizing
          <6> QED BY <6>1, <6>2
        <5>2. Ahead(j[1])'
          <6>1. Ahead(1)' /\ Ahead(k[1])'
            BY <3>0, <4>5 DEF Ahead, Segments
          <6> QED BY <5>1, <6>1
        <5>3. HolderInv(w)'
          BY <2>2, <3>0, <4>3, <5>1, <5>2, HolderMoves
        <5> QED BY <4>2, <5>3
      <4> QED BY <4>6, <4>7
    <3> QED BY <1>2, <2>4, <3>1, <3>2, <3>3 DEF PublishStage
  <2> QED BY <2>3, <2>4
<1> QED BY <1>1, <1>2 DEF FinishStage

\* The holder never finds a published episode: that ended its lease.
LEMMA SettlingOrder ==
  ASSUME TypeOK, OrderInv, NEW w \in Workers, Ready(w) \/ Cancel(w) \/ Fail(w)
  PROVE  RowsInv' /\ EndRows' /\ HolderInv(w)'
<1>1. CASE RaiseFenceLost(w)
  BY <1>1, OutsideKeepsRows, HolderLeaves DEF RaiseFenceLost
<1>2. CASE Ready(w) /\ Fence(token[w])
  <2>1. pc[w] = "ready"
    BY <1>2 DEF Ready, In
  <2>2. ~deleted /\ pipeState = "leased" /\ Done(Finalizing)
    BY <1>2, <2>1, FencedIsHolder DEF WalkedTo
  <2> QED BY <2>2, UnsettledIsUnpublished
<1>3. CASE Cancel(w)
  <2>1. HolderInv(w)'
    BY <1>3, HolderLeaves DEF Cancel
  <2>2. CASE SettleCancellation(token[w])
    <3>1. /\ ~deleted /\ pipeState = "leased" /\ disposition = "cancellation_requested"
          /\ ObserveCancellation /\ UNCHANGED attempt
      BY <2>2 DEF SettleCancellation, CanSettleCancellation, LeaseHeld
    <3> QED BY <2>1, <3>1, CancellationKeepsRows
  <2>3. CASE UNCHANGED storeVars
    BY <2>1, <2>3, OutsideKeepsRows
  <2> QED BY <1>3, <2>2, <2>3 DEF Cancel
<1>4. CASE Fail(w)
  <2>1. HolderInv(w)'
    BY <1>4, HolderLeaves DEF Fail
  <2>2. SettleFailure(token[w]) /\ pc[w] = "fail"
    BY <1>4 DEF Fail, In
  <2>3. ~deleted /\ epoch = token[w] => pipeState = "leased"
    BY <2>2 DEF OrderInv, HolderInv
  <2> QED BY <2>1, <2>2, <2>3, FailureKeepsRows
<1> QED BY <1>1, <1>2, <1>3, <1>4 DEF Ready

-----------------------------------------------------------------------------

\* Every step keeps the invariant.
LEMMA OrderStep ==
  ASSUME TypeOK, OrderInv, [Next]_vars
  PROVE  OrderInv'
<1>1. ASSUME NEW w \in Workers, WorkerStep(w) \/ StepRaises(w) \/ Crash(w)
      PROVE  OrderInv'
  <2>1. RowsInv' /\ EndRows' /\ HolderInv(w)'
    BY <1>1, QuietOrder, CheckOrder, StartOrder, AttemptOrder, FinishOrder, SettlingOrder
       DEF WorkerStep
  <2>2. OneHolder'
    BY <1>1, WorkerKeepsOneHolder DEF OrderInv
  <2>3. \A v \in Workers \ {w} : HolderInv(v)'
    BY <1>1, OtherHolders
  <2> QED BY <2>1, <2>2, <2>3 DEF OrderInv
<1>2. ASSUME NEW w \in Workers, Claim(w)
      PROVE  OrderInv'
  <2>1. RowsInv' /\ EndRows'
    BY <1>2, OutsideKeepsRows DEF Claim
  <2> QED BY <1>2, <2>1, ClaimKeepsHolders DEF OrderInv
<1>3. CASE \/ OrphanedLeaseExpires \/ LeaseExpiresUnderHolder
           \/ ClientCancels \/ ClientDeletes \/ UNCHANGED vars
  <2>1. /\ UNCHANGED workerVars
        /\ LeaseExpires \/ RequestCancellation \/ DeleteProject \/ UNCHANGED storeVars
    BY <1>3 DEF OrphanedLeaseExpires, LeaseExpiresUnderHolder, ClientCancels, ClientDeletes,
       vars
  <2>2. OneHolder' /\ \A v \in Workers : HolderInv(v)'
    BY <2>1, OutsideKeepsHolders
  <2>3. RowsInv' /\ EndRows'
    BY <2>1, OutsideKeepsRows, DeletionKeepsRows
  <2> QED BY <2>2, <2>3 DEF OrderInv
<1> QED BY <1>1, <1>2, <1>3 DEF Next

\* The rows of a generation agree in every reachable state.
THEOREM OrderInvariant == Spec => []OrderInv
<1>1. TypeOK /\ OrderInv /\ [Next]_vars => OrderInv'
  BY OrderStep
<1> QED BY <1>1, OrderInit, TypeCorrect, PTL DEF Spec

\* A segment in speech synthesis has validated provenance, and a ready one
\* exactly one artifact row.
THEOREM SegmentsAreBacked == Spec => []PublishedSegmentsAreBacked
  BY OrderInvImplies, OrderInvariant, TypeCorrect, PTL

\* No provider is asked anything for a segment before the one ahead of it is
\* published.
THEOREM SegmentsAreOrdered == Spec => []SegmentsInOrder
  BY OrderInvImplies, OrderInvariant, TypeCorrect, PTL

\* The episode is downloadable only whole, and its stage is completed only
\* together with the work.
THEOREM EpisodeIsWhole == Spec => []FinalIsComplete
  BY OrderInvImplies, OrderInvariant, TypeCorrect, PTL

-----------------------------------------------------------------------------
(***************************************************************************)
(* The two ways in which the work row and the generation row part.  A      *)
(* running worker is superseded only after a stall and a second claim      *)
(* (StallInv), and only such a worker fails the generation under a lease   *)
(* that is not its own.                                                    *)
(***************************************************************************)
Superseded == stalls > 0 /\ epoch > 1

StallInv ==
  \A w \in Workers : Running(w) =>
    /\ token[w] >= 1 /\ pipeState # "pending"
    /\ token[w] # epoch => Superseded
    /\ token[w] = epoch /\ pipeState = "leased" /\ expired => stalls > 0

Partings ==
  /\ pipeState = "failed" => disposition # "active"
  /\ outcome = "failed" /\ ~deleted =>
       pipeState = "failed" \/ (pipeState = "leased" /\ Superseded)

EndsInv == StallInv /\ Partings

\* What a transaction of the holder of token t does to the two rows.
LEMMA TransactionsPart ==
  ASSUME NEW t, NEW o, NEW k, WorkerTransaction(t, o, k)
  PROVE  /\ UNCHANGED <<epoch, leaseAge, retention>>
         /\ pipeState' \in {"leased", "pending"} => pipeState' = pipeState
         /\ pipeState' = "failed" =>
              \/ disposition' # "active"
              \/ pipeState = "failed" /\ disposition = "active"
         /\ outcome' = "failed" /\ ~deleted =>
              \/ pipeState' = "failed"
              \/ pipeState' = pipeState /\ outcome = "failed"
              \/ pipeState' = pipeState /\ disposition = "active" /\ epoch # t
<1> USE DEF WriteAttempt, WriteStage, Terminate, workRow, genRow, projRow
<1>1. CASE ReserveAttempt(t, o) \/ DispatchAttempt(t, o) \/ CompleteAttempt(t, o)
  BY <1>1 DEF ReserveAttempt, DispatchAttempt, CompleteAttempt
<1>2. CASE FailAttemptUnknown(t, o) \/ SettleCancellation(t)
  BY <1>2 DEF FailAttemptUnknown, SettleCancellation, ObserveCancellation
<1>3. CASE RecordStageTransition(t, k, "running") \/ SettleReady(t)
  BY <1>3 DEF RecordStageTransition, SettleReady
<1>4. CASE PublishStage(t, k)
  BY <1>4 DEF PublishStage, PublishFinal, PublishAudio, PublishVerifiedText,
       RecordStageTransition
<1>5. CASE SettleFailure(t)
  BY <1>5 DEF SettleFailure
<1> QED BY <1>1, <1>2, <1>3, <1>4, <1>5 DEF WorkerTransaction

\* A worker's step lets the two rows part only if the worker is superseded.
LEMMA WorkersPart ==
  ASSUME TypeOK, OrderInv, EndsInv, NEW w \in Workers,
         WorkerStep(w) \/ StepRaises(w) \/ Crash(w)
  PROVE  EndsInv'
<1>1. /\ UNCHANGED <<epoch, leaseAge, retention>>
      /\ pipeState' \in {"leased", "pending"} => pipeState' = pipeState
      /\ pipeState' = "failed" =>
           \/ disposition' # "active"
           \/ pipeState = "failed" /\ disposition = "active"
      /\ outcome' = "failed" /\ ~deleted =>
           \/ pipeState' = "failed"
           \/ pipeState' = pipeState /\ outcome = "failed"
           \/ pipeState' = pipeState /\ disposition = "active" /\ epoch # token[w]
  <2>1. CASE UNCHANGED storeVars
    BY <2>1 DEF storeVars, workRow, genRow, projRow
  <2>2. CASE \E o \in Operations, k \in Stages : WorkerTransaction(token[w], o, k)
    BY <2>2, TransactionsPart
  <2> QED BY <2>1, <2>2, WorkerSteps
<1>2. UNCHANGED stalls
  BY DEF WorkerStep, StepRaises, Crash, Hydrate, Renew, CheckStage, StartStage, Reserve,
     Dispatch, CallProvider, CallReturned, AbandonAttempt, Complete, LocalAudio,
     FinishStage, Ready, Cancel, Failing, Fail, In, faultVars
<1>3. /\ Running(w)
      /\ \A v \in Workers : Running(v)' => Running(v) /\ token'[v] = token[v]
  <2>1. /\ Running(w)
        /\ Running(w)' => token'[w] = token[w]
    BY Moves DEF Goto, MoveTo, Stop, Running, TypeOK, WorkerTypeOK
  <2> QED BY <2>1, WorkerKeeps DEF Running
<1>4. StallInv'
  BY <1>1, <1>2, <1>3 DEF EndsInv, StallInv, Superseded, expired
<1>5. /\ disposition = "active" /\ ~deleted =>
           pipeState \in {"pending", "leased", "failed"}
      /\ pipeState # "pending"
  BY <1>3 DEF OrderInv, EndRows, SettledTogether, EndsInv, StallInv, TypeOK, StoreTypeOK,
     PipeStates
<1>6. epoch # token[w] => Superseded
  BY <1>3 DEF EndsInv, StallInv
<1>7. Superseded' <=> Superseded
  BY <1>1, <1>2 DEF Superseded
<1>8. Partings'
  BY <1>1, <1>5, <1>6, <1>7 DEF EndsInv, Partings, deleted
<1> QED BY <1>4, <1>8 DEF EndsInv

\* A claim supersedes a worker only if its lease ran out under it.
LEMMA ClaimsPart ==
  ASSUME TypeOK, OrderInv, EndsInv, NEW w \in Workers, Claim(w)
  PROVE  EndsInv'
<1>1. /\ Claimable /\ pc[w] = "idle"
      /\ pipeState' = "leased" /\ epoch' = epoch + 1 /\ leaseAge' = "current"
      /\ pc' = [pc EXCEPT ![w] = "hydrate"] /\ token' = [token EXCEPT ![w] = epoch + 1]
      /\ UNCHANGED <<disposition, outcome, retention, stalls>>
  BY DEF Claim, ClaimWork, genRow, projRow, faultVars
<1>2. /\ epoch \in Nat /\ stalls \in Nat
      /\ \A v \in Workers : token[v] \in Nat
  BY WorkerContext DEF TypeOK, StoreTypeOK
<1>3. token'[w] = epoch + 1
  BY <1>1 DEF TypeOK, WorkerTypeOK
<1>4. ASSUME NEW v \in Workers \ {w}, Running(v)'
      PROVE  token'[v] = token[v] /\ token[v] >= 1 /\ token[v] <= epoch /\ Superseded'
  <2>1. Running(v) /\ token'[v] = token[v]
    BY <1>1, <1>4 DEF Running, TypeOK, WorkerTypeOK
  <2>2. token[v] >= 1 /\ token[v] <= epoch /\ pipeState # "pending"
    BY <2>1 DEF EndsInv, StallInv, OrderInv, OneHolder
  <2>3. stalls > 0
    BY <1>1, <2>1, <2>2 DEF Claimable, EndsInv, StallInv, Superseded
  <2>4. epoch' > 1
    BY <1>1, <1>2, <2>2
  <2> QED BY <1>1, <2>1, <2>2, <2>3, <2>4 DEF Superseded
<1>5. StallInv'
  <2> SUFFICES ASSUME NEW v \in Workers, Running(v)'
               PROVE  /\ token'[v] >= 1 /\ pipeState' # "pending"
                      /\ token'[v] # epoch' => Superseded'
                      /\ leaseAge' # "expired"
    BY DEF StallInv, expired
  <2>1. CASE v = w
    BY <1>1, <1>2, <1>3, <2>1
  <2>2. CASE v # w
    BY <1>1, <1>2, <1>4, <2>2
  <2> QED BY <2>1, <2>2
<1>6. outcome = "failed" /\ ~deleted => pipeState = "leased" /\ Superseded
  BY <1>1 DEF EndsInv, Partings, Claimable
<1>7. Superseded => Superseded'
  BY <1>1, <1>2 DEF Superseded
<1>8. Partings'
  BY <1>1, <1>6, <1>7 DEF Partings, deleted
<1> QED BY <1>5, <1>8 DEF EndsInv

\* The clock and the client let them part only as the faults are counted.
LEMMA OutsidePart ==
  ASSUME TypeOK, OrderInv, EndsInv,
         \/ OrphanedLeaseExpires \/ LeaseExpiresUnderHolder
         \/ ClientCancels \/ ClientDeletes \/ UNCHANGED vars
  PROVE  EndsInv'
<1>0. stalls \in Nat
  BY DEF TypeOK
<1>1. CASE OrphanedLeaseExpires \/ LeaseExpiresUnderHolder
  <2>1. /\ UNCHANGED <<pipeState, epoch, disposition, outcome, retention, pc, token>>
        /\ \/ ~HolderRuns /\ stalls' = stalls
           \/ stalls' = stalls + 1
    BY <1>1 DEF OrphanedLeaseExpires, LeaseExpiresUnderHolder, LeaseExpires, genRow, projRow,
       workerVars, faultVars
  <2>2. Superseded => Superseded'
    BY <1>0, <2>1 DEF Superseded
  <2>3. ASSUME NEW w \in Workers, Running(w)', token[w] = epoch
        PROVE  stalls' > 0
    BY <1>0, <2>1, <2>3 DEF HolderRuns, Running
  <2>4. StallInv'
    BY <2>1, <2>2, <2>3 DEF EndsInv, StallInv, Running
  <2>5. Partings'
    BY <2>1, <2>2 DEF EndsInv, Partings, deleted
  <2> QED BY <2>4, <2>5 DEF EndsInv
<1>2. CASE ClientCancels
  <2>1. /\ UNCHANGED <<pipeState, epoch, leaseAge, outcome, retention, pc, token, stalls>>
        /\ disposition' # "active"
    BY <1>2 DEF ClientCancels, RequestCancellation, workRow, projRow, workerVars, faultVars
  <2> QED BY <2>1 DEF EndsInv, StallInv, Partings, Superseded, Running, expired, deleted
<1>3. CASE ClientDeletes
  <2>1. /\ UNCHANGED <<epoch, pc, token, stalls>>
        /\ pipeState' = "absent" /\ retention' = "deleted"
    BY <1>3 DEF ClientDeletes, DeleteProject, workerVars, faultVars
  <2> QED BY <2>1 DEF EndsInv, StallInv, Partings, Superseded, Running, expired, deleted
<1>4. CASE UNCHANGED vars
  BY <1>4 DEF vars, storeVars, workRow, genRow, projRow, workerVars, faultVars, EndsInv,
     StallInv, Partings, Superseded, Running, expired, deleted
<1> QED BY <1>1, <1>2, <1>3, <1>4

\* The work row and the generation row end together, but for an exception after
\* a request to cancel and an exception of a superseded worker.
THEOREM EndsAgree == Spec => []WorkAndGenerationAgree
<1>1. Init => EndsInv
  BY DEF Init, StoreInit, EndsInv, StallInv, Partings, Running
<1>2. TypeOK /\ OrderInv /\ EndsInv /\ [Next]_vars => EndsInv'
  BY WorkersPart, ClaimsPart, OutsidePart DEF Next
<1>3. TypeOK /\ OrderInv /\ EndsInv => WorkAndGenerationAgree
  BY DEF TypeOK, StoreTypeOK, Dispositions, OrderInv, EndRows, SettledTogether, EndsInv,
     Partings, Superseded, WorkAndGenerationAgree
<1> QED BY <1>1, <1>2, <1>3, OrderInvariant, TypeCorrect, PTL DEF Spec

-----------------------------------------------------------------------------
(***************************************************************************)
(* A publication is made once.  A stage that publishes audio is started    *)
(* once, for the worker that starts it has found it pending and a stage    *)
(* left running is refused; so one worker at most makes its files, fenced  *)
(* or not.                                                                 *)
(***************************************************************************)

\* The stage that publishes the audio of a segment or of the project.
Pub(s) == IF s = Project THEN Finalizing ELSE Mixing(s)

Publishing(w, s) == at[w] = Pub(s) /\ pc[w] \in {"audio", "finish"}

\* On the way to starting one: its row has been looked at already.
ToPublish(w) ==
  \/ at[w][2] = "tts" /\ pc[w] \in Busy
  \/ pc[w] = "start" /\ \E s \in Scopes : at[w] = Pub(s)

PublicationRow(s) ==
  \/ stage[Pub(s)] \in {"pending", "running", "completed"}
  \/ stage[Pub(s)] = "cancelled" /\ disposition = "terminal"

StartedBy(w, s) ==
  Publishing(w, s) =>
    /\ stage[Pub(s)] \in {"running", "cancelled"}
    /\ s = Project => \A r \in Segments : Done(Mixing(r))

FoundPending(w) ==
  ToPublish(w) /\ token[w] = epoch /\ disposition = "active"
    => stage[CheckedStage(at[w])] = "pending"

AudioPlace(w) == pc[w] = "audio" => at[w][2] = "tts" \/ \E s \in Scopes : at[w] = Pub(s)

StartedOnce ==
  /\ \A w \in Workers : AudioPlace(w)
  /\ ~deleted =>
       /\ \A s \in Scopes : PublicationRow(s)
       /\ \A w \in Workers, s \in Scopes : StartedBy(w, s)
       /\ \A w \in Workers : FoundPending(w)
       /\ \A s \in Scopes, v, w \in Workers :
            Publishing(v, s) /\ Publishing(w, s) => v = w

LEMMA PubTypes ==
  /\ \A s \in Scopes : Pub(s) \in Stages /\ Pub(s) \notin Operations
  /\ \A r, s \in Scopes : Pub(r) = Pub(s) <=> r = s
  /\ \A s \in Scopes : Pub(s)[1] = s /\ Pub(s)[2] # "tts" /\ CheckedStage(Pub(s)) = Pub(s)
  /\ \A r \in Segments : r \in Scopes /\ Pub(r) = Mixing(r) /\ r # Project
  /\ Pub(Project) = Finalizing /\ Project \in Scopes
  /\ \A k \in Stages : k \in Operations \/ \E s \in Scopes : k = Pub(s)
  /\ \A k \in Stages : k[2] = "tts" => \E s \in Scopes : CheckedStage(k) = Pub(s)
  /\ \A k \in Stages : k[2] = "mixing" => k[1] \in Segments /\ k = Pub(k[1])
<1>1. \A r \in Segments : r \in Scopes /\ Pub(r) = Mixing(r) /\ r # Project
  BY DEF Scopes, Pub, Segments, Project
<1>2. Pub(Project) = Finalizing /\ Project \in Scopes
  BY DEF Pub, Scopes
<1>3. \A s \in Scopes : s \in Segments \/ s = Project
  BY DEF Scopes
<1>4. \A s \in Scopes : Pub(s) \in Stages /\ Pub(s) \notin Operations
  BY <1>1, <1>2, <1>3, Names, PlanType
<1>5. \A r, s \in Scopes : Pub(r) = Pub(s) <=> r = s
  BY <1>1, <1>2, <1>3, Names
<1>6. \A s \in Scopes : Pub(s)[1] = s /\ Pub(s)[2] # "tts" /\ CheckedStage(Pub(s)) = Pub(s)
  BY <1>1, <1>2, <1>3 DEF Mixing, Finalizing, CheckedStage
<1>7. \A k \in Stages : k \in Operations \/ \E s \in Scopes : k = Pub(s)
  <2> TAKE k \in Stages
  <2>1. CASE k = Finalizing
    BY <1>2, <2>1
  <2>2. CASE \E s \in Segments : k = <<s, "mixing">>
    BY <1>1, <2>2 DEF Mixing
  <2>3. CASE k # Finalizing /\ ~\E s \in Segments : k = <<s, "mixing">>
    BY <2>3 DEF Stages, Operations
  <2> QED BY <2>1, <2>2, <2>3
<1>8. \A k \in Stages : k[2] = "tts" => \E s \in Scopes : CheckedStage(k) = Pub(s)
  <2> SUFFICES ASSUME NEW k \in Stages, k[2] = "tts"
               PROVE  \E s \in Scopes : CheckedStage(k) = Pub(s)
    OBVIOUS
  <2>1. k[1] \in Segments
    BY PlanType DEF LeadResearch, Finalizing
  <2> QED BY <1>1, <2>1 DEF CheckedStage, Mixing
<1>9. \A k \in Stages : k[2] = "mixing" => k[1] \in Segments /\ k = Pub(k[1])
  <2> SUFFICES ASSUME NEW k \in Stages, k[2] = "mixing"
               PROVE  k[1] \in Segments /\ k = <<k[1], "mixing">>
    BY <1>1 DEF Mixing
  <2> QED BY DEF Stages, LeadResearch, Finalizing
<1> QED BY <1>1, <1>2, <1>4, <1>5, <1>6, <1>7, <1>8, <1>9

LEMMA StartedOnceInit == Init => StartedOnce
  BY PubTypes DEF Init, StoreInit, StartedOnce, AudioPlace, PublicationRow, StartedBy,
     Publishing, FoundPending, ToPublish, Busy, LeadResearch, Project

\* The publication rows stay, or are cancelled when the generation ends.
RowsStay ==
  /\ UNCHANGED <<epoch, retention>>
  /\ \A s \in Scopes :
       \/ stage'[Pub(s)] = stage[Pub(s)]
       \/ stage[Pub(s)] # "completed" /\ stage'[Pub(s)] = "cancelled" /\ disposition' = "terminal"
  /\ disposition' = "active" => disposition = "active"
  /\ disposition = "terminal" => disposition' = "terminal"

OthersStay(w) ==
  \A v \in Workers \ {w} : pc'[v] = pc[v] /\ at'[v] = at[v] /\ token'[v] = token[v]

\* Nothing is disturbed by a worker that does not come to make files.
LEMMA NobodyComes ==
  ASSUME TypeOK, StartedOnce, NEW w \in Workers, RowsStay, OthersStay(w),
         \A s \in Scopes : Publishing(w, s)' => Publishing(w, s),
         AudioPlace(w)', ~deleted => FoundPending(w)'
  PROVE  StartedOnce'
<1>1. \A v \in Workers : AudioPlace(v)'
  BY DEF StartedOnce, AudioPlace, OthersStay
<1> SUFFICES ASSUME ~deleted
             PROVE  /\ \A s \in Scopes : PublicationRow(s)'
                    /\ \A v \in Workers, s \in Scopes : StartedBy(v, s)'
                    /\ \A v \in Workers : FoundPending(v)'
                    /\ \A s \in Scopes, v, u \in Workers :
                         Publishing(v, s)' /\ Publishing(u, s)' => v = u
  BY <1>1 DEF StartedOnce, RowsStay, deleted
<1>2. \A s \in Scopes : PublicationRow(s)'
  BY DEF StartedOnce, PublicationRow, RowsStay
<1>3. \A v \in Workers, s \in Scopes : Publishing(v, s)' => Publishing(v, s)
  BY DEF OthersStay, Publishing
<1>4. \A v \in Workers, s \in Scopes : StartedBy(v, s)'
  <2>1. \A r \in Segments : Done(Mixing(r)) => Done(Mixing(r))'
    BY PubTypes DEF Done, RowsStay
  <2> QED BY <1>3, <2>1 DEF StartedOnce, StartedBy, RowsStay
<1>5. ASSUME NEW v \in Workers, v # w PROVE FoundPending(v)'
  <2>1. pc'[v] = pc[v] /\ at'[v] = at[v] /\ token'[v] = token[v] /\ epoch' = epoch
    BY <1>5 DEF OthersStay, RowsStay
  <2>2. ToPublish(v) => \E s \in Scopes : CheckedStage(at[v]) = Pub(s)
    BY PubTypes, WorkerContext DEF ToPublish
  <2>3. ToPublish(v)' => ToPublish(v)
    BY <2>1 DEF ToPublish
  <2>4. CheckedStage(at[v])' = CheckedStage(at[v])
    BY <2>1 DEF CheckedStage
  <2> QED BY <2>1, <2>2, <2>3, <2>4 DEF StartedOnce, FoundPending, RowsStay
<1>6. \A s \in Scopes, v, u \in Workers : Publishing(v, s)' /\ Publishing(u, s)' => v = u
  BY <1>3 DEF StartedOnce
<1> QED BY <1>2, <1>4, <1>5, <1>6

\* The holder starts a stage that publishes: it found it pending, so nobody is
\* making its files.
LEMMA PublisherStarts ==
  ASSUME TypeOK, OrderInv, StartedOnce, NEW w \in Workers, OthersStay(w),
         NEW s \in Scopes, at[w] = Pub(s), pc[w] = "start",
         RecordStageTransition(token[w], Pub(s), "running"), Goto(w, "audio")
  PROVE  StartedOnce'
<1>1. /\ ~deleted /\ disposition = "active" /\ token[w] = epoch /\ WalkedTo(w)
      /\ UNCHANGED <<epoch, retention, disposition>>
      /\ stage' = [stage EXCEPT ![Pub(s)] = "running"]
  BY FencedIsHolder DEF RecordStageTransition, Fence, CanRenew, WriteStage, workRow, projRow
<1>2. /\ pc'[w] = "audio" /\ at'[w] = at[w]
      /\ \A v \in Workers \ {w} : pc'[v] = pc[v] /\ at'[v] = at[v] /\ token'[v] = token[v]
  BY DEF Goto, TypeOK, WorkerTypeOK, OthersStay
<1>3. /\ stage'[Pub(s)] = "running"
      /\ \A r \in Scopes \ {s} : stage'[Pub(r)] = stage[Pub(r)]
  BY <1>1, PubTypes DEF TypeOK, StoreTypeOK
<1>4. stage[Pub(s)] = "pending"
  <2>1. ToPublish(w)
    BY DEF ToPublish
  <2> QED BY <1>1, <2>1, PubTypes DEF StartedOnce, FoundPending
<1>5. \A v \in Workers : ~Publishing(v, s)
  BY <1>1, <1>4 DEF StartedOnce, StartedBy
<1>6. \A v \in Workers, r \in Scopes : Publishing(v, r)' =>
        IF v = w THEN r = s ELSE r # s /\ Publishing(v, r)
  <2> SUFFICES ASSUME NEW v \in Workers, NEW r \in Scopes, Publishing(v, r)'
               PROVE  IF v = w THEN r = s ELSE r # s /\ Publishing(v, r)
    OBVIOUS
  <2>1. CASE v = w
    <3>1. Pub(r) = Pub(s)
      BY <1>2, <2>1 DEF Publishing
    <3> QED BY <2>1, <3>1, PubTypes
  <2>2. CASE v # w
    <3>1. Publishing(v, r)
      BY <1>2, <2>2 DEF Publishing
    <3> QED BY <1>5, <2>2, <3>1
  <2> QED BY <2>1, <2>2
<1>7. \A r \in Scopes : PublicationRow(r)'
  BY <1>1, <1>3 DEF StartedOnce, PublicationRow
<1>8. \A r \in Segments : Done(Mixing(r)) => Done(Mixing(r))'
  BY <1>3, <1>4, PubTypes DEF Done
<1>9. \A v \in Workers, r \in Scopes : StartedBy(v, r)'
  <2> SUFFICES ASSUME NEW v \in Workers, NEW r \in Scopes, Publishing(v, r)'
               PROVE  /\ stage'[Pub(r)] \in {"running", "cancelled"}
                      /\ r = Project => \A q \in Segments : Done(Mixing(q))'
    BY DEF StartedBy
  <2>1. CASE v = w
    <3>1. r = s
      BY <1>6, <2>1
    <3>2. s = Project => \A q \in Segments : Done(Mixing(q))
      BY <1>1, PubTypes DEF WalkedTo
    <3> QED BY <1>3, <1>8, <3>1, <3>2
  <2>2. CASE v # w
    BY <1>1, <1>3, <1>6, <1>8, <2>2 DEF StartedOnce, StartedBy
  <2> QED BY <2>1, <2>2
<1>10. \A v \in Workers : FoundPending(v)'
  <2> SUFFICES ASSUME NEW v \in Workers, ToPublish(v)', token'[v] = epoch'
               PROVE  FALSE
    BY DEF FoundPending
  <2>1. CASE v = w
    <3>1. at'[w][2] # "tts"
      BY <1>2, PubTypes
    <3> QED BY <1>2, <2>1, <3>1 DEF ToPublish
  <2>2. CASE v # w
    <3>1. pc[v] # "idle" /\ token[v] = token[w]
      BY <1>1, <1>2, <2>2 DEF ToPublish, Busy
    <3> QED BY <2>2, <3>1 DEF OrderInv, OneHolder, Running
  <2> QED BY <2>1, <2>2
<1>11. \A v \in Workers : AudioPlace(v)'
  <2>1. AudioPlace(w)'
    BY <1>2 DEF AudioPlace
  <2> QED BY <1>2, <2>1 DEF StartedOnce, AudioPlace
<1>12. \A r \in Scopes, v, u \in Workers : Publishing(v, r)' /\ Publishing(u, r)' => v = u
  <2> SUFFICES ASSUME NEW r \in Scopes, NEW v \in Workers, NEW u \in Workers,
                      Publishing(v, r)', Publishing(u, r)', v # u
               PROVE  FALSE
    OBVIOUS
  <2>1. v # w /\ u # w
    BY <1>6
  <2>2. Publishing(v, r) /\ Publishing(u, r)
    BY <1>6, <2>1
  <2> QED BY <1>1, <2>2 DEF StartedOnce
<1> QED BY <1>7, <1>9, <1>10, <1>11, <1>12 DEF StartedOnce

\* The holder completes a stage that publishes: nobody makes its files any more.
LEMMA PublisherEnds ==
  ASSUME TypeOK, OrderInv, StartedOnce, NEW w \in Workers, OthersStay(w),
         NEW s \in Scopes, Publishing(w, s), Fence(token[w]),
         UNCHANGED <<epoch, retention>>,
         stage' = [stage EXCEPT ![Pub(s)] = "completed"],
         disposition' \in {disposition, "terminal"},
         pc'[w] \in {"idle", "check", "renew"}
  PROVE  StartedOnce'
<1>1. ~deleted /\ disposition = "active" /\ token[w] = epoch /\ Running(w)
  BY DEF Fence, CanRenew, LeaseHeld, Running, Publishing
<1>2. \A v \in Workers \ {w} : pc'[v] = pc[v] /\ at'[v] = at[v] /\ token'[v] = token[v]
  BY DEF OthersStay
<1>3. /\ stage'[Pub(s)] = "completed"
      /\ \A r \in Scopes \ {s} : stage'[Pub(r)] = stage[Pub(r)]
  BY PubTypes DEF TypeOK, StoreTypeOK
<1>4. \A v \in Workers, r \in Scopes : Publishing(v, r)' => r # s /\ Publishing(v, r)
  <2> SUFFICES ASSUME NEW v \in Workers, NEW r \in Scopes, Publishing(v, r)'
               PROVE  r # s /\ Publishing(v, r)
    OBVIOUS
  <2>1. v # w
    BY DEF Publishing
  <2>2. Publishing(v, r)
    BY <1>2, <2>1 DEF Publishing
  <2> QED BY <1>1, <2>1, <2>2 DEF StartedOnce
<1>5. \A r \in Scopes : PublicationRow(r)'
  BY <1>1, <1>3 DEF StartedOnce, PublicationRow
<1>6. \A r \in Segments : Done(Mixing(r)) => Done(Mixing(r))'
  BY <1>3, PubTypes DEF Done
<1>7. \A v \in Workers, r \in Scopes : StartedBy(v, r)'
  BY <1>1, <1>3, <1>4, <1>6 DEF StartedOnce, StartedBy
<1>8. \A v \in Workers : FoundPending(v)'
  <2> SUFFICES ASSUME NEW v \in Workers, ToPublish(v)', token'[v] = epoch'
               PROVE  FALSE
    BY DEF FoundPending
  <2>1. v # w
    BY DEF ToPublish, Busy
  <2>2. pc[v] # "idle" /\ token[v] = token[w]
    BY <1>1, <1>2, <2>1 DEF ToPublish, Busy
  <2> QED BY <1>1, <2>1, <2>2 DEF OrderInv, OneHolder, Running
<1>9. \A v \in Workers : AudioPlace(v)'
  BY <1>2 DEF StartedOnce, AudioPlace
<1>10. \A r \in Scopes, v, u \in Workers : Publishing(v, r)' /\ Publishing(u, r)' => v = u
  BY <1>1, <1>4 DEF StartedOnce
<1> QED BY <1>5, <1>7, <1>8, <1>9, <1>10 DEF StartedOnce

\* A worker that stays at its stage makes files only where it made some, or for
\* speech; and starts a stage only if it found it pending.
LEMMA GoesQuietly ==
  ASSUME TypeOK, StartedOnce, NEW w \in Workers, NEW p, Goto(w, p), RowsStay, OthersStay(w),
         p = "audio" => at[w][2] = "tts",
         p \in {"audio", "finish"} => pc[w] \in {"audio", "finish"} \/ at[w] \in Operations,
         \/ p \notin Busy
         \/ pc[w] \in Busy /\ p # "start"
         \/ /\ p = "start"
            /\ ~deleted /\ disposition = "active" =>
                 \A s \in Scopes : CheckedStage(at[w]) = Pub(s) => stage[Pub(s)] = "pending"
  PROVE  StartedOnce'
<1>1. /\ pc'[w] = p /\ at'[w] = at[w] /\ token'[w] = token[w] /\ at[w] \in Stages
      /\ epoch' = epoch
  BY WorkerContext DEF Goto, TypeOK, WorkerTypeOK, RowsStay
<1>2. \A s \in Scopes : Publishing(w, s)' => Publishing(w, s)
  BY <1>1, PubTypes DEF Publishing
<1>3. AudioPlace(w)'
  BY <1>1 DEF AudioPlace
<1>4. ASSUME ~deleted PROVE FoundPending(w)'
  <2> SUFFICES ASSUME ToPublish(w)', token[w] = epoch, disposition' = "active"
               PROVE  stage'[CheckedStage(at[w])] = "pending"
    BY <1>1 DEF FoundPending, CheckedStage
  <2>1. disposition = "active" /\ disposition' # "terminal"
    BY DEF RowsStay
  <2>2. PICK s \in Scopes : CheckedStage(at[w]) = Pub(s)
    BY <1>1, PubTypes DEF ToPublish
  <2>3. stage[Pub(s)] = "pending"
    <3>1. CASE pc[w] \in Busy /\ p # "start"
      <4>1. ToPublish(w)
        BY <1>1, <3>1 DEF ToPublish
      <4> QED BY <1>4, <2>1, <2>2, <4>1 DEF StartedOnce, FoundPending
    <3>2. CASE p = "start" /\ ~(pc[w] \in Busy /\ p # "start")
      BY <1>4, <2>1, <2>2, <3>2 DEF Busy
    <3>3. p \in Busy
      BY <1>1 DEF ToPublish, Busy
    <3> QED BY <3>1, <3>2, <3>3
  <2> QED BY <2>1, <2>2, <2>3 DEF RowsStay
<1> QED BY <1>2, <1>3, <1>4, NobodyComes

\* A worker that moves to the next stage has yet to look at it or to start it.
LEMMA MovesQuietly ==
  ASSUME TypeOK, StartedOnce, NEW w \in Workers, NEW k \in Stages, MoveTo(w, k), RowsStay,
         OthersStay(w),
         k[2] = "mixing" /\ ~deleted /\ token[w] = epoch /\ disposition = "active"
           => stage[k] = "pending"
  PROVE  StartedOnce'
<1>1. /\ pc'[w] = EntryPhase(k) /\ at'[w] = k /\ token'[w] = token[w] /\ epoch' = epoch
      /\ EntryPhase(k) \in {"start", "renew", "check"}
      /\ EntryPhase(k) = "start" => k[2] = "mixing"
  BY DEF MoveTo, TypeOK, WorkerTypeOK, RowsStay, EntryPhase
<1>2. (\A s \in Scopes : ~Publishing(w, s)') /\ AudioPlace(w)'
  BY <1>1 DEF Publishing, AudioPlace
<1>3. ASSUME ~deleted PROVE FoundPending(w)'
  <2> SUFFICES ASSUME ToPublish(w)', token[w] = epoch, disposition' = "active"
               PROVE  stage'[CheckedStage(k)] = "pending"
    BY <1>1 DEF FoundPending, CheckedStage
  <2>1. disposition = "active" /\ disposition' # "terminal"
    BY DEF RowsStay
  <2>2. k[2] = "mixing"
    BY <1>1 DEF ToPublish, Busy
  <2>3. PICK s \in Scopes : k = Pub(s) /\ CheckedStage(k) = Pub(s)
    BY <2>2, PubTypes
  <2>4. stage[Pub(s)] = "pending"
    BY <1>3, <2>1, <2>2, <2>3
  <2> QED BY <2>1, <2>3, <2>4 DEF RowsStay
<1> QED BY <1>2, <1>3, NobodyComes

LEMMA EndsQuietly ==
  ASSUME TypeOK, StartedOnce, NEW w \in Workers, Stop(w), RowsStay, OthersStay(w)
  PROVE  StartedOnce'
<1>1. pc'[w] = "idle"
  BY DEF Stop, TypeOK, WorkerTypeOK
<1>2. (\A s \in Scopes : ~Publishing(w, s)') /\ AudioPlace(w)' /\ FoundPending(w)'
  BY <1>1 DEF Publishing, AudioPlace, FoundPending, ToPublish, Busy
<1> QED BY <1>2, NobodyComes

LEMMA StoreStays ==
  ASSUME UNCHANGED storeVars
  PROVE  RowsStay /\ UNCHANGED stage
  BY DEF storeVars, workRow, genRow, resultRows, projRow, RowsStay

LEMMA OthersStand ==
  ASSUME TypeOK, NEW w \in Workers, WorkerStep(w) \/ StepRaises(w) \/ Crash(w)
  PROVE  OthersStay(w)
  BY WorkerKeeps DEF OthersStay

\* Steps that read, compute, call a provider or fail.
LEMMA QuietOnce ==
  ASSUME TypeOK, StartedOnce, NEW w \in Workers, OthersStay(w),
         \/ Hydrate(w) \/ Renew(w) \/ LocalAudio(w) \/ CallProvider(w) \/ CallReturned(w)
         \/ Failing(w) \/ StepRaises(w) \/ Crash(w)
  PROVE  StartedOnce'
<1>1. RowsStay
  BY StoreStays DEF Hydrate, Renew, LocalAudio, CallProvider, CallReturned, Failing,
     StepRaises, Crash, RaiseFenceLost
<1>2. CASE Stop(w)
  BY <1>1, <1>2, EndsQuietly
<1>3. ASSUME NEW p, Goto(w, p), p \notin Busy
      PROVE  StartedOnce'
  BY <1>1, <1>3, GoesQuietly DEF Busy
<1>4. ASSUME NEW p, Goto(w, p), pc[w] \in Busy, p \notin {"start", "audio"},
             p = "finish" => pc[w] = "audio"
      PROVE  StartedOnce'
  BY <1>1, <1>4, GoesQuietly
<1>5. CASE Hydrate(w) \/ Renew(w)
  <2>1. Goto(w, "check") \/ Goto(w, "cancel")
    BY <1>5 DEF Hydrate, Renew, RaiseFenceLost
  <2> QED BY <1>3, <2>1 DEF Busy
<1>6. CASE LocalAudio(w)
  <2>1. pc[w] = "audio" /\ (Goto(w, "finish") \/ Goto(w, "cancel"))
    BY <1>6 DEF LocalAudio, RaiseFenceLost, In
  <2> QED BY <1>3, <1>4, <2>1 DEF Busy
<1>7. CASE CallProvider(w) \/ CallReturned(w)
  <2>1. pc[w] \in Busy
    BY <1>7 DEF CallProvider, CallReturned, In, Busy
  <2>2. \/ Goto(w, "returned") \/ Goto(w, "abandon_raised") \/ Goto(w, "complete")
        \/ Goto(w, "abandon_lost")
    BY <1>7 DEF CallProvider, CallReturned
  <2> QED BY <1>4, <2>1, <2>2
<1>8. CASE Failing(w) \/ Crash(w)
  <2>1. Stop(w) \/ Goto(w, "fail")
    BY <1>8 DEF Failing, Crash
  <2> QED BY <1>2, <1>3, <2>1 DEF Busy
<1>9. CASE StepRaises(w)
  <2>1. Goto(w, "failing") \/ (pc[w] = "returned" /\ Goto(w, "abandon_raised"))
    BY <1>9 DEF StepRaises
  <2> QED BY <1>3, <1>4, <2>1 DEF Busy
<1> QED BY <1>5, <1>6, <1>7, <1>8, <1>9

\* A stage is gone into only if it was found pending: a row left running is
\* refused, and a cancelled or failed one belongs to a generation that has ended.
LEMMA CheckOnce ==
  ASSUME TypeOK, StartedOnce, NEW w \in Workers, OthersStay(w), CheckStage(w)
  PROVE  StartedOnce'
<1>1. UNCHANGED storeVars /\ pc[w] = "check" /\ at[w] \in Stages
  BY WorkerContext DEF CheckStage, Raise, In
<1>2. RowsStay
  BY <1>1, StoreStays
<1>3. CASE Goto(w, "failing") \/ Goto(w, "ready")
  BY <1>2, <1>3, GoesQuietly DEF Busy
<1>4. CASE stage[CheckedStage(at[w])] \in {"pending", "failed", "cancelled"} /\ Goto(w, "start")
  <2>1. ASSUME ~deleted, disposition = "active", NEW s \in Scopes, CheckedStage(at[w]) = Pub(s)
        PROVE  stage[Pub(s)] = "pending"
    <3>1. PublicationRow(s)
      BY <2>1 DEF StartedOnce
    <3>2. stage[Pub(s)] \in {"pending", "failed", "cancelled"}
      BY <1>4, <2>1
    <3> QED BY <2>1, <3>1, <3>2 DEF PublicationRow
  <2> QED BY <1>2, <1>4, <2>1, GoesQuietly
<1>5. CASE at[w] # Finalizing
           /\ MoveTo(w, IF at[w][2] = "tts" THEN AfterSegment(at[w][1]) ELSE FollowUp(at[w]))
  <2> PICK k \in Stages : k = IF at[w][2] = "tts" THEN AfterSegment(at[w][1]) ELSE FollowUp(at[w])
    BY <1>1, <1>5, PlanType DEF LeadResearch
  <2>1. k[2] # "mixing"
    BY DEF FollowUp, AfterSegment, Finalizing, LeadResearch
  <2> QED BY <1>2, <1>5, <2>1, MovesQuietly
<1> QED BY <1>3, <1>4, <1>5 DEF CheckStage, Raise

LEMMA StartOnce ==
  ASSUME TypeOK, OrderInv, StartedOnce, NEW w \in Workers, OthersStay(w), StartStage(w)
  PROVE  StartedOnce'
<1>1. pc[w] = "start" /\ at[w] \in Stages
  BY WorkerContext DEF StartStage, In
<1>2. CASE RaiseFenceLost(w)
  BY <1>2, StoreStays, GoesQuietly DEF RaiseFenceLost, Busy
<1>3. CASE at[w] \in Operations /\ RecordStageTransition(token[w], at[w], "running")
           /\ Goto(w, "reserve")
  <2>1. /\ stage' = [stage EXCEPT ![at[w]] = "running"]
        /\ UNCHANGED <<epoch, retention, disposition>>
    BY <1>3 DEF RecordStageTransition, WriteStage, workRow, projRow
  <2>2. RowsStay
    BY <1>3, <2>1, PubTypes DEF RowsStay, TypeOK, StoreTypeOK
  <2> QED BY <1>1, <1>3, <2>2, GoesQuietly DEF Busy
<1>4. CASE at[w] \notin Operations /\ RecordStageTransition(token[w], at[w], "running")
           /\ Goto(w, "audio")
  <2>1. PICK s \in Scopes : at[w] = Pub(s)
    BY <1>1, <1>4, PubTypes
  <2> QED BY <1>1, <1>4, <2>1, PublisherStarts
<1> QED BY <1>2, <1>3, <1>4 DEF StartStage

LEMMA AttemptOnce ==
  ASSUME TypeOK, StartedOnce, NEW w \in Workers, OthersStay(w),
         Reserve(w) \/ Dispatch(w) \/ Complete(w) \/ AbandonAttempt(w)
  PROVE  StartedOnce'
<1>1. pc[w] \in Busy /\ at[w] \in Operations
  BY WorkerContext DEF Reserve, Dispatch, Complete, AbandonAttempt, In, ProviderPhases, Busy
<1>2. RowsStay
  <2>1. CASE UNCHANGED storeVars
    BY <2>1, StoreStays
  <2>2. CASE \/ ReserveAttempt(token[w], at[w]) \/ DispatchAttempt(token[w], at[w])
             \/ CompleteAttempt(token[w], at[w])
    BY <2>2 DEF ReserveAttempt, DispatchAttempt, CompleteAttempt, WriteAttempt, workRow,
       genRow, projRow, RowsStay
  <2>3. CASE FailAttemptUnknown(token[w], at[w])
    <3>1. UNCHANGED <<epoch, retention>> /\ disposition' = "terminal"
      BY <2>3 DEF FailAttemptUnknown, ObserveCancellation, Terminate
    <3>2. CASE ObserveCancellation
      BY <3>1, <3>2, PubTypes DEF ObserveCancellation, RowsStay, TypeOK, StoreTypeOK, StageStates,
         StartedOnce, PublicationRow, FailAttemptUnknown, CanFailUnknown
    <3>3. CASE stage' = [stage EXCEPT ![at[w]] = IF @ = "completed" THEN "completed" ELSE "failed"]
      BY <1>1, <3>1, <3>3, PubTypes DEF RowsStay, TypeOK, StoreTypeOK
    <3> QED BY <2>3, <3>2, <3>3 DEF FailAttemptUnknown
  <2> QED BY <2>1, <2>2, <2>3 DEF Reserve, Dispatch, Complete, AbandonAttempt, RaiseFenceLost,
          Raise
<1>3. PICK p : /\ Goto(w, p) /\ p \in Phases /\ p # "start"
               /\ p = "audio" => at[w][2] = "tts"
  BY <1>1 DEF Reserve, Dispatch, Complete, AbandonAttempt, RaiseFenceLost, Raise, Phases
<1> QED BY <1>1, <1>2, <1>3, GoesQuietly

LEMMA SettlingOnce ==
  ASSUME TypeOK, OrderInv, StartedOnce, NEW w \in Workers, OthersStay(w),
         Ready(w) \/ Cancel(w) \/ Fail(w)
  PROVE  StartedOnce'
<1>1. CASE RaiseFenceLost(w)
  BY <1>1, StoreStays, GoesQuietly DEF RaiseFenceLost, Busy
<1>2. CASE Ready(w) /\ Fence(token[w])
  <2>1. UNCHANGED <<epoch, retention, stage>> /\ disposition' = "terminal" /\ Stop(w)
    BY <1>2 DEF Ready, SettleReady, Terminate, resultRows
  <2> QED BY <2>1, EndsQuietly DEF RowsStay
<1>3. CASE Cancel(w)
  <2>1. RowsStay
    <3>1. CASE UNCHANGED storeVars
      BY <3>1, StoreStays
    <3>2. CASE SettleCancellation(token[w])
      <4>1. ~deleted /\ ObserveCancellation
        BY <3>2 DEF SettleCancellation, CanSettleCancellation
      <4>2. UNCHANGED <<epoch, retention>> /\ disposition' = "terminal"
        BY <4>1 DEF ObserveCancellation, Terminate
      <4> QED BY <4>1, <4>2, PubTypes DEF ObserveCancellation, RowsStay, StartedOnce, PublicationRow
    <3> QED BY <1>3, <3>1, <3>2 DEF Cancel
  <2> QED BY <1>3, <2>1, EndsQuietly DEF Cancel
<1>4. CASE Fail(w)
  <2>1. /\ UNCHANGED <<epoch, retention, stage>> /\ disposition' \in {disposition, "terminal"}
        /\ Stop(w)
    BY <1>4 DEF Fail, SettleFailure, Terminate, genRow, resultRows
  <2> QED BY <2>1, EndsQuietly DEF RowsStay
<1> QED BY <1>1, <1>2, <1>3, <1>4 DEF Ready

LEMMA FinishOnce ==
  ASSUME TypeOK, OrderInv, StartedOnce, NEW w \in Workers, OthersStay(w), FinishStage(w)
  PROVE  StartedOnce'
<1> PICK k \in Stages : k = at[w]
  BY WorkerContext
<1> PICK t \in Nat : t = token[w]
  BY WorkerContext
<1>1. pc[w] = "finish" /\ pc[w] \in Busy
  BY DEF FinishStage, In, Busy
<1>2. CASE RaiseFenceLost(w) \/ Raise(w)
  BY <1>2, StoreStays, GoesQuietly DEF RaiseFenceLost, Raise, Busy
<1>3. CASE Fence(t) /\ PublishStage(t, k) /\ k = Finalizing /\ Stop(w)
  <2>1. PublishFinal(t)
    BY <1>3 DEF PublishStage, Finalizing
  <2>2. /\ stage' = [stage EXCEPT ![Pub(Project)] = "completed"]
        /\ UNCHANGED <<epoch, retention>> /\ disposition' = "terminal"
    BY <2>1, PubTypes DEF PublishFinal, Terminate
  <2>3. pc'[w] = "idle" /\ Publishing(w, Project)
    BY <1>1, <1>3, PubTypes DEF Stop, TypeOK, WorkerTypeOK, Publishing
  <2> QED BY <1>3, <2>2, <2>3, PubTypes, PublisherEnds
<1>4. CASE Fence(t) /\ PublishStage(t, k) /\ k # Finalizing /\ MoveTo(w, FollowUp(k))
  <2> PICK j \in Stages : j = FollowUp(k)
    BY <1>4, PlanType
  <2>1. CASE k[2] = "mixing"
    <3> PICK s \in Segments : s = k[1] /\ k = Pub(s) /\ s \in Scopes
      BY <2>1, PubTypes
    <3>1. PublishAudio(t, s)
      BY <1>4, <2>1 DEF PublishStage
    <3>2. /\ stage' = [stage EXCEPT ![Pub(s)] = "completed"]
          /\ UNCHANGED <<epoch, retention, disposition>>
      BY <3>1, PubTypes DEF PublishAudio, WriteStage, workRow, Mixing
    <3>3. j[2] # "mixing" /\ Publishing(w, s)
      <4>1. j = AfterSegment(s)
        BY <2>1 DEF FollowUp, LeadResearch
      <4> QED BY <1>1, <4>1 DEF AfterSegment, Finalizing, Publishing
    <3>4. pc'[w] \in {"check", "renew"}
      BY <1>4, <3>3 DEF MoveTo, EntryPhase, TypeOK, WorkerTypeOK
    <3> QED BY <1>4, <3>2, <3>3, <3>4, PublisherEnds
  <2>2. CASE k[2] # "mixing"
    <3>1. /\ stage' = [stage EXCEPT ![k] = "completed"]
          /\ UNCHANGED <<epoch, retention, disposition>>
      <4>1. CASE k[2] = "fact_checking"
        <5>1. PublishVerifiedText(t, k[1]) /\ k # LeadResearch
          BY <1>4, <4>1 DEF PublishStage, LeadResearch
        <5>2. k = <<k[1], "fact_checking">>
          BY <1>4, <4>1, <5>1 DEF Stages, Finalizing
        <5> QED BY <5>1, <5>2 DEF PublishVerifiedText, WriteStage, workRow, projRow
      <4>2. CASE k[2] \in {"research", "text_generation", "tts"}
        <5>1. RecordStageTransition(t, k, "completed")
          BY <1>4, <4>2 DEF PublishStage
        <5> QED BY <5>1 DEF RecordStageTransition, WriteStage, workRow, projRow
      <4> QED BY <1>4, <2>2, <4>1, <4>2 DEF PublishStage
    <3>2. \A s \in Scopes : k # Pub(s)
      BY <1>4, <2>2 DEF Pub, Mixing
    <3>3. RowsStay
      BY <3>1, <3>2, PubTypes DEF RowsStay, TypeOK, StoreTypeOK
    <3>4. j[2] = "mixing" => k[2] = "tts" /\ j = CheckedStage(k)
      BY <2>2 DEF FollowUp, CheckedStage, AfterSegment, Finalizing
    <3>5. j[2] = "mixing" /\ ~deleted /\ token[w] = epoch /\ disposition = "active"
            => stage[j] = "pending"
      BY <1>1, <3>4 DEF StartedOnce, FoundPending, ToPublish
    <3> QED BY <1>4, <3>3, <3>5, MovesQuietly
  <2> QED BY <2>1, <2>2
<1> QED BY <1>2, <1>3, <1>4 DEF FinishStage

\* Nobody else has the epoch of a new claim, and its worker is at the beginning.
LEMMA ClaimOnce ==
  ASSUME TypeOK, OrderInv, StartedOnce, NEW w \in Workers, Claim(w)
  PROVE  StartedOnce'
<1>1. /\ at[w] = LeadResearch /\ epoch \in Nat
      /\ epoch' = epoch + 1 /\ pc' = [pc EXCEPT ![w] = "hydrate"]
      /\ token' = [token EXCEPT ![w] = epoch + 1]
      /\ UNCHANGED <<at, retention, stage, disposition>>
  BY DEF Claim, ClaimWork, OrderInv, OneHolder, Running, TypeOK, StoreTypeOK, projRow, genRow,
     resultRows
<1>2. /\ pc'[w] = "hydrate" /\ at' = at
      /\ \A v \in Workers \ {w} : pc'[v] = pc[v] /\ token'[v] = token[v]
  BY <1>1 DEF TypeOK, WorkerTypeOK
<1>3. \A v \in Workers, s \in Scopes : Publishing(v, s)' => Publishing(v, s)
  <2> SUFFICES ASSUME NEW v \in Workers, NEW s \in Scopes, Publishing(v, s)'
               PROVE  Publishing(v, s)
    OBVIOUS
  <2>1. v # w
    BY <1>2 DEF Publishing
  <2> QED BY <1>2, <2>1 DEF Publishing
<1>4. \A v \in Workers : AudioPlace(v)'
  BY <1>2 DEF StartedOnce, AudioPlace
<1>5. \A v \in Workers : FoundPending(v)'
  <2> SUFFICES ASSUME NEW v \in Workers, ToPublish(v)', token'[v] = epoch'
               PROVE  FALSE
    BY DEF FoundPending
  <2>1. v # w /\ pc'[v] # "idle"
    BY <1>2 DEF ToPublish, Busy
  <2>2. Running(v) /\ token[v] = epoch + 1 /\ token[v] \in Nat
    BY <1>1, <1>2, <2>1, WorkerContext DEF Running
  <2> QED BY <1>1, <2>2 DEF OrderInv, OneHolder
<1>6. ASSUME ~deleted
      PROVE  /\ \A s \in Scopes : PublicationRow(s)'
             /\ \A v \in Workers, s \in Scopes : StartedBy(v, s)'
             /\ \A s \in Scopes, v, u \in Workers :
                  Publishing(v, s)' /\ Publishing(u, s)' => v = u
  BY <1>1, <1>3, <1>6 DEF StartedOnce, PublicationRow, StartedBy, Done
<1> QED BY <1>1, <1>4, <1>5, <1>6 DEF StartedOnce, deleted

LEMMA OutsideOnce ==
  ASSUME TypeOK, StartedOnce, UNCHANGED workerVars,
         LeaseExpires \/ RequestCancellation \/ DeleteProject \/ UNCHANGED storeVars
  PROVE  StartedOnce'
<1>1. \A w \in Workers : AudioPlace(w)'
  BY DEF StartedOnce, AudioPlace, workerVars
<1>2. CASE deleted'
  BY <1>1, <1>2 DEF StartedOnce
<1>3. CASE ~deleted'
  <2>1. /\ ~deleted /\ UNCHANGED <<epoch, stage>>
        /\ \/ disposition' = disposition
           \/ disposition = "active" /\ disposition' = "cancellation_requested"
    <3>1. CASE LeaseExpires
      BY <1>3, <3>1 DEF LeaseExpires, deleted, genRow, resultRows, projRow
    <3>2. CASE RequestCancellation
      BY <1>3, <3>2 DEF RequestCancellation, workRow, resultRows
    <3>3. CASE DeleteProject
      BY <1>3, <3>3 DEF DeleteProject, deleted
    <3>4. CASE UNCHANGED storeVars
      BY <1>3, <3>4 DEF deleted, storeVars, workRow, genRow, resultRows, projRow
    <3> QED BY <3>1, <3>2, <3>3, <3>4
  <2>2. \A w \in Workers, s \in Scopes : Publishing(w, s)' <=> Publishing(w, s)
    BY DEF Publishing, workerVars
  <2>3. \A s \in Scopes : PublicationRow(s)'
    BY <2>1 DEF StartedOnce, PublicationRow
  <2>4. \A w \in Workers, s \in Scopes : StartedBy(w, s)'
    BY <2>1, <2>2 DEF StartedOnce, StartedBy, Done
  <2>5. \A w \in Workers : FoundPending(w)'
    BY <2>1 DEF StartedOnce, FoundPending, ToPublish, CheckedStage, workerVars
  <2> QED BY <1>1, <2>1, <2>2, <2>3, <2>4, <2>5 DEF StartedOnce
<1> QED BY <1>2, <1>3

LEMMA StartedOnceStep ==
  ASSUME TypeOK, OrderInv, StartedOnce, [Next]_vars
  PROVE  StartedOnce'
<1>1. ASSUME NEW w \in Workers, WorkerStep(w) \/ StepRaises(w) \/ Crash(w)
      PROVE  StartedOnce'
  BY <1>1, OthersStand, QuietOnce, CheckOnce, StartOnce, AttemptOnce, FinishOnce,
     SettlingOnce DEF WorkerStep
<1>2. ASSUME NEW w \in Workers, Claim(w)
      PROVE  StartedOnce'
  BY <1>2, ClaimOnce
<1>3. CASE \/ OrphanedLeaseExpires \/ LeaseExpiresUnderHolder
           \/ ClientCancels \/ ClientDeletes \/ UNCHANGED vars
  BY <1>3, OutsideOnce DEF OrphanedLeaseExpires, LeaseExpiresUnderHolder, ClientCancels,
     ClientDeletes, vars
<1> QED BY <1>1, <1>2, <1>3 DEF Next

\* While the project is kept, at most one worker makes the files that a stage
\* publishes, and none once they are published - although making them asks for
\* no lease (_blocking_audio_operation, _finalize).
THEOREM PublicationsAreStartedOnce == Spec => []StartedOnce
<1>1. TypeOK /\ OrderInv /\ StartedOnce /\ [Next]_vars => StartedOnce'
  BY StartedOnceStep
<1> QED BY <1>1, StartedOnceInit, OrderInvariant, TypeCorrect, PTL DEF Spec

-----------------------------------------------------------------------------
(***************************************************************************)
(* The workers, the scheduler, the faults and the client implement the     *)
(* promise of GenerationLifecycle, for every number of segments, workers,  *)
(* claims and faults.  Publication looks at no segment but its own; that   *)
(* segments are delivered one by one and the episode last follows from     *)
(* OrderInv.                                                               *)
(***************************************************************************)

\* A step the client does not see.
LEMMA Invisible ==
  ASSUME UNCHANGED <<disposition, outcome, retention, finalReady>>,
         \A s \in Segments : segStatus'[s] = "ready" <=> segStatus[s] = "ready"
  PROVE  UNCHANGED Lifecycle!lifecycleVars
  BY DEF Lifecycle!lifecycleVars, LifecyclePhase, deleted

LEMMA LifecycleInit == Init => Lifecycle!Init
<1> SUFFICES ASSUME Init PROVE Lifecycle!Init
  OBVIOUS
<1>1. /\ disposition = "active" /\ retention = "kept" /\ finalReady = 0
      /\ \A s \in Segments : segStatus[s] = "queued"
  BY DEF Init, StoreInit
<1> QED BY <1>1 DEF Lifecycle!Init, LifecyclePhase, deleted

-----------------------------------------------------------------------------
(***************************************************************************)
(* The end of a generation.                                                *)
(***************************************************************************)

\* A failure ends an active generation, or is not seen.
LEMMA FailureImplements ==
  ASSUME TypeOK, NEW t, SettleFailure(t)
  PROVE  Lifecycle!Next \/ UNCHANGED Lifecycle!lifecycleVars
<1>1. UNCHANGED <<segStatus, finalReady, retention>>
  BY DEF SettleFailure, resultRows
<1>2. CASE disposition = "active" /\ ~deleted
  <2>1. disposition' = "terminal" /\ outcome' = "failed"
    BY <1>2 DEF SettleFailure, Terminate
  <2>2. Lifecycle!Fail
    BY <1>1, <1>2, <2>1 DEF Lifecycle!Fail, LifecyclePhase, deleted
  <2> QED BY <2>2 DEF Lifecycle!Next
<1>3. CASE disposition # "active"
  <2>1. UNCHANGED <<disposition, outcome>>
    BY <1>3 DEF SettleFailure, genRow
  <2> QED BY <1>1, <2>1, Invisible
<1>4. CASE deleted
  BY <1>1, <1>4 DEF Lifecycle!lifecycleVars, LifecyclePhase, deleted
<1> QED BY <1>2, <1>3, <1>4

\* The observation of a cancellation.
LEMMA ObservationImplements ==
  ASSUME TypeOK, ~deleted, disposition = "cancellation_requested", ObserveCancellation
  PROVE  Lifecycle!Next
<1>1. /\ disposition' = "terminal" /\ outcome' = "cancelled"
      /\ UNCHANGED <<finalReady, retention>>
      /\ \A s \in Segments : segStatus'[s] = "ready" <=> segStatus[s] = "ready"
  BY DEF ObserveCancellation, Terminate
<1>2. Lifecycle!ObserveCancellation
  BY <1>1 DEF Lifecycle!ObserveCancellation, LifecyclePhase, deleted
<1> QED BY <1>2 DEF Lifecycle!Next

\* An operation whose outcome is not known ends the generation.
LEMMA UnknownImplements ==
  ASSUME TypeOK, NEW t, NEW o \in Operations, FailAttemptUnknown(t, o)
  PROVE  Lifecycle!Next
<1>1. ~deleted
  BY DEF FailAttemptUnknown, CanFailUnknown
<1>2. CASE disposition = "cancellation_requested" /\ ObserveCancellation
  BY <1>1, <1>2, ObservationImplements
<1>3. CASE ~(disposition = "cancellation_requested" /\ ObserveCancellation)
  <2>1. /\ disposition = "active" /\ disposition' = "terminal" /\ outcome' = "failed"
        /\ UNCHANGED <<segStatus, finalReady, retention>>
    BY <1>3 DEF FailAttemptUnknown, Terminate
  <2>2. Lifecycle!Fail
    BY <1>1, <2>1 DEF Lifecycle!Fail, LifecyclePhase, deleted
  <2> QED BY <2>2 DEF Lifecycle!Next
<1> QED BY <1>2, <1>3

-----------------------------------------------------------------------------
(***************************************************************************)
(* Delivery.                                                               *)
(***************************************************************************)

\* What is ready is a prefix of the outline: a segment is delivered when all
\* before it are and none after it is.
LEMMA DeliveredIsAPrefix ==
  ASSUME TypeOK, OrderInv, ~deleted, NEW s \in Segments, Ahead(s), ~Done(Mixing(s))
  PROVE  {r \in Segments : segStatus[r] = "ready"} = 1 .. (s - 1)
<1>1. \A r \in Segments : segStatus[r] = "ready" <=> Done(Mixing(r))
  BY DEF OrderInv, RowsInv, KeptRows, SegmentRows
<1>2. \A r \in Segments : Done(Mixing(r)) => Ahead(r)
  BY DEF OrderInv, RowsInv, KeptRows, RowsInOrder
<1>3. \A r \in Segments : Done(Mixing(r)) <=> r < s
  BY <1>2, NumSegmentsAssumption DEF Ahead, Segments
<1> QED BY <1>1, <1>3, NumSegmentsAssumption DEF Segments

LEMMA PublicationImplements ==
  ASSUME TypeOK, OrderInv, NEW w \in Workers, FinishStage(w)
  PROVE  Lifecycle!Next \/ UNCHANGED Lifecycle!lifecycleVars
<1> PICK k \in Stages : k = at[w]
  BY WorkerContext
<1>1. CASE UNCHANGED storeVars
  BY <1>1, Invisible DEF storeVars, genRow, projRow, resultRows
<1>2. CASE Fence(token[w]) /\ PublishStage(token[w], k)
  <2>1. /\ ~deleted /\ WalkedTo(w) /\ ~Done(CheckedStage(k)) /\ disposition = "active"
        /\ KeptRows
    <3>1. pc[w] = "finish"
      BY DEF FinishStage, In
    <3> QED BY <1>2, <3>1, FencedIsHolder DEF WalkedTo, Busy, Fence, CanRenew, OrderInv,
               RowsInv
  <2>2. CASE k = Finalizing /\ PublishFinal(token[w])
    <3>1. /\ disposition' = "terminal" /\ outcome' = "ready" /\ finalReady' = 1
          /\ UNCHANGED <<segStatus, retention>>
      BY <2>2 DEF PublishFinal, Terminate
    <3>2. \A s \in Segments : segStatus[s] = "ready"
      BY <2>1, <2>2 DEF WalkedTo, KeptRows, SegmentRows
    <3>3. {s \in Segments : segStatus[s] = "ready"} = 1 .. NumSegments
      BY <3>2 DEF Segments
    <3>4. Lifecycle!Finish
      BY <2>1, <3>1, <3>3 DEF Lifecycle!Finish, LifecyclePhase, deleted
    <3> QED BY <3>4 DEF Lifecycle!Next
  <2>3. CASE k[2] = "mixing" /\ PublishAudio(token[w], k[1])
    <3>1. k # LeadResearch /\ k # Finalizing
      BY <2>3 DEF LeadResearch, Finalizing
    <3> PICK s \in Segments : s = k[1]
      BY <3>1, PlanType
    <3>2. k = Mixing(s)
      BY <2>3, <3>1 DEF Stages, Mixing
    <3>3. Ahead(s) /\ ~Done(Mixing(s))
      BY <2>1, <2>3, <3>1, <3>2 DEF WalkedTo, CheckedStage
    <3>4. {r \in Segments : segStatus[r] = "ready"} = 1 .. (s - 1)
      BY <2>1, <3>3, DeliveredIsAPrefix
    <3>5. /\ segStatus' = [segStatus EXCEPT ![s] = "ready"]
          /\ UNCHANGED <<disposition, outcome, finalReady, retention>>
      BY <2>3 DEF PublishAudio, WriteStage
    <3>6. {r \in Segments : segStatus'[r] = "ready"}
            = {r \in Segments : segStatus[r] = "ready"} \cup {s}
      BY <3>5 DEF TypeOK, StoreTypeOK
    <3>7. Lifecycle!Deliver
      BY <2>1, <3>4, <3>5, <3>6 DEF Lifecycle!Deliver, LifecyclePhase, deleted, Segments
    <3> QED BY <3>7 DEF Lifecycle!Next
  <2>4. CASE k[2] = "fact_checking" /\ PublishVerifiedText(token[w], k[1])
    <3>1. k # LeadResearch /\ k # Finalizing
      BY <2>4 DEF LeadResearch, Finalizing
    <3> PICK s \in Segments : s = k[1]
      BY <3>1, PlanType
    <3>2. k = Check(s)
      BY <2>4, <3>1 DEF Stages, Check
    <3>3. segStatus[s] # "ready"
      BY <2>1, <2>4, <3>2 DEF CheckedStage, KeptRows, SegmentRows
    <3>4. /\ segStatus' = [segStatus EXCEPT ![s] = "tts"]
          /\ UNCHANGED <<disposition, outcome, finalReady, retention>>
      BY <2>4 DEF PublishVerifiedText, WriteStage, projRow
    <3>5. \A r \in Segments : segStatus'[r] = "ready" <=> segStatus[r] = "ready"
      BY <3>3, <3>4 DEF TypeOK, StoreTypeOK
    <3> QED BY <3>4, <3>5, Invisible
  <2>5. CASE RecordStageTransition(token[w], k, "completed")
    BY <2>5, Invisible DEF RecordStageTransition, WriteStage, projRow
  <2> QED BY <1>2, <2>2, <2>3, <2>4, <2>5 DEF PublishStage
<1> QED BY <1>1, <1>2 DEF FinishStage, RaiseFenceLost, Raise

-----------------------------------------------------------------------------

\* Every other step of a worker.
LEMMA WorkerImplements ==
  ASSUME TypeOK, OrderInv, NEW w \in Workers, WorkerStep(w) \/ StepRaises(w) \/ Crash(w)
  PROVE  Lifecycle!Next \/ UNCHANGED Lifecycle!lifecycleVars
<1>1. CASE UNCHANGED storeVars
  BY <1>1, Invisible DEF storeVars, genRow, projRow, resultRows
<1>2. CASE FinishStage(w)
  BY <1>2, PublicationImplements
<1>3. CASE StartStage(w) /\ ~UNCHANGED storeVars
  <2>1. RecordStageTransition(token[w], at[w], "running")
    BY <1>3 DEF StartStage, RaiseFenceLost
  <2> QED BY <2>1, Invisible DEF RecordStageTransition, WriteStage, projRow
<1>4. CASE (Reserve(w) \/ Dispatch(w) \/ Complete(w)) /\ ~UNCHANGED storeVars
  <2>1. \/ ReserveAttempt(token[w], at[w]) \/ DispatchAttempt(token[w], at[w])
        \/ CompleteAttempt(token[w], at[w])
    BY <1>4 DEF Reserve, Dispatch, Complete, RaiseFenceLost, Raise
  <2> QED BY <2>1, Invisible DEF ReserveAttempt, DispatchAttempt, CompleteAttempt, WriteAttempt,
             genRow, projRow
<1>5. CASE AbandonAttempt(w) /\ ~UNCHANGED storeVars
  <2>1. at[w] \in Operations /\ FailAttemptUnknown(token[w], at[w])
    BY <1>5, WorkerContext DEF AbandonAttempt, ProviderPhases
  <2> QED BY <2>1, UnknownImplements
<1>6. CASE Cancel(w) /\ ~UNCHANGED storeVars
  BY <1>6, ObservationImplements DEF Cancel, SettleCancellation, CanSettleCancellation
<1>7. CASE Fail(w)
  BY <1>7, FailureImplements DEF Fail
<1>8. CASE Ready(w) /\ ~UNCHANGED storeVars
  <2>1. Fence(token[w]) /\ pc[w] = "ready"
    BY <1>8 DEF Ready, In, RaiseFenceLost
  <2>2. ~deleted /\ pipeState = "leased" /\ Done(Finalizing)
    BY <2>1, FencedIsHolder DEF WalkedTo
  <2> QED BY <2>2, UnsettledIsUnpublished
<1>9. CASE \/ Hydrate(w) \/ Renew(w) \/ CheckStage(w) \/ LocalAudio(w) \/ CallProvider(w)
           \/ CallReturned(w) \/ Failing(w) \/ StepRaises(w) \/ Crash(w)
  BY <1>1, <1>9 DEF Hydrate, Renew, CheckStage, LocalAudio, CallProvider, CallReturned,
     Failing, StepRaises, Crash, RaiseFenceLost, Raise
<1> QED BY <1>1, <1>2, <1>3, <1>4, <1>5, <1>6, <1>7, <1>8, <1>9 DEF WorkerStep

\* The client.
LEMMA ClientImplements ==
  ASSUME TypeOK, OrderInv, RequestCancellation \/ DeleteProject
  PROVE  Lifecycle!Next
<1>1. CASE RequestCancellation
  <2>1. Lifecycle!RequestCancellation
    BY <1>1 DEF RequestCancellation, Lifecycle!RequestCancellation, LifecyclePhase, deleted,
       projRow, resultRows
  <2> QED BY <2>1 DEF Lifecycle!Next
<1>2. CASE DeleteProject
  <2>1. LifecyclePhase # "deleted"
    BY <1>2 DEF DeleteProject, LifecyclePhase, OrderInv, EndRows, TypeOK, StoreTypeOK,
       Dispositions
  <2>2. /\ LifecyclePhase' = "deleted" /\ finalReady' = 0
        /\ {s \in Segments : segStatus'[s] = "ready"} = {}
    BY <1>2 DEF DeleteProject, LifecyclePhase, deleted
  <2>3. Lifecycle!Delete
    BY <2>1, <2>2 DEF Lifecycle!Delete
  <2> QED BY <2>3 DEF Lifecycle!Next
<1> QED BY <1>1, <1>2

\* The promise is kept.
THEOREM PipelineImplementsLifecycle == Spec => ImplementsLifecycle
<1>1. TypeOK /\ OrderInv /\ [Next]_vars => [Lifecycle!Next]_(Lifecycle!lifecycleVars)
  <2> SUFFICES ASSUME TypeOK, OrderInv, [Next]_vars
               PROVE  Lifecycle!Next \/ UNCHANGED Lifecycle!lifecycleVars
    OBVIOUS
  <2>1. CASE \E w \in Workers : WorkerStep(w) \/ StepRaises(w) \/ Crash(w)
    BY <2>1, WorkerImplements
  <2>2. CASE ClientCancels \/ ClientDeletes
    BY <2>2, ClientImplements DEF ClientCancels, ClientDeletes
  <2>3. CASE \/ \E w \in Workers : Claim(w)
             \/ OrphanedLeaseExpires \/ LeaseExpiresUnderHolder \/ UNCHANGED vars
    <3>1. ClaimWork \/ LeaseExpires \/ UNCHANGED storeVars
      BY <2>3 DEF Claim, OrphanedLeaseExpires, LeaseExpiresUnderHolder, vars
    <3> QED BY <3>1, Invisible DEF ClaimWork, LeaseExpires, storeVars, genRow, projRow,
               resultRows
  <2> QED BY <2>1, <2>2, <2>3 DEF Next
<1> QED
  BY <1>1, LifecycleInit, OrderInvariant, TypeCorrect, PTL
  DEF Spec, ImplementsLifecycle, Lifecycle!Spec
=============================================================================
