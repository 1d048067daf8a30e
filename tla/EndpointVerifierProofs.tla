----------------------- MODULE EndpointVerifierProofs -----------------------
(***************************************************************************)
(* What a client may rely on that reads a running project in pieces, for   *)
(* every number of segments, workers, claims and faults: ReaderSpec.  Then *)
(* the live verifier, which is such a reader.                              *)
(*                                                                         *)
(* What a SELECT has read is compared with the rows as they are now.  The  *)
(* rows only grow while the project is kept (DoneLasts), and a completed   *)
(* episode has every stage of the plan completed behind it (PlanInv), so   *)
(* the SELECTs that come later find at least what the earlier ones did.    *)
(*                                                                         *)
(* Last, the verdicts of the verifier that have a cause other than loss:   *)
(* what it remembers is compared with stages that do not go back under     *)
(* their first claim, which nobody follows who meets no fault.             *)
(***************************************************************************)
EXTENDS EndpointVerifier, SegmentPipelineProofs, FiniteSetTheorems

Research(s) == <<s, "research">>
Text(s)     == <<s, "text_generation">>
Speech(s)   == <<s, "tts">>

Completed == {k \in Stages : Done(k)}

\* The stages that come directly before k in the plan of its segment are in D.
Behind(k, D) ==
  \A s \in Segments :
    /\ k = Research(s) => LeadResearch \in D
    /\ k = Text(s)     => Research(s) \in D
    /\ k = Check(s)    => Text(s) \in D
    /\ k = Mixing(s)   => Speech(s) \in D

\* Worker w walks with the current epoch.
Holds(w) == token[w] = epoch /\ pc[w] \notin {"idle", "cancel", "failing", "fail"}

PlanInv ==
  ~deleted =>
    /\ \A k \in Completed : Behind(k, Completed)
    /\ \A w \in Workers : Holds(w) => Behind(at[w], Completed)

-----------------------------------------------------------------------------
(***************************************************************************)
(* The plan.                                                               *)
(***************************************************************************)

LEMMA PlanNames ==
  /\ \A s \in Segments : {Research(s), Text(s), Check(s), Speech(s), Mixing(s)} \subseteq Stages
  /\ \A s, r \in Segments :
       /\ Research(s) = Research(r) <=> s = r
       /\ Text(s) = Text(r) <=> s = r
       /\ Speech(s) = Speech(r) <=> s = r
  /\ \A s, r \in Segments :
       /\ Research(s) \notin {Text(r), Check(r), Speech(r), Mixing(r), LeadResearch, Finalizing}
       /\ Text(s) \notin {Check(r), Speech(r), Mixing(r), LeadResearch, Finalizing}
       /\ Check(s) \notin {Speech(r), LeadResearch, Finalizing}
       /\ Speech(s) \notin {Mixing(r), LeadResearch, Finalizing}
       /\ Mixing(s) # LeadResearch
  /\ LeadResearch # Finalizing
<1>1. \A s \in Segments : {Research(s), Text(s), Check(s), Speech(s), Mixing(s)} \subseteq Stages
  BY DEF Research, Text, Check, Speech, Mixing, Stages
<1>2. \A s \in Segments : s # Project
  BY DEF Segments, Project
<1> QED BY <1>1, <1>2 DEF Research, Text, Check, Speech, Mixing, LeadResearch, Finalizing

\* Every stage is one of the plan.
LEMMA StagesOfThePlan ==
  ASSUME NEW k \in Stages
  PROVE  \/ k \in {LeadResearch, Finalizing}
         \/ \E s \in Segments : k \in {Research(s), Text(s), Check(s), Speech(s), Mixing(s)}
  BY DEF Stages, Research, Text, Check, Speech, Mixing

\* What is behind a checked draft, in a set that has everything behind it.
LEMMA BehindCheck ==
  ASSUME NEW D, \A k \in D : Behind(k, D), NEW s \in Segments, Check(s) \in D
  PROVE  {Text(s), Research(s), LeadResearch} \subseteq D
<1>1. Text(s) \in D
  BY DEF Behind
<1>2. Research(s) \in D
  BY <1>1 DEF Behind
<1>3. LeadResearch \in D
  BY <1>2 DEF Behind
<1> QED BY <1>1, <1>2, <1>3

LEMMA BehindGrows ==
  ASSUME NEW D, NEW E, D \subseteq E, NEW k, Behind(k, D)
  PROVE  Behind(k, E)
  BY DEF Behind

LEMMA BehindNext ==
  ASSUME NEW D, LeadResearch \in D, NEW s \in Segments
  PROVE  Behind(AfterSegment(s), D)
<1>1. CASE s < NumSegments
  <2>1. s + 1 \in Segments /\ AfterSegment(s) = Research(s + 1)
    BY <1>1, NumSegmentsAssumption DEF AfterSegment, Research, Segments
  <2> QED BY <2>1, PlanNames DEF Behind
<1>2. CASE ~(s < NumSegments)
  BY <1>2, PlanNames, Names DEF AfterSegment, Behind
<1> QED BY <1>1, <1>2

\* A worker that follows up on what is done has done what is behind it.
LEMMA BehindFollowUp ==
  ASSUME NEW D, NEW k \in Stages \ {Finalizing}, k \in D,
         k[2] = "mixing" => LeadResearch \in D
  PROVE  Behind(FollowUp(k), D)
<1>1. CASE k = LeadResearch
  <2>1. 1 \in Segments
    BY NumSegmentsAssumption DEF Segments
  <2>2. FollowUp(k) = Research(1)
    BY <1>1 DEF FollowUp, Research, LeadResearch
  <2> QED BY <1>1, <2>1, <2>2, PlanNames DEF Behind
<1>2. ASSUME NEW s \in Segments, k \in {Research(s), Text(s), Check(s), Speech(s), Mixing(s)}
      PROVE  Behind(FollowUp(k), D)
  <2>0. k # LeadResearch /\ k[1] = s
    BY <1>2, PlanNames DEF Research, Text, Check, Speech, Mixing
  <2>1. CASE k = Research(s)
    <3>1. FollowUp(k) = Text(s)
      BY <2>0, <2>1 DEF FollowUp, Research, Text
    <3> QED BY <2>1, <3>1, PlanNames DEF Behind
  <2>2. CASE k = Text(s)
    <3>1. FollowUp(k) = Check(s)
      BY <2>0, <2>2 DEF FollowUp, Text, Check
    <3> QED BY <2>2, <3>1, PlanNames, Names DEF Behind
  <2>3. CASE k = Check(s)
    <3>1. FollowUp(k) = Speech(s)
      BY <2>0, <2>3 DEF FollowUp, Speech, Check
    <3> QED BY <3>1, PlanNames DEF Behind
  <2>4. CASE k = Speech(s)
    <3>1. FollowUp(k) = Mixing(s)
      BY <2>0, <2>4 DEF FollowUp, Speech, Mixing
    <3> QED BY <2>4, <3>1, PlanNames, Names DEF Behind
  <2>5. CASE k = Mixing(s)
    <3>1. FollowUp(k) = AfterSegment(s) /\ k[2] = "mixing"
      BY <2>0, <2>5 DEF FollowUp, Mixing
    <3> QED BY <3>1, BehindNext
  <2> QED BY <1>2, <2>1, <2>2, <2>3, <2>4, <2>5
<1> QED BY <1>1, <1>2, StagesOfThePlan

-----------------------------------------------------------------------------
(***************************************************************************)
(* What a worker's step does to the stages, and where it leaves the worker. *)
(***************************************************************************)

Early == {"hydrate", "renew", "check", "start"}

\* It stays at its stage, and does not come back to its beginning.
Stays(w) ==
  /\ pc[w] \notin {"idle", "cancel", "failing", "fail"}
  /\ at'[w] = at[w] /\ (pc'[w] \in Early => pc[w] \in Early)

\* It leaves a stage that it has found completed.
Passes(w) ==
  /\ pc[w] = "check" /\ at[w] # Finalizing /\ Done(CheckedStage(at[w]))
  /\ at'[w] = IF at[w][2] = "tts" THEN AfterSegment(at[w][1]) ELSE FollowUp(at[w])

Starts(w) ==
  /\ Fence(token[w]) /\ pc[w] = "start" /\ ~Done(CheckedStage(at[w]))
  /\ stage' = [stage EXCEPT ![at[w]] = "running"]
  /\ at'[w] = at[w] /\ pc'[w] \notin Early

Finishes(w) ==
  /\ Fence(token[w]) /\ pc[w] = "finish" /\ ~Done(CheckedStage(at[w]))
  /\ stage' = [stage EXCEPT ![at[w]] = "completed"]
  /\ \/ at[w] # Finalizing /\ at'[w] = FollowUp(at[w])
     \/ ~Holds(w)'

\* It ends the generation, or finds it ended; what is unfinished stays so.
Settles(w) ==
  /\ ~Holds(w)'
  /\ \A k \in Stages :
       \/ stage'[k] = stage[k]
       \/ /\ ~Done(k)
          /\ \/ stage'[k] = "failed"
             \/ stage'[k] = "cancelled" /\ disposition = "cancellation_requested"

LEMMA GoingStays ==
  ASSUME TypeOK, NEW w \in Workers, NEW p, Goto(w, p), p \in Early => pc[w] \in Early,
         pc[w] \notin {"idle", "cancel", "failing", "fail"}
  PROVE  Stays(w) /\ pc'[w] = p
  BY DEF Goto, Stays, TypeOK, WorkerTypeOK

LEMMA LeavingSettles ==
  ASSUME TypeOK, NEW w \in Workers,
         Stop(w) \/ Goto(w, "cancel") \/ Goto(w, "failing") \/ Goto(w, "fail")
  PROVE  ~Holds(w)' /\ (UNCHANGED stage => Settles(w))
<1>1. pc'[w] \in {"idle", "cancel", "failing", "fail"}
  BY DEF Stop, Goto, TypeOK, WorkerTypeOK
<1> QED BY <1>1 DEF Holds, Settles

LEMMA QuietStages ==
  ASSUME TypeOK, NEW w \in Workers,
         \/ Hydrate(w) \/ Renew(w) \/ CheckStage(w) \/ LocalAudio(w) \/ CallProvider(w)
         \/ CallReturned(w) \/ Failing(w) \/ StepRaises(w) \/ Crash(w)
  PROVE  UNCHANGED stage /\ (Stays(w) \/ Passes(w) \/ Settles(w))
<1>1. UNCHANGED stage
  BY DEF Hydrate, Renew, CheckStage, LocalAudio, CallProvider, CallReturned, Failing,
     StepRaises, Crash, RaiseFenceLost, Raise, storeVars, resultRows
<1>2. CASE Hydrate(w) \/ Renew(w) \/ LocalAudio(w) \/ CallProvider(w) \/ CallReturned(w)
  <2>1. \/ Goto(w, "cancel")
        \/ pc[w] \in {"hydrate", "renew"} /\ Goto(w, "check")
        \/ /\ pc[w] \in {"audio", "call", "returned"}
           /\ \E p \in {"finish", "returned", "abandon_raised", "abandon_lost", "complete"} :
                Goto(w, p)
    BY <1>2 DEF Hydrate, Renew, LocalAudio, CallProvider, CallReturned, RaiseFenceLost, In
  <2> QED BY <1>1, <2>1, GoingStays, LeavingSettles DEF Early
<1>3. CASE CheckStage(w)
  <2>1. CASE Raise(w)
    BY <1>1, <2>1, LeavingSettles DEF Raise
  <2>2. CASE Goto(w, "ready") \/ Goto(w, "start")
    BY <1>1, <1>3, <2>2, GoingStays DEF Early, CheckStage, In
  <2>3. CASE /\ Done(CheckedStage(at[w])) /\ at[w] # Finalizing
             /\ MoveTo(w, IF at[w][2] = "tts" THEN AfterSegment(at[w][1]) ELSE FollowUp(at[w]))
    BY <1>1, <1>3, <2>3 DEF Passes, MoveTo, CheckStage, In, TypeOK, WorkerTypeOK
  <2> QED BY <1>3, <2>1, <2>2, <2>3 DEF CheckStage, Done
<1>4. CASE Failing(w) \/ StepRaises(w) \/ Crash(w)
  <2>1. \/ Stop(w) \/ Goto(w, "fail") \/ Goto(w, "failing")
        \/ pc[w] = "returned" /\ Goto(w, "abandon_raised")
    BY <1>4 DEF Failing, StepRaises, Crash
  <2> QED BY <1>1, <2>1, GoingStays, LeavingSettles DEF Early
<1> QED BY <1>1, <1>2, <1>3, <1>4

LEMMA FinishStages ==
  ASSUME TypeOK, OrderInv, NEW w \in Workers, FinishStage(w)
  PROVE  Finishes(w) \/ (UNCHANGED stage /\ Settles(w))
<1>1. CASE RaiseFenceLost(w) \/ Raise(w)
  <2>1. UNCHANGED stage
    BY <1>1 DEF RaiseFenceLost, Raise, storeVars, resultRows
  <2> QED BY <1>1, <2>1, LeavingSettles DEF RaiseFenceLost, Raise
<1>2. CASE /\ Fence(token[w]) /\ PublishStage(token[w], at[w])
           /\ IF at[w] = Finalizing THEN Stop(w) ELSE MoveTo(w, FollowUp(at[w]))
  <2>1. pc[w] = "finish" /\ at[w] \in Stages
    BY WorkerContext DEF FinishStage, In
  <2>2. ~Done(CheckedStage(at[w]))
    BY <1>2, <2>1, FencedIsHolder DEF WalkedTo, Busy
  <2>3. stage' = [stage EXCEPT ![at[w]] = "completed"]
    <3> PICK k \in Stages : k = at[w]
      BY <2>1
    <3>1. CASE k = Finalizing
      BY <1>2, <3>1 DEF PublishStage, PublishFinal, Finalizing
    <3>2. CASE k # Finalizing /\ k[2] = "mixing"
      <4>1. k = <<k[1], "mixing">>
        BY <3>2 DEF Stages, LeadResearch, Finalizing
      <4> QED BY <1>2, <3>2, <4>1 DEF PublishStage, PublishAudio, WriteStage
    <3>3. CASE k # Finalizing /\ k[2] = "fact_checking"
      <4>1. k = <<k[1], "fact_checking">>
        BY <3>3 DEF Stages, LeadResearch, Finalizing
      <4> QED BY <1>2, <3>3, <4>1 DEF PublishStage, PublishVerifiedText, WriteStage
    <3>4. CASE k[2] \in {"research", "text_generation", "tts"} /\ k # Finalizing
      BY <1>2, <3>4 DEF PublishStage, RecordStageTransition, WriteStage
    <3> QED BY <1>2, <3>1, <3>2, <3>3, <3>4 DEF PublishStage
  <2>4. \/ at[w] # Finalizing /\ at'[w] = FollowUp(at[w])
        \/ ~Holds(w)'
    BY <1>2, LeavingSettles DEF MoveTo, TypeOK, WorkerTypeOK
  <2> QED BY <1>2, <2>1, <2>2, <2>3, <2>4 DEF Finishes
<1> QED BY <1>1, <1>2 DEF FinishStage

LEMMA SettlingStages ==
  ASSUME TypeOK, NEW w \in Workers, AbandonAttempt(w) \/ Cancel(w) \/ Fail(w)
  PROVE  Settles(w)
<1>1. ~Holds(w)' /\ (UNCHANGED stage => Settles(w))
  BY LeavingSettles DEF AbandonAttempt, Cancel, Fail
<1>2. CASE UNCHANGED stage
  BY <1>1, <1>2
<1>3. CASE FailAttemptUnknown(token[w], at[w]) /\ at[w] \in Operations
  <2>1. CASE ObserveCancellation /\ disposition = "cancellation_requested"
    BY <1>1, <2>1 DEF ObserveCancellation, Settles, Done
  <2>2. CASE stage' = [stage EXCEPT ![at[w]] = IF @ = "completed" THEN "completed" ELSE "failed"]
    <3>1. \A k \in Stages : \/ stage'[k] = stage[k]
                            \/ ~Done(k) /\ stage'[k] = "failed"
      BY <2>2 DEF Done, TypeOK, StoreTypeOK
    <3> QED BY <1>1, <3>1 DEF Settles
  <2> QED BY <1>3, <2>1, <2>2 DEF FailAttemptUnknown
<1>4. CASE SettleCancellation(token[w])
  BY <1>1, <1>4 DEF SettleCancellation, CanSettleCancellation, ObserveCancellation, Settles, Done
<1>5. CASE SettleFailure(token[w])
  BY <1>2, <1>5 DEF SettleFailure, resultRows
<1>6. pc[w] \in ProviderPhases => at[w] \in Operations
  BY WorkerContext
<1> QED BY <1>2, <1>3, <1>4, <1>5, <1>6 DEF AbandonAttempt, Cancel, Fail, storeVars, resultRows,
           ProviderPhases

LEMMA WorkerStages ==
  ASSUME TypeOK, OrderInv, NEW w \in Workers, WorkerStep(w) \/ StepRaises(w) \/ Crash(w)
  PROVE  \/ UNCHANGED stage /\ (Stays(w) \/ Passes(w) \/ Settles(w))
         \/ Starts(w) \/ Finishes(w) \/ Settles(w)
<1>1. CASE StartStage(w)
  <2>1. CASE RaiseFenceLost(w)
    BY <2>1, LeavingSettles DEF RaiseFenceLost, storeVars, resultRows
  <2>2. CASE /\ RecordStageTransition(token[w], at[w], "running")
             /\ Goto(w, IF at[w] \in Operations THEN "reserve" ELSE "audio")
    <3>1. pc[w] = "start" /\ Fence(token[w]) /\ stage' = [stage EXCEPT ![at[w]] = "running"]
      BY <1>1, <2>2 DEF StartStage, In, RecordStageTransition, WriteStage
    <3>2. ~Done(CheckedStage(at[w]))
      BY <3>1, FencedIsHolder DEF WalkedTo, Busy
    <3>3. at'[w] = at[w] /\ pc'[w] \notin Early
      BY <2>2 DEF Goto, Early, TypeOK, WorkerTypeOK
    <3> QED BY <3>1, <3>2, <3>3 DEF Starts
  <2> QED BY <1>1, <2>1, <2>2 DEF StartStage
<1>2. CASE FinishStage(w)
  BY <1>2, FinishStages
<1>3. CASE AbandonAttempt(w) \/ Cancel(w) \/ Fail(w)
  BY <1>3, SettlingStages
<1>4. CASE Reserve(w) \/ Dispatch(w) \/ Complete(w) \/ Ready(w)
  <2>1. UNCHANGED stage
    BY <1>4 DEF Reserve, Dispatch, Complete, Ready, ReserveAttempt, DispatchAttempt,
       CompleteAttempt, WriteAttempt, SettleReady, RaiseFenceLost, Raise, storeVars, resultRows
  <2>2. \/ Stop(w) \/ Goto(w, "cancel") \/ Goto(w, "failing")
        \/ /\ pc[w] \in {"reserve", "dispatch", "complete"}
           /\ \E p \in {"dispatch", "call", "audio", "finish", "abandon_raised"} : Goto(w, p)
    BY <1>4 DEF Reserve, Dispatch, Complete, Ready, RaiseFenceLost, Raise, In
  <2> QED BY <2>1, <2>2, GoingStays, LeavingSettles DEF Early
<1> QED BY <1>1, <1>2, <1>3, <1>4, QuietStages DEF WorkerStep

-----------------------------------------------------------------------------
(***************************************************************************)
(* Nothing that is completed is undone, but speech that was made for a mix *)
(* that is not (a successor makes it again from the attempt's answer).     *)
(***************************************************************************)

\* The clock, the scheduler and the client.
Outside ==
  \/ \E w \in Workers : Claim(w)
  \/ OrphanedLeaseExpires \/ LeaseExpiresUnderHolder
  \/ ClientCancels \/ ClientDeletes \/ UNCHANGED vars

LEMMA StepsAre ==
  ASSUME [Next]_vars
  PROVE  Outside \/ \E w \in Workers : WorkerStep(w) \/ StepRaises(w) \/ Crash(w)
  BY DEF Next, Outside

LEMMA OutsideStages ==
  ASSUME Outside, ~deleted'
  PROVE  ~deleted /\ UNCHANGED <<stage, at>>
<1>1. ~DeleteProject
  BY DEF DeleteProject, deleted
<1> QED BY <1>1 DEF Outside, Claim, ClaimWork, OrphanedLeaseExpires, LeaseExpiresUnderHolder,
       LeaseExpires, ClientCancels, RequestCancellation, ClientDeletes, deleted, vars,
       storeVars, resultRows, projRow, workerVars

Lasting(k) == \A s \in Segments : k = Speech(s) => Done(Mixing(s))

LEMMA StartsUndoes ==
  ASSUME TypeOK, NEW w \in Workers, Starts(w), NEW k \in Stages
  PROVE  /\ Done(k)' => Done(k) /\ k # at[w]
         /\ Done(k) => Done(k)' \/ (k = at[w] /\ \E s \in Segments : k = Speech(s) /\ ~Done(Mixing(s)))
<1>1. at[w] \in Stages
  BY WorkerContext
<1>2. /\ k # at[w] => (Done(k)' <=> Done(k))
      /\ k = at[w] => ~Done(k)'
  BY <1>1 DEF Starts, Done, TypeOK, StoreTypeOK
<1>3. ASSUME Done(k), k = at[w]
      PROVE  \E s \in Segments : k = Speech(s) /\ ~Done(Mixing(s))
  <2>1. k[2] = "tts" /\ ~Done(Mixing(k[1]))
    BY <1>3 DEF Starts, CheckedStage, Mixing
  <2>2. k # LeadResearch /\ k # Finalizing
    BY <2>1 DEF LeadResearch, Finalizing
  <2>3. PICK s \in Segments : k \in {Research(s), Text(s), Check(s), Speech(s), Mixing(s)}
    BY <2>2, StagesOfThePlan
  <2>4. k = Speech(s) /\ k[1] = s
    BY <2>1, <2>3 DEF Research, Text, Check, Speech, Mixing
  <2> QED BY <2>1, <2>4
<1> QED BY <1>2, <1>3

LEMMA FinishesAdds ==
  ASSUME TypeOK, NEW w \in Workers, Finishes(w)
  PROVE  Completed' = Completed \cup {at[w]} /\ at[w] \in Stages
<1>1. at[w] \in Stages
  BY WorkerContext
<1> QED BY <1>1 DEF Finishes, Completed, Done, TypeOK, StoreTypeOK

LEMMA SettlesKeeps ==
  ASSUME NEW w \in Workers, Settles(w) \/ UNCHANGED stage
  PROVE  Completed' = Completed
  BY DEF Settles, Completed, Done

LEMMA DoneLasts ==
  ASSUME TypeOK, OrderInv, [Next]_vars, ~deleted',
         NEW k \in Stages, Done(k), Lasting(k)
  PROVE  Done(k)'
<1>1. CASE Outside
  BY <1>1, OutsideStages DEF Done
<1>2. ASSUME NEW w \in Workers, WorkerStep(w) \/ StepRaises(w) \/ Crash(w)
      PROVE  Done(k)'
  <2>1. CASE Starts(w)
    BY <2>1, StartsUndoes DEF Lasting
  <2>2. CASE Finishes(w)
    BY <2>2, FinishesAdds DEF Completed
  <2>3. CASE Settles(w) \/ UNCHANGED stage
    BY <2>3, SettlesKeeps DEF Completed
  <2> QED BY <1>2, <2>1, <2>2, <2>3, WorkerStages
<1> QED BY <1>1, <1>2, StepsAre

\* The worker with the current epoch that is fenced in is the one that holds.
LEMMA SoleHolder ==
  ASSUME OrderInv, NEW w \in Workers, Fence(token[w]), pc[w] \in {"start", "finish"}
  PROVE  Holds(w) /\ \A v \in Workers \ {w} : ~Holds(v)
<1>1. Holds(w) /\ Running(w)
  BY DEF Fence, CanRenew, LeaseHeld, Holds, Running
<1>2. ASSUME NEW v \in Workers \ {w}, Holds(v) PROVE FALSE
  BY <1>1, <1>2 DEF Holds, Running, OrderInv, OneHolder
<1> QED BY <1>1, <1>2

LEMMA WorkerKeepsPlan ==
  ASSUME TypeOK, OrderInv, PlanInv, NEW w \in Workers,
         WorkerStep(w) \/ StepRaises(w) \/ Crash(w)
  PROVE  PlanInv'
<1> SUFFICES ASSUME ~deleted'
             PROVE  /\ \A k \in Completed' : Behind(k, Completed')
                    /\ \A v \in Workers : Holds(v)' => Behind(at'[v], Completed')
  BY DEF PlanInv, Behind
<1>1. /\ ~deleted /\ epoch' = epoch
      /\ \A v \in Workers \ {w} :
           pc'[v] = pc[v] /\ at'[v] = at[v] /\ token'[v] = token[v]
  BY WorkerKeeps DEF deleted
<1>2. /\ \A k \in Completed : Behind(k, Completed)
      /\ \A v \in Workers : Holds(v) => Behind(at[v], Completed)
  BY <1>1 DEF PlanInv
<1>3. /\ \A v \in Workers \ {w} : Holds(v)' => Holds(v)
      /\ pc'[w] # "idle" => token'[w] = token[w]
  <2>1. token'[w] = token[w] \/ pc'[w] = "idle"
    BY Moves DEF Goto, MoveTo, Stop, TypeOK, WorkerTypeOK
  <2> QED BY <1>1, <2>1 DEF Holds
<1>4. CASE Settles(w) \/ (UNCHANGED stage /\ (Stays(w) \/ Passes(w)))
  <2>1. Completed' = Completed
    BY <1>4, SettlesKeeps
  <2>2. \A v \in Workers \ {w} : Holds(v)' => Behind(at'[v], Completed')
    BY <1>1, <1>2, <1>3, <2>1
  <2>3. ASSUME Holds(w)' PROVE Behind(at'[w], Completed')
    <3>1. Holds(w) /\ at[w] \in Stages
      <4>1. pc[w] \notin {"idle", "cancel", "failing", "fail"}
        BY <1>4, <2>3 DEF Stays, Passes, Settles
      <4>2. token'[w] = token[w]
        BY <1>3, <2>3 DEF Holds
      <4> QED BY <1>1, <2>3, <4>1, <4>2, WorkerContext DEF Holds
    <3>2. CASE Stays(w)
      BY <1>2, <2>1, <3>1, <3>2 DEF Stays
    <3>3. CASE Passes(w)
      <4> PICK k \in Stages : k = at[w]
        BY <3>1
      <4>1. /\ WalkedTo(w) /\ \A s \in Segments : SegmentRows(s)
        BY <1>1, <3>1 DEF Holds, OrderInv, HolderInv, RowsInv, KeptRows
      <4>2. CASE k[2] = "tts"
        <5> PICK s \in Segments : s = k[1]
          BY <4>2, PlanType DEF LeadResearch, Finalizing
        <5>1. Done(Mixing(s)) /\ at'[w] = AfterSegment(s)
          BY <3>3, <4>2 DEF Passes, CheckedStage, Mixing
        <5>2. Check(s) \in Completed
          BY <4>1, <5>1, PlanNames DEF SegmentRows, Completed
        <5>3. LeadResearch \in Completed
          BY <1>2, <5>2, BehindCheck
        <5> QED BY <2>1, <5>1, <5>3, BehindNext
      <4>3. CASE k[2] # "tts"
        <5>1. k \in Completed /\ k # Finalizing /\ at'[w] = FollowUp(k)
          BY <3>3, <4>3 DEF Passes, CheckedStage, Completed
        <5>2. k[2] = "mixing" => LeadResearch \in Completed
          <6> SUFFICES ASSUME k[2] = "mixing" PROVE LeadResearch \in Completed
            OBVIOUS
          <6> PICK s \in Segments : s = k[1]
            BY <5>1, PlanType DEF LeadResearch
          <6>1. Check(s) \in Completed
            BY <4>1, <5>1, PlanNames DEF WalkedTo, Completed
          <6> QED BY <1>2, <6>1, BehindCheck
        <5> QED BY <2>1, <5>1, <5>2, BehindFollowUp
      <4> QED BY <4>2, <4>3
    <3>4. CASE Settles(w)
      BY <2>3, <3>4 DEF Settles
    <3> QED BY <1>4, <3>2, <3>3, <3>4
  <2> QED BY <1>2, <2>1, <2>2, <2>3
<1>5. CASE Starts(w)
  <2>1. /\ Holds(w) /\ at[w] \in Stages
        /\ \A v \in Workers \ {w} : ~Holds(v)
    BY <1>5, SoleHolder, WorkerContext DEF Starts
  <2>2. ASSUME NEW k \in Stages, Behind(k, Completed), k = at[w] \/ Done(k)'
        PROVE  Behind(k, Completed')
    <3>1. ASSUME NEW s \in Segments, k = Mixing(s) PROVE Speech(s) \in Completed'
      <4>1. Speech(s) \in Completed /\ Speech(s) \in Stages
        BY <2>2, <3>1, PlanNames DEF Behind
      <4>2. Speech(s) # at[w] \/ Done(Mixing(s))
        <5>1. CASE k = at[w]
          BY <3>1, <5>1, PlanNames
        <5>2. CASE Done(k)'
          BY <1>5, <2>2, <3>1, <5>2, StartsUndoes
        <5> QED BY <2>2, <5>1, <5>2
      <4>3. \A r \in Segments : Speech(s) = Speech(r) => s = r
        BY PlanNames
      <4> QED BY <1>5, <4>1, <4>2, <4>3, StartsUndoes DEF Completed
    <3>2. ASSUME NEW j \in Stages, j \in Completed, \A s \in Segments : j # Speech(s)
          PROVE  j \in Completed'
      BY <1>5, <3>2, StartsUndoes DEF Completed
    <3>3. \A s \in Segments :
            /\ LeadResearch \in Completed => LeadResearch \in Completed'
            /\ Research(s) \in Completed => Research(s) \in Completed'
            /\ Text(s) \in Completed => Text(s) \in Completed'
      BY <3>2, PlanNames, PlanType
    <3> QED BY <2>2, <3>1, <3>3 DEF Behind
  <2>3. \A k \in Completed' : k \in Completed /\ k \in Stages /\ Done(k)'
    BY <1>5, StartsUndoes DEF Completed
  <2>4. at'[w] = at[w]
    BY <1>5 DEF Starts
  <2> QED BY <1>2, <1>3, <2>1, <2>2, <2>3, <2>4
<1>6. CASE Finishes(w)
  <2> PICK k \in Stages : k = at[w]
    BY WorkerContext
  <2>1. Completed' = Completed \cup {k}
    BY <1>6, FinishesAdds
  <2>2. Holds(w) /\ \A v \in Workers \ {w} : ~Holds(v)
    BY <1>6, SoleHolder DEF Finishes
  <2>3. \A j \in Completed' : Behind(j, Completed')
    BY <1>2, <2>1, <2>2, BehindGrows
  <2>4. ASSUME k # Finalizing PROVE Behind(FollowUp(k), Completed')
    <3>1. k[2] = "mixing" => LeadResearch \in Completed
      <4> SUFFICES ASSUME k[2] = "mixing" PROVE LeadResearch \in Completed
        OBVIOUS
      <4> PICK s \in Segments : s = k[1]
        BY <2>4, PlanType DEF LeadResearch
      <4>1. WalkedTo(w)
        BY <1>1, <2>2 DEF Holds, OrderInv, HolderInv
      <4>2. Check(s) \in Completed
        BY <2>4, <4>1, PlanNames DEF WalkedTo, Completed
      <4> QED BY <1>2, <4>2, BehindCheck
    <3> QED BY <2>1, <2>4, <3>1, BehindFollowUp
  <2>5. Holds(w)' => k # Finalizing /\ at'[w] = FollowUp(k)
    BY <1>6 DEF Finishes
  <2> QED BY <1>3, <2>2, <2>3, <2>4, <2>5
<1> QED BY <1>4, <1>5, <1>6, WorkerStages

LEMMA PlanStep ==
  ASSUME TypeOK, OrderInv, PlanInv, [Next]_vars
  PROVE  PlanInv'
<1>1. ASSUME Outside, ~deleted'
      PROVE  /\ \A k \in Completed' : Behind(k, Completed')
             /\ \A w \in Workers : Holds(w)' => Behind(at'[w], Completed')
  <2>1. ~deleted /\ UNCHANGED at /\ Completed' = Completed
    BY <1>1, OutsideStages DEF Completed, Done
  <2>2. ASSUME NEW w \in Workers, Holds(w)' PROVE Holds(w) \/ at[w] = LeadResearch
    <3>1. CASE UNCHANGED workerVars /\ UNCHANGED epoch
      BY <2>2, <3>1 DEF Holds, workerVars
    <3>2. ASSUME NEW v \in Workers, Claim(v)
          PROVE  Holds(w) \/ at[w] = LeadResearch
      <4>1. /\ pc[v] = "idle" /\ epoch' = epoch + 1 /\ epoch \in Nat
            /\ pc' = [pc EXCEPT ![v] = "hydrate"] /\ token' = [token EXCEPT ![v] = epoch + 1]
        BY <3>2 DEF Claim, ClaimWork, TypeOK, StoreTypeOK
      <4>2. CASE w = v
        BY <4>1, <4>2 DEF OrderInv, OneHolder, Running
      <4>3. CASE w # v
        <5>1. token'[w] = token[w] /\ pc'[w] = pc[w] /\ token[w] \in Nat
          BY <4>1, <4>3 DEF TypeOK, WorkerTypeOK
        <5> QED BY <2>2, <4>1, <5>1 DEF Holds, OrderInv, OneHolder, Running
      <4> QED BY <4>2, <4>3
    <3>3. (\E v \in Workers : Claim(v)) \/ (UNCHANGED workerVars /\ UNCHANGED epoch)
      BY <1>1 DEF Outside, OrphanedLeaseExpires, LeaseExpiresUnderHolder, LeaseExpires,
         ClientCancels, RequestCancellation, ClientDeletes, DeleteProject, vars, storeVars, workRow
    <3> QED BY <3>1, <3>2, <3>3
  <2>3. Behind(LeadResearch, Completed)
    BY PlanNames DEF Behind
  <2> QED BY <2>1, <2>2, <2>3 DEF PlanInv
<1>2. Outside => PlanInv'
  BY <1>1 DEF PlanInv, Behind
<1> QED BY <1>2, WorkerKeepsPlan, StepsAre

LEMMA PlanInit == Init => PlanInv
<1> SUFFICES ASSUME Init PROVE PlanInv
  OBVIOUS
<1>1. Completed = {} /\ \A w \in Workers : pc[w] = "idle"
  BY DEF Init, StoreInit, Completed, Done
<1> QED BY <1>1 DEF PlanInv, Holds

\* The plan is kept, by every worker of every claim.
THEOREM PlanIsKept == Spec => []PlanInv
<1>1. TypeOK /\ OrderInv /\ PlanInv /\ [Next]_vars => PlanInv'
  BY PlanStep
<1> QED BY <1>1, PlanInit, OrderInvariant, TypeCorrect, PTL DEF Spec

-----------------------------------------------------------------------------
(***************************************************************************)
(* What later SELECTs find at least.                                       *)
(***************************************************************************)

LEMMA VersionGrows ==
  ASSUME TypeOK, [Next]_vars
  PROVE  version' >= version /\ version \in Nat
<1>0. version \in Nat
  BY DEF TypeOK, StoreTypeOK
<1>1. CASE UNCHANGED storeVars \/ ClaimWork \/ LeaseExpires
  BY <1>0, <1>1 DEF storeVars, genRow, ClaimWork, LeaseExpires
<1>2. CASE RequestCancellation \/ DeleteProject
  BY <1>0, <1>2 DEF RequestCancellation, DeleteProject, Terminate, genRow
<1>3. ASSUME NEW t \in Nat, NEW o \in Operations, NEW k \in Stages, WorkerTransaction(t, o, k)
      PROVE  version' = version \/ version' = version + 1
  <2>1. CASE ReserveAttempt(t, o) \/ DispatchAttempt(t, o) \/ CompleteAttempt(t, o)
    BY <2>1 DEF ReserveAttempt, DispatchAttempt, CompleteAttempt, WriteAttempt, genRow
  <2>2. CASE FailAttemptUnknown(t, o) \/ SettleCancellation(t)
    BY <2>2 DEF FailAttemptUnknown, SettleCancellation, ObserveCancellation, Terminate
  <2>3. CASE RecordStageTransition(t, k, "running") \/ SettleReady(t)
    BY <2>3 DEF RecordStageTransition, SettleReady, WriteStage, Terminate
  <2>4. CASE PublishStage(t, k)
    BY <2>4 DEF PublishStage, PublishFinal, PublishAudio, PublishVerifiedText,
       RecordStageTransition, WriteStage, Terminate
  <2>5. CASE SettleFailure(t)
    BY <2>5 DEF SettleFailure, Terminate, genRow
  <2> QED BY <1>3, <2>1, <2>2, <2>3, <2>4, <2>5 DEF WorkerTransaction
<1> QED BY <1>0, <1>1, <1>2, <1>3, StepsAreTransactions

LEMMA FinalStays ==
  ASSUME TypeOK, [Next]_vars, ~deleted', finalReady = 1
  PROVE  finalReady' = 1
<1>1. ~DeleteProject
  BY DEF DeleteProject, deleted
<1>2. CASE UNCHANGED storeVars \/ ClaimWork \/ LeaseExpires \/ RequestCancellation
  BY <1>2 DEF storeVars, projRow, ClaimWork, LeaseExpires, RequestCancellation
<1>3. ASSUME NEW t \in Nat, NEW o \in Operations, NEW k \in Stages, WorkerTransaction(t, o, k)
      PROVE  finalReady' = 1
  <2>1. CASE ReserveAttempt(t, o) \/ DispatchAttempt(t, o) \/ CompleteAttempt(t, o)
    BY <2>1 DEF ReserveAttempt, DispatchAttempt, CompleteAttempt, WriteAttempt, projRow
  <2>2. CASE FailAttemptUnknown(t, o) \/ SettleCancellation(t) \/ SettleFailure(t)
    BY <2>2 DEF FailAttemptUnknown, SettleCancellation, ObserveCancellation, SettleFailure
  <2>3. CASE RecordStageTransition(t, k, "running") \/ SettleReady(t)
    BY <2>3 DEF RecordStageTransition, SettleReady, projRow
  <2>4. CASE PublishStage(t, k)
    BY <2>4 DEF PublishStage, PublishFinal, PublishAudio, PublishVerifiedText,
       RecordStageTransition, projRow
  <2> QED BY <1>3, <2>1, <2>2, <2>3, <2>4 DEF WorkerTransaction
<1> QED BY <1>1, <1>2, <1>3, StepsAreTransactions

\* What the client can see of a project that is kept only grows.
LEMMA RowsGrow ==
  ASSUME TypeOK, OrderInv, [Next]_vars, OrderInv', ~deleted'
  PROVE  /\ ~deleted
         /\ validated \subseteq validated' /\ ReadySegments \subseteq ReadySegments'
         /\ finalReady = 1 => finalReady' = 1
<1>1. ~deleted
  BY StepsAre, OutsideStages, WorkerKeeps DEF deleted
<1>2. KeptRows /\ KeptRows'
  BY <1>1 DEF OrderInv, RowsInv
<1>3. \A s \in Segments : /\ Done(Check(s)) => Done(Check(s))'
                          /\ Done(Mixing(s)) => Done(Mixing(s))'
  BY DoneLasts, PlanNames DEF Lasting
<1>4. validated \subseteq Segments
  BY DEF TypeOK, StoreTypeOK
<1> QED BY <1>1, <1>2, <1>3, <1>4, FinalStays DEF KeptRows, SegmentRows, ReadySegments

\* What is behind a published episode: everything.
LEMMA FinalIsBehindAll ==
  ASSUME TypeOK, OrderInv, PlanInv, ~deleted, finalReady = 1
  PROVE  /\ Completed = Stages /\ ReadySegments = Segments /\ validated = Segments
         /\ \A s \in Scopes : artifacts[s] > 0
         /\ outcome = "ready"
<1>1. KeptRows /\ \A k \in Completed : Behind(k, Completed)
  BY DEF OrderInv, RowsInv, PlanInv
<1>2. /\ Done(Finalizing) /\ outcome = "ready"
      /\ \A s \in Segments : Done(Mixing(s)) /\ Done(Check(s))
  BY <1>1 DEF KeptRows, FinalRows, SegmentRows
<1>3. ASSUME NEW s \in Segments
      PROVE  {Research(s), Text(s), Check(s), Speech(s), Mixing(s), LeadResearch} \subseteq Completed
  <2>1. Check(s) \in Completed /\ Mixing(s) \in Completed
    BY <1>2, PlanNames DEF Completed
  <2>2. Speech(s) \in Completed
    BY <1>1, <2>1 DEF Behind
  <2> QED BY <1>1, <2>1, <2>2, BehindCheck
<1>4. Finalizing \in Completed /\ LeadResearch \in Completed
  <2>1. 1 \in Segments
    BY NumSegmentsAssumption DEF Segments
  <2> QED BY <1>2, <1>3, <2>1, PlanType DEF Completed
<1>5. Completed = Stages
  BY <1>3, <1>4, StagesOfThePlan DEF Completed
<1>6. validated \subseteq Segments
  BY DEF TypeOK, StoreTypeOK
<1>7. \A s \in Scopes : artifacts[s] > 0
  BY <1>1, <1>2 DEF KeptRows, SegmentRows, FinalRows, Scopes
<1> QED BY <1>1, <1>2, <1>5, <1>6, <1>7 DEF KeptRows, SegmentRows, ReadySegments

\* How many rows a stage has.
LEMMA RowsAreCounted ==
  ASSUME NEW n, NEW S \in SUBSET RowsOf(n)
  PROVE  /\ IsFiniteSet(S) /\ Cardinality(S) \in 0 .. NumSegments + 1
         /\ \A R \in SUBSET S : Cardinality(R) <= Cardinality(S)
<1> DEFINE f == [k \in S |-> k[1]]
<1>1. f \in Injection(S, 0 .. NumSegments)
  <2>1. \A k \in S : k \in Stages /\ k[2] = n
    BY DEF RowsOf
  <2>2. \A k \in S : k[1] \in 0 .. NumSegments /\ k = <<k[1], n>>
    BY <2>1, NumSegmentsAssumption DEF Stages, LeadResearch, Finalizing, Segments, Project
  <2> QED BY <2>2 DEF Injection, IsInjective
<1>2. IsFiniteSet(0 .. NumSegments) /\ Cardinality(0 .. NumSegments) = NumSegments + 1
  <2>1. 0 \in Int /\ NumSegments \in Int /\ ~(0 > NumSegments)
    BY NumSegmentsAssumption
  <2> QED BY <2>1, FS_Interval
<1>3. IsFiniteSet(S) /\ Cardinality(S) <= NumSegments + 1
  BY <1>1, <1>2, FS_Injection
<1>4. Cardinality(S) \in Nat
  BY <1>3, FS_CardinalityType
<1>5. \A R \in SUBSET S : Cardinality(R) <= Cardinality(S)
  BY <1>3, FS_Subset
<1> QED BY <1>3, <1>4, <1>5, NumSegmentsAssumption

\* Every segment whose audio is ready counts in the mixing stage.
LEMMA ReadyIsMixed ==
  ASSUME OrderInv, ~deleted, NEW R \in SUBSET ReadySegments
  PROVE  Cardinality(R) <= Cardinality(InState("mixing", "completed"))
<1> DEFINE f == [s \in R |-> Mixing(s)]
           T == InState("mixing", "completed")
<1>1. \A s \in R : s \in Segments /\ Mixing(s) \in T
  <2>1. \A s \in R : s \in Segments /\ Done(Mixing(s))
    BY DEF OrderInv, RowsInv, KeptRows, SegmentRows, ReadySegments
  <2> QED BY <2>1, PlanNames DEF InState, RowsOf, Mixing, Done
<1>2. f \in Injection(R, T)
  <2>1. \A s, r \in R : f[s] = f[r] => s = r
    BY <1>1, Names
  <2> QED BY <1>1, <2>1 DEF Injection, IsInjective
<1>3. IsFiniteSet(T)
  <2>1. T \in SUBSET RowsOf("mixing")
    BY DEF InState
  <2> QED BY <2>1, RowsAreCounted
<1> QED BY <1>2, <1>3, FS_Injection

-----------------------------------------------------------------------------
(***************************************************************************)
(* The reader.                                                             *)
(***************************************************************************)

StageWords == {"pending", "running", "completed", "failed", "cancelled"}
Progresses == [StageNames -> [state : StageWords, completed : 0 .. NumSegments + 1]]

Answers ==
  [found : BOOLEAN, lost : {"nothing", "segments", "generation", "stages"},
   status : ProjStatuses, final : {0, 1},
   ready : SUBSET Segments, texts : SUBSET Segments, checked : SUBSET Segments,
   provenance : SUBSET Segments, artifacts : SUBSET Scopes,
   disposition : Dispositions, outcome : Outcomes, version : Nat,
   stages : Progresses]

ReaderTypes ==
  /\ reading \in Surfaces \cup {"none"} /\ place \in Places
  /\ rows \in Answers

InPlace ==
  /\ reading = "none" <=> place = "start"
  /\ reading = "none" => rows = NoRows
  /\ reading = "list" => place \in {"generation", "stages", "answered"}
  /\ place \notin {"start", "answered"} => rows.found
  /\ place = "segments" => rows.checked = {}
  /\ place = "provenance" => \E n \in 0 .. NumSegments - 1 : rows.checked = 1 .. n

\* What a request has read of a project that is still kept is in the rows, and
\* goes together.
Gathered ==
  /\ Whole
  /\ rows.ready \subseteq ReadySegments /\ rows.texts \subseteq validated
  /\ rows.final = 1 => finalReady = 1
  /\ place # "segments" /\ rows.final = 1 => rows.ready = Segments
  /\ rows.texts \cap rows.checked \subseteq rows.provenance
  /\ reading = "detail" =>
       /\ rows.ready \subseteq rows.texts
       /\ place \in {"artifacts", "generation", "stages"} => rows.checked = Segments
       /\ place \in {"generation", "stages"} =>
            /\ rows.ready \subseteq rows.artifacts
            /\ rows.final = 1 => Project \in rows.artifacts
  /\ place = "stages" => rows.version <= version /\ (rows.final = 1 => rows.outcome = "ready")

AllUnits == [n \in StageNames |-> [state |-> "completed", completed |-> Cardinality(RowsOf(n))]]

\* What an answer says, whatever has become of the project.
Backed ==
  /\ reading = "detail" =>
       /\ rows.texts \subseteq rows.provenance
       /\ rows.ready \subseteq rows.texts \cap rows.artifacts
  /\ Cardinality(rows.ready) <= rows.stages["mixing"].completed
  /\ rows.final = 1 =>
       /\ rows.ready = Segments
       /\ reading = "detail" => Project \in rows.artifacts
       /\ rows.outcome = "ready"
       /\ rows.stages = AllUnits
  /\ rows.version <= version

ReaderInv ==
  /\ ReaderTypes /\ InPlace
  /\ place \notin {"start", "answered"} /\ ~deleted => Gathered
  /\ place = "answered" /\ Whole => Backed

LEMMA NothingRead ==
  NoRows \in Answers
<1>1. 0 \in 0 .. NumSegments + 1
  BY NumSegmentsAssumption
<1>2. NoProgress \in Progresses
  BY <1>1 DEF NoProgress, Progresses, StageWords
<1> QED BY <1>2 DEF NoRows, Answers, ProjStatuses, Dispositions, Outcomes

LEMMA BackedIsBacked ==
  ASSUME ReaderInv
  PROVE  AnswersAreBacked
<1>1. \A n \in StageNames : AllUnits[n].state = "completed"
  BY DEF AllUnits
<1> QED BY <1>1 DEF ReaderInv, Backed, AnswersAreBacked

LEMMA ReaderTypesSuffice ==
  ASSUME ReaderTypes
  PROVE  ReadTypeOK
<1>1. DOMAIN rows = DOMAIN NoRows
  BY NothingRead DEF ReaderTypes, Answers
<1>2. \A n \in StageNames : rows.stages[n].completed \in 0 .. NumSegments + 1
  BY DEF ReaderTypes, Answers, Progresses
<1> QED BY <1>1, <1>2 DEF ReadTypeOK, ReaderTypes, Answers

LEMMA ReaderInvInit == Init /\ ReadInit => ReaderInv
<1> SUFFICES ASSUME Init, ReadInit PROVE ReaderInv
  OBVIOUS
<1> QED BY NothingRead DEF ReadInit, ReaderInv, ReaderTypes, InPlace, Places

\* While the request waits, the rows grow or go.
LEMMA RowsGrowUnderTheReader ==
  ASSUME TypeOK, OrderInv, ReaderInv, [Next]_vars, TypeOK', OrderInv', UNCHANGED readVars
  PROVE  ReaderInv'
<1>1. UNCHANGED <<reading, place, rows>>
  BY DEF readVars
<1>2. ReaderTypes' /\ InPlace'
  BY <1>1 DEF ReaderInv, ReaderTypes, InPlace
<1>3. version' >= version /\ version \in Nat
  BY VersionGrows
<1>4. version' \in Nat
  BY DEF TypeOK, StoreTypeOK
<1>5. rows.version \in Nat
  BY DEF ReaderInv, ReaderTypes, Answers
<1>6. ASSUME place \notin {"start", "answered"}, ~deleted'
      PROVE  Gathered'
  <2>1. Gathered
    BY <1>6, RowsGrow DEF ReaderInv
  <2> QED BY <1>1, <1>3, <1>4, <1>5, <1>6, <2>1, RowsGrow DEF Gathered, Whole
<1>7. ASSUME place = "answered", Whole
      PROVE  Backed'
  <2>1. Backed
    BY <1>7 DEF ReaderInv
  <2>2. AllUnits' = AllUnits
    BY DEF AllUnits, RowsOf
  <2>3. rows.version <= version'
    BY <1>3, <1>4, <1>5, <2>1 DEF Backed
  <2> QED BY <1>1, <2>1, <2>2, <2>3 DEF Backed
<1> QED BY <1>1, <1>2, <1>6, <1>7 DEF ReaderInv, Whole

-----------------------------------------------------------------------------
(***************************************************************************)
(* The SELECTs.                                                            *)
(***************************************************************************)

LEMMA AskReads ==
  ASSUME TypeOK, OrderInv, PlanInv, ReaderInv, NEW s \in Surfaces, Ask(s)
  PROVE  ReaderInv'
<1>1. /\ reading' = s /\ s \in {"list", "detail"} /\ UNCHANGED vars
      /\ ReadySegments \in SUBSET Segments
      /\ projStatus \in ProjStatuses /\ finalReady \in {0, 1} /\ version \in Nat
  BY DEF Ask, Surfaces, ReadySegments, TypeOK, StoreTypeOK
<1>2. UNCHANGED <<deleted, finalReady, validated, ReadySegments, version>>
  BY <1>1 DEF deleted, ReadySegments, vars, storeVars, genRow, resultRows, projRow
<1>3. CASE deleted /\ rows' = NoRows /\ place' = "answered"
  <2>1. ReaderTypes' /\ InPlace'
    BY <1>1, <1>3, NothingRead DEF ReaderTypes, InPlace, Surfaces, Places
  <2>2. ~Whole'
    BY <1>3 DEF NoRows, Whole
  <2> QED BY <1>3, <2>1, <2>2 DEF ReaderInv
<1>4. CASE ~deleted /\ s = "list" /\ place' = "generation"
           /\ rows' = [[NoRows EXCEPT !.found = TRUE, !.status = projStatus,
                                      !.final = finalReady] EXCEPT !.ready = ReadySegments]
  <2>1. /\ rows' \in Answers
        /\ rows'.found /\ rows'.lost = "nothing" /\ rows'.final = finalReady
        /\ rows'.ready = ReadySegments /\ rows'.texts = {} /\ rows'.checked = {}
    BY <1>1, <1>4, NothingRead DEF NoRows, Answers
  <2>2. ReaderTypes' /\ InPlace'
    BY <1>1, <1>4, <2>1 DEF ReaderTypes, InPlace, Surfaces, Places
  <2>3. Gathered'
    BY <1>1, <1>2, <1>4, <2>1, FinalIsBehindAll DEF Gathered, Whole
  <2> QED BY <1>4, <2>2, <2>3 DEF ReaderInv
<1>5. CASE ~deleted /\ s = "detail" /\ place' = "segments"
           /\ rows' = [NoRows EXCEPT !.found = TRUE, !.status = projStatus, !.final = finalReady]
  <2>1. /\ rows' \in Answers
        /\ rows'.found /\ rows'.lost = "nothing" /\ rows'.final = finalReady
        /\ rows'.ready = {} /\ rows'.texts = {} /\ rows'.checked = {}
    BY <1>1, <1>5, NothingRead DEF NoRows, Answers
  <2>2. ReaderTypes' /\ InPlace'
    BY <1>1, <1>5, <2>1 DEF ReaderTypes, InPlace, Surfaces, Places
  <2>3. Gathered'
    BY <1>1, <1>2, <1>5, <2>1 DEF Gathered, Whole
  <2> QED BY <1>5, <2>2, <2>3 DEF ReaderInv
<1> QED BY <1>3, <1>4, <1>5 DEF Ask

\* What no SELECT changes.
LEMMA SelectsOnlyRead ==
  ASSUME NEW p, NEW found, NEW q, Select(p, found, q)
  PROVE  /\ place = p /\ reading # "none" /\ reading' = reading
         /\ rows' = found /\ place' = q
         /\ UNCHANGED <<deleted, finalReady, validated, ReadySegments, version>>
BY DEF Select, deleted, ReadySegments, vars, storeVars, genRow, resultRows, projRow

LEMMA MissedIsMissed ==
  ASSUME ReaderTypes, NEW what \in {"segments", "generation", "stages"}
  PROVE  /\ Missed(what) \in Answers /\ Missed(what).lost # "nothing"
         /\ Missed(what).found = rows.found /\ Missed(what).checked = rows.checked
BY DEF ReaderTypes, Answers, Missed

LEMMA SegmentsAreRead ==
  ASSUME TypeOK, OrderInv, PlanInv, ReaderInv, SelectSegments
  PROVE  ReaderInv'
<1> DEFINE found == IF deleted THEN Missed("segments")
                    ELSE [rows EXCEPT !.ready = ReadySegments, !.texts = validated]
<1>1. /\ place = "segments" /\ reading # "none" /\ reading' = reading
      /\ rows' = found /\ place' = "provenance"
      /\ UNCHANGED <<deleted, finalReady, validated, ReadySegments, version>>
  <2>1. Select("segments", found, "provenance")
    BY DEF SelectSegments
  <2> HIDE DEF found
  <2> QED BY <2>1, SelectsOnlyRead
<1>2. rows \in Answers /\ rows.found /\ rows.checked = {} /\ ReaderTypes /\ reading # "list"
  BY <1>1 DEF ReaderInv, ReaderTypes, InPlace
<1>3. ReadySegments \in SUBSET Segments /\ validated \in SUBSET Segments
  BY DEF ReadySegments, TypeOK, StoreTypeOK
<1>4. rows' \in Answers /\ rows'.found /\ rows'.checked = {}
  <2>1. CASE deleted
    BY <1>1, <1>2, <2>1, MissedIsMissed
  <2>2. CASE ~deleted
    BY <1>1, <1>2, <1>3, <2>2 DEF Answers
  <2> QED BY <2>1, <2>2
<1>5. ReaderTypes' /\ InPlace'
  <2>1. 0 \in 0 .. NumSegments - 1 /\ 1 .. 0 = {}
    BY NumSegmentsAssumption
  <2>2. \E n \in 0 .. NumSegments - 1 : rows'.checked = 1 .. n
    BY <1>4, <2>1
  <2> QED BY <1>1, <1>2, <1>4, <2>2 DEF ReaderTypes, InPlace, Places
<1>6. ASSUME ~deleted' PROVE Gathered'
  <2>1. ~deleted /\ rows' = [rows EXCEPT !.ready = ReadySegments, !.texts = validated]
    BY <1>1, <1>6
  <2>2. Gathered
    BY <1>1, <2>1 DEF ReaderInv
  <2>3. /\ rows'.ready = ReadySegments /\ rows'.texts = validated /\ rows'.lost = rows.lost
        /\ rows'.final = rows.final /\ rows'.provenance = rows.provenance
    BY <1>2, <2>1 DEF Answers
  <2>4. ReadySegments \subseteq validated
    BY <2>1 DEF OrderInv, RowsInv, KeptRows, SegmentRows, ReadySegments
  <2> QED BY <1>1, <1>4, <2>1, <2>2, <2>3, <2>4, FinalIsBehindAll DEF Gathered, Whole
<1> QED BY <1>1, <1>5, <1>6 DEF ReaderInv

LEMMA ProvenanceIsRead ==
  ASSUME TypeOK, ReaderInv, SelectProvenance
  PROVE  ReaderInv'
<1> DEFINE s == Cardinality(rows.checked) + 1
           found == [rows EXCEPT !.checked = @ \cup {s},
                                 !.provenance = @ \cup (validated \cap {s})]
           q == IF s = NumSegments THEN "artifacts" ELSE "provenance"
<1>1. /\ place = "provenance" /\ reading # "none" /\ reading' = reading
      /\ rows' = found /\ place' = q
      /\ UNCHANGED <<deleted, finalReady, validated, ReadySegments, version>>
  <2>1. Select("provenance", found, q)
    BY DEF SelectProvenance
  <2> HIDE DEF found, q
  <2> QED BY <2>1, SelectsOnlyRead
<1>2. rows \in Answers /\ rows.found /\ ReaderTypes /\ reading # "list"
  BY <1>1 DEF ReaderInv, ReaderTypes, InPlace
<1>3. PICK n \in 0 .. NumSegments - 1 : rows.checked = 1 .. n
  BY <1>1 DEF ReaderInv, InPlace
<1>4. s = n + 1 /\ s \in Segments /\ s \in Nat
  <2>1. n \in Int /\ 1 \in Int /\ n >= 0
    BY <1>3, NumSegmentsAssumption
  <2>2. Cardinality(1 .. n) = n
    BY <2>1, FS_Interval
  <2>3. n + 1 \in 1 .. NumSegments
    BY <1>3, NumSegmentsAssumption
  <2> QED BY <1>3, <2>1, <2>2, <2>3 DEF Segments
<1> HIDE DEF s
<1>5. rows.checked \cup {s} = 1 .. s
  BY <1>3, <1>4
<1>6. /\ rows' \in Answers /\ rows'.found /\ rows'.lost = rows.lost /\ rows'.final = rows.final
      /\ rows'.ready = rows.ready /\ rows'.texts = rows.texts
      /\ rows'.checked = 1 .. s /\ rows'.checked = rows.checked \cup {s}
      /\ rows'.provenance = rows.provenance \cup (validated \cap {s})
  BY <1>1, <1>2, <1>4, <1>5 DEF Answers
<1>7. CASE s = NumSegments
  <2>1. place' = "artifacts" /\ rows'.checked = Segments
    BY <1>1, <1>6, <1>7 DEF Segments
  <2>2. ReaderTypes' /\ InPlace'
    BY <1>1, <1>2, <1>6, <2>1 DEF ReaderTypes, InPlace, Places
  <2>3. ~deleted' => Gathered'
    BY <1>1, <1>6, <2>1 DEF ReaderInv, Gathered, Whole
  <2> QED BY <2>1, <2>2, <2>3 DEF ReaderInv
<1>8. CASE s # NumSegments
  <2>1. place' = "provenance" /\ s \in 0 .. NumSegments - 1
    BY <1>1, <1>4, <1>8, NumSegmentsAssumption DEF Segments
  <2>2. ReaderTypes' /\ InPlace'
    BY <1>1, <1>2, <1>6, <2>1 DEF ReaderTypes, InPlace, Places
  <2>3. ~deleted' => Gathered'
    BY <1>1, <1>6, <2>1 DEF ReaderInv, Gathered, Whole
  <2> QED BY <2>1, <2>2, <2>3 DEF ReaderInv
<1> QED BY <1>7, <1>8

LEMMA ArtifactsAreRead ==
  ASSUME TypeOK, OrderInv, PlanInv, ReaderInv, SelectArtifacts
  PROVE  ReaderInv'
<1> DEFINE there == {s \in Scopes : artifacts[s] > 0}
           found == [rows EXCEPT !.artifacts = there]
<1>1. /\ place = "artifacts" /\ reading # "none" /\ reading' = reading
      /\ rows' = found /\ place' = "generation"
      /\ UNCHANGED <<deleted, finalReady, validated, ReadySegments, version>>
  <2>1. Select("artifacts", found, "generation")
    BY DEF SelectArtifacts
  <2> HIDE DEF found
  <2> QED BY <2>1, SelectsOnlyRead
<1>2. rows \in Answers /\ rows.found /\ ReaderTypes /\ reading # "list"
  BY <1>1 DEF ReaderInv, ReaderTypes, InPlace
<1>3. rows' \in Answers /\ rows' = [rows EXCEPT !.artifacts = there]
  BY <1>1, <1>2 DEF Answers
<1>4. ReaderTypes' /\ InPlace'
  BY <1>1, <1>2, <1>3 DEF ReaderTypes, InPlace, Places, Answers
<1>5. ASSUME ~deleted' PROVE Gathered'
  <2>1. ~deleted /\ Gathered
    BY <1>1, <1>5 DEF ReaderInv
  <2>2. rows.ready \subseteq there
    <3>1. \A s \in ReadySegments : s \in Segments /\ artifacts[s] > 0
      BY <2>1 DEF OrderInv, RowsInv, KeptRows, SegmentRows, ReadySegments
    <3> QED BY <2>1, <3>1 DEF Gathered, Scopes
  <2>3. rows.final = 1 => Project \in there
    BY <2>1, FinalIsBehindAll DEF Gathered, Scopes
  <2>4. /\ rows'.artifacts = there /\ rows'.lost = rows.lost /\ rows'.found = rows.found
        /\ rows'.final = rows.final /\ rows'.ready = rows.ready /\ rows'.texts = rows.texts
        /\ rows'.checked = rows.checked /\ rows'.provenance = rows.provenance
    BY <1>2, <1>3 DEF Answers
  <2> HIDE DEF there, found
  <2> QED BY <1>1, <2>1, <2>2, <2>3, <2>4 DEF Gathered, Whole
<1> QED BY <1>1, <1>4, <1>5 DEF ReaderInv

LEMMA GenerationIsRead ==
  ASSUME TypeOK, OrderInv, PlanInv, ReaderInv, SelectGeneration
  PROVE  ReaderInv'
<1> DEFINE seenRow == [rows EXCEPT !.disposition = disposition, !.outcome = outcome,
                                   !.version = version]
           found == IF deleted THEN Missed("generation") ELSE seenRow
<1>1. /\ place = "generation" /\ reading # "none" /\ reading' = reading
      /\ rows' = found /\ place' = "stages"
      /\ UNCHANGED <<deleted, finalReady, validated, ReadySegments, version>>
  <2>1. Select("generation", found, "stages")
    BY DEF SelectGeneration
  <2> HIDE DEF found
  <2> QED BY <2>1, SelectsOnlyRead
<1>2. rows \in Answers /\ rows.found /\ ReaderTypes
  BY <1>1 DEF ReaderInv, ReaderTypes, InPlace
<1>3. disposition \in Dispositions /\ outcome \in Outcomes /\ version \in Nat
  BY DEF TypeOK, StoreTypeOK
<1>4. seenRow \in Answers /\ seenRow.found = rows.found
  BY <1>2, <1>3 DEF Answers
<1>5. rows' \in Answers /\ rows'.found
  BY <1>1, <1>2, <1>4, MissedIsMissed
<1>6. ReaderTypes' /\ InPlace'
  BY <1>1, <1>2, <1>5 DEF ReaderInv, ReaderTypes, InPlace, Places
<1>7. ASSUME ~deleted' PROVE Gathered'
  <2>1. ~deleted /\ Gathered /\ rows' = seenRow
    BY <1>1, <1>7 DEF ReaderInv
  <2>2. rows.final = 1 => outcome = "ready"
    BY <2>1, FinalIsBehindAll DEF Gathered
  <2>3. /\ rows'.version = version /\ rows'.outcome = outcome /\ rows'.artifacts = rows.artifacts
        /\ rows'.lost = rows.lost /\ rows'.found = rows.found
        /\ rows'.final = rows.final /\ rows'.ready = rows.ready /\ rows'.texts = rows.texts
        /\ rows'.checked = rows.checked /\ rows'.provenance = rows.provenance
    BY <1>2, <2>1 DEF Answers
  <2> HIDE DEF found, seenRow
  <2> QED BY <1>1, <1>3, <2>1, <2>2, <2>3 DEF Gathered, Whole
<1> QED BY <1>1, <1>6, <1>7 DEF ReaderInv

LEMMA ProgressIsTyped ==
  Progress \in Progresses
<1> SUFFICES ASSUME NEW n \in StageNames
             PROVE  [state |-> StageState(n), completed |-> Cardinality(InState(n, "completed"))]
                      \in [state : StageWords, completed : 0 .. NumSegments + 1]
  BY DEF Progress, Progresses
<1>1. StageState(n) \in StageWords
  BY DEF StageState, StageWords
<1>2. Cardinality(InState(n, "completed")) \in 0 .. NumSegments + 1
  <2>1. InState(n, "completed") \in SUBSET RowsOf(n)
    BY DEF InState
  <2> QED BY <2>1, RowsAreCounted
<1> QED BY <1>1, <1>2

LEMMA AllIsDone ==
  ASSUME Completed = Stages, rows.outcome = "ready"
  PROVE  Progress = AllUnits
<1> SUFFICES ASSUME NEW n \in StageNames
             PROVE  /\ InState(n, "completed") = RowsOf(n) /\ StageState(n) = "completed"
  BY DEF Progress, AllUnits
<1>1. \A k \in RowsOf(n) : stage[k] = "completed"
  BY DEF RowsOf, Completed, Done
<1>2. InState(n, "completed") = RowsOf(n) /\ InState(n, "failed") = {}
  BY <1>1 DEF InState
<1> QED BY <1>2 DEF StageState, AllDone

LEMMA StagesAreRead ==
  ASSUME TypeOK, OrderInv, PlanInv, ReaderInv, SelectStages
  PROVE  ReaderInv'
<1> DEFINE complete == [rows EXCEPT !.stages = Progress]
           found == IF deleted THEN Missed("stages") ELSE complete
<1>1. /\ place = "stages" /\ reading # "none" /\ reading' = reading
      /\ rows' = found /\ place' = "answered"
      /\ UNCHANGED <<deleted, finalReady, validated, ReadySegments, version>>
  <2>1. Select("stages", found, "answered")
    BY DEF SelectStages
  <2> HIDE DEF found
  <2> QED BY <2>1, SelectsOnlyRead
<1>2. rows \in Answers /\ rows.found /\ ReaderTypes
  BY <1>1 DEF ReaderInv, ReaderTypes, InPlace
<1>3. complete \in Answers
  BY <1>2, ProgressIsTyped DEF Answers
<1>4. rows' \in Answers
  BY <1>1, <1>2, <1>3, MissedIsMissed
<1>5. ReaderTypes' /\ InPlace'
  BY <1>1, <1>2, <1>4 DEF ReaderInv, ReaderTypes, InPlace, Places
<1>6. ASSUME Whole' PROVE Backed'
  <2>1. ~deleted
    <3>1. rows'.lost = "nothing"
      BY <1>6 DEF Whole
    <3> QED BY <1>1, <1>2, <3>1, MissedIsMissed
  <2>2. Gathered /\ rows' = complete
    BY <1>1, <2>1 DEF ReaderInv
  <2>3. /\ rows'.stages = Progress /\ rows'.version = rows.version /\ rows'.outcome = rows.outcome
        /\ rows'.artifacts = rows.artifacts
        /\ rows'.final = rows.final /\ rows'.ready = rows.ready /\ rows'.texts = rows.texts
        /\ rows'.provenance = rows.provenance
    BY <1>2, <2>2 DEF Answers
  <2>4. Cardinality(rows.ready) <= Progress["mixing"].completed
    <3>1. "mixing" \in StageNames /\ rows.ready \in SUBSET ReadySegments
      BY <2>2 DEF StageNames, Gathered
    <3> QED BY <2>1, <3>1, ReadyIsMixed DEF OrderInv, Progress
  <2>5. rows.final = 1 => rows.ready = Segments /\ rows.outcome = "ready" /\ Progress = AllUnits
    BY <1>1, <2>1, <2>2, FinalIsBehindAll, AllIsDone DEF Gathered
  <2>6. AllUnits' = AllUnits
    BY DEF AllUnits, RowsOf
  <2>7. reading = "detail" =>
          /\ rows.texts \subseteq rows.provenance
          /\ rows.ready \subseteq rows.texts \cap rows.artifacts
          /\ rows.final = 1 => Project \in rows.artifacts
    <3>1. rows.texts \subseteq Segments
      BY <1>2 DEF Answers
    <3> QED BY <1>1, <2>2, <3>1 DEF Gathered
  <2>8. rows.version <= version'
    BY <1>1, <2>2 DEF Gathered
  <2> HIDE DEF found, complete
  <2> QED BY <1>1, <2>3, <2>4, <2>5, <2>6, <2>7, <2>8 DEF Backed
<1> QED BY <1>1, <1>5, <1>6 DEF ReaderInv

-----------------------------------------------------------------------------
(***************************************************************************)
(* The reader of a running project.                                        *)
(***************************************************************************)

LEMMA RequestEnds ==
  ASSUME EndRequest
  PROVE  ReaderInv'
BY NothingRead DEF EndRequest, ReaderInv, ReaderTypes, InPlace, Places

LEMMA ReadingChangesNothing ==
  ASSUME ReaderNext
  PROVE  [Next]_vars
<1>1. \A s \in Surfaces : Ask(s) => UNCHANGED vars
  BY DEF Ask
<1>2. Read => UNCHANGED vars
  BY DEF Read, Select, SelectSegments, SelectProvenance, SelectArtifacts, SelectGeneration,
     SelectStages
<1> QED BY <1>1, <1>2 DEF ReaderNext

LEMMA ReaderStep ==
  ASSUME TypeOK, OrderInv, PlanInv, ReaderInv, TypeOK', OrderInv', [ReaderNext]_<<vars, readVars>>
  PROVE  ReaderInv'
<1>1. CASE (Next \/ UNCHANGED vars) /\ UNCHANGED readVars
  BY <1>1, RowsGrowUnderTheReader
<1>2. ASSUME NEW s \in Surfaces, Ask(s) PROVE ReaderInv'
  BY <1>2, AskReads
<1>3. CASE Read
  BY <1>3, SegmentsAreRead, ProvenanceIsRead, ArtifactsAreRead, GenerationIsRead, StagesAreRead
     DEF Read
<1>4. CASE EndRequest
  BY <1>4, RequestEnds
<1> QED BY <1>1, <1>2, <1>3, <1>4 DEF ReaderNext

LEMMA ReaderSees ==
  ReaderSpec => [](TypeOK /\ OrderInv /\ PlanInv /\ ReaderInv)
<1>1. ReaderSpec => Spec
  <2>1. [ReaderNext]_<<vars, readVars>> => [Next]_vars
    BY ReadingChangesNothing
  <2> QED BY <2>1, PTL DEF ReaderSpec, Spec
<1>2. ReaderSpec => [](TypeOK /\ OrderInv /\ PlanInv)
  BY <1>1, TypeCorrect, OrderInvariant, PlanIsKept, PTL
<1>3. TypeOK /\ OrderInv /\ PlanInv /\ ReaderInv /\ TypeOK' /\ OrderInv'
        /\ [ReaderNext]_<<vars, readVars>> => ReaderInv'
  BY ReaderStep
<1>4. Init /\ ReadInit => ReaderInv
  BY ReaderInvInit
<1> QED BY <1>2, <1>3, <1>4, PTL DEF ReaderSpec

\* Whatever the reader gets was there and goes together, although it was read in
\* pieces: for every number of segments, workers, claims and faults.
THEOREM AnswersGoTogether == ReaderSpec => []AnswersAreBacked
<1>1. ReaderInv => AnswersAreBacked
  BY BackedIsBacked
<1> QED BY <1>1, ReaderSees, PTL

-----------------------------------------------------------------------------
(***************************************************************************)
(* The checks of the live verifier: each verdict and its condition.        *)
(***************************************************************************)

\* Which check First reports.
LEMMA FirstFails ==
  ASSUME NEW checks, DOMAIN checks \in SUBSET (1 .. 7)
  PROVE  \/ First(checks) = "none" /\ \A i \in DOMAIN checks : ~checks[i][1]
         \/ \E i \in DOMAIN checks :
              /\ checks[i][1] /\ First(checks) = checks[i][2]
              /\ \A j \in DOMAIN checks : checks[j][1] => i <= j
<1> DEFINE failed == {i \in DOMAIN checks : checks[i][1]}
<1>1. CASE failed = {}
  BY <1>1 DEF First
<1>2. CASE failed # {}
  <2>1. \E i \in failed : \A j \in failed : i <= j
    <3>1. failed \subseteq 1 .. 7
      OBVIOUS
    <3> HIDE DEF failed
    <3>2. \A i \in failed : i \in {1, 2, 3, 4, 5, 6, 7}
      BY <3>1
    <3> QED BY <1>2, <3>2
  <2> DEFINE i == CHOOSE i \in failed : \A j \in failed : i <= j
  <2>2. i \in failed /\ \A j \in failed : i <= j
    BY <2>1
  <2>3. First(checks) = checks[i][2]
    BY <1>2 DEF First
  <2> HIDE DEF i
  <2> QED BY <2>2, <2>3
<1> QED BY <1>1, <1>2

LEMMA CheckIs ==
  ASSUME NEW A \in BOOLEAN, NEW b, NEW c, c = <<A, b>>
  PROVE  (c[1] <=> A) /\ c[2] = b
<1>1. c[1] = A /\ c[2] = b
  OBVIOUS
<1> QED BY <1>1

LEMMA FirstOfThree ==
  ASSUME NEW checks, DOMAIN checks = 1 .. 3
  PROVE  First(checks) = IF checks[1][1] THEN checks[1][2]
                         ELSE IF checks[2][1] THEN checks[2][2]
                         ELSE IF checks[3][1] THEN checks[3][2] ELSE "none"
<1>1. DOMAIN checks \in SUBSET (1 .. 7) /\ \A i \in DOMAIN checks : i \in {1, 2, 3}
  OBVIOUS
<1>2. 1 \in DOMAIN checks /\ 2 \in DOMAIN checks /\ 3 \in DOMAIN checks
  OBVIOUS
<1> QED BY <1>1, <1>2, FirstFails

LEMMA FirstOfSeven ==
  ASSUME NEW checks, DOMAIN checks = 1 .. 7
  PROVE  First(checks) = IF checks[1][1] THEN checks[1][2]
                         ELSE IF checks[2][1] THEN checks[2][2]
                         ELSE IF checks[3][1] THEN checks[3][2]
                         ELSE IF checks[4][1] THEN checks[4][2]
                         ELSE IF checks[5][1] THEN checks[5][2]
                         ELSE IF checks[6][1] THEN checks[6][2]
                         ELSE IF checks[7][1] THEN checks[7][2] ELSE "none"
<1>1. DOMAIN checks \in SUBSET (1 .. 7) /\ \A i \in DOMAIN checks : i \in {1, 2, 3, 4, 5, 6, 7}
  OBVIOUS
<1>2. \A i \in {1, 2, 3, 4, 5, 6, 7} : i \in DOMAIN checks
  OBVIOUS
<1> QED BY <1>1, <1>2, FirstFails

LEMMA AnswerVerdictIs ==
  LET missing == IF surface = "list" THEN "project_missing_from_list" ELSE "http_error"
      older == rows.version < seen.version
      late == goal \in FirstPolls /\ \E n \in StageNames : rows.stages[n].completed # 0 IN
  AnswerVerdict =
    IF ~rows.found THEN missing
    ELSE IF rows.lost = "stages" THEN "unrecognized_error_envelope"
    ELSE IF rows.lost = "segments" THEN "invalid_segment_order"
    ELSE IF rows.lost = "generation" THEN "invalid_progress"
    ELSE IF older THEN "progress_version_regression"
    ELSE IF StageRegressed THEN "stage_progress_regression"
    ELSE IF late THEN "initial_progress_not_zero" ELSE "none"
<1> DEFINE missing == IF surface = "list" THEN "project_missing_from_list" ELSE "http_error"
           older == rows.version < seen.version
           late == goal \in FirstPolls /\ \E n \in StageNames : rows.stages[n].completed # 0
           lostFirst == ~rows.found
           noStages == rows.lost = "stages"
           noSegments == rows.lost = "segments"
           noGeneration == rows.lost = "generation"
           back == StageRegressed
           checks == << <<lostFirst, missing>>,
                        <<noStages, "unrecognized_error_envelope">>,
                        <<noSegments, "invalid_segment_order">>,
                        <<noGeneration, "invalid_progress">>,
                        <<older, "progress_version_regression">>,
                        <<back, "stage_progress_regression">>,
                        <<late, "initial_progress_not_zero">> >>
<1>1. AnswerVerdict = First(checks)
  BY DEF AnswerVerdict
<1>2. /\ lostFirst \in BOOLEAN /\ older \in BOOLEAN /\ late \in BOOLEAN /\ back \in BOOLEAN
      /\ noStages \in BOOLEAN /\ noSegments \in BOOLEAN
      /\ noGeneration \in BOOLEAN
  BY DEF StageRegressed
<1> HIDE DEF missing, older, late, lostFirst, noStages, noSegments, noGeneration, back
<1>3. /\ DOMAIN checks = 1 .. 7
      /\ checks[1] = <<lostFirst, missing>>
      /\ checks[2] = <<noStages, "unrecognized_error_envelope">>
      /\ checks[3] = <<noSegments, "invalid_segment_order">>
      /\ checks[4] = <<noGeneration, "invalid_progress">>
      /\ checks[5] = <<older, "progress_version_regression">>
      /\ checks[6] = <<back, "stage_progress_regression">>
      /\ checks[7] = <<late, "initial_progress_not_zero">>
  OBVIOUS
<1> HIDE DEF checks
<1>4. (checks[1][1] <=> lostFirst) /\ checks[1][2] = missing
  BY <1>2, <1>3, CheckIs
<1>5. (checks[2][1] <=> noStages) /\ checks[2][2] = "unrecognized_error_envelope"
  BY <1>2, <1>3, CheckIs
<1>6. (checks[3][1] <=> noSegments) /\ checks[3][2] = "invalid_segment_order"
  BY <1>2, <1>3, CheckIs
<1>7. (checks[4][1] <=> noGeneration) /\ checks[4][2] = "invalid_progress"
  BY <1>2, <1>3, CheckIs
<1>8. (checks[5][1] <=> older) /\ checks[5][2] = "progress_version_regression"
  BY <1>2, <1>3, CheckIs
<1>9. (checks[6][1] <=> back) /\ checks[6][2] = "stage_progress_regression"
  BY <1>2, <1>3, CheckIs
<1>10. (checks[7][1] <=> late) /\ checks[7][2] = "initial_progress_not_zero"
  BY <1>2, <1>3, CheckIs
<1>11. First(checks) = IF checks[1][1] THEN checks[1][2]
                       ELSE IF checks[2][1] THEN checks[2][2]
                       ELSE IF checks[3][1] THEN checks[3][2]
                       ELSE IF checks[4][1] THEN checks[4][2]
                       ELSE IF checks[5][1] THEN checks[5][2]
                       ELSE IF checks[6][1] THEN checks[6][2]
                       ELSE IF checks[7][1] THEN checks[7][2] ELSE "none"
  BY <1>3, FirstOfSeven
<1>12. First(checks) =
        IF lostFirst THEN missing
        ELSE IF noStages THEN "unrecognized_error_envelope"
        ELSE IF noSegments THEN "invalid_segment_order"
        ELSE IF noGeneration THEN "invalid_progress"
        ELSE IF older THEN "progress_version_regression"
        ELSE IF back THEN "stage_progress_regression"
        ELSE IF late THEN "initial_progress_not_zero" ELSE "none"
  BY <1>4, <1>5, <1>6, <1>7, <1>8, <1>9, <1>10, <1>11
<1> QED BY <1>1, <1>12 DEF missing, older, late, lostFirst, noStages, noSegments, noGeneration, back

LEMMA TextVerdictIs ==
  LET unproven == ~(rows.texts \subseteq rows.provenance)
      early == rows.ready # {} /\ (~(rows.ready \subseteq rows.texts) \/ TextSeen # "earlier")
      unstored == ~(rows.ready \subseteq rows.artifacts) IN
  TextVerdict = IF unproven THEN "invalid_verified_text"
                ELSE IF early THEN "ready_without_prior_verified_text"
                ELSE IF unstored THEN "ready_without_segment_artifact" ELSE "none"
<1> DEFINE unproven == ~(rows.texts \subseteq rows.provenance)
           early == rows.ready # {} /\ (~(rows.ready \subseteq rows.texts)
                                         \/ TextSeen # "earlier")
           unstored == ~(rows.ready \subseteq rows.artifacts)
           checks == << <<unproven, "invalid_verified_text">>,
                        <<early, "ready_without_prior_verified_text">>,
                        <<unstored, "ready_without_segment_artifact">> >>
<1>1. TextVerdict = First(checks)
  BY DEF TextVerdict
<1>2. unproven \in BOOLEAN /\ early \in BOOLEAN /\ unstored \in BOOLEAN
  OBVIOUS
<1> HIDE DEF unproven, early, unstored
<1>3. /\ DOMAIN checks = 1 .. 3
      /\ checks[1] = <<unproven, "invalid_verified_text">>
      /\ checks[2] = <<early, "ready_without_prior_verified_text">>
      /\ checks[3] = <<unstored, "ready_without_segment_artifact">>
  OBVIOUS
<1> HIDE DEF checks
<1>4. (checks[1][1] <=> unproven) /\ checks[1][2] = "invalid_verified_text"
  BY <1>2, <1>3, CheckIs
<1>5. (checks[2][1] <=> early) /\ checks[2][2] = "ready_without_prior_verified_text"
  BY <1>2, <1>3, CheckIs
<1>6. (checks[3][1] <=> unstored) /\ checks[3][2] = "ready_without_segment_artifact"
  BY <1>2, <1>3, CheckIs
<1>7. First(checks) = IF unproven THEN "invalid_verified_text"
                      ELSE IF early THEN "ready_without_prior_verified_text"
                      ELSE IF unstored THEN "ready_without_segment_artifact" ELSE "none"
  BY <1>3, <1>4, <1>5, <1>6, FirstOfThree
<1> QED BY <1>1, <1>7 DEF unproven, early, unstored

LEMMA TerminalVerdictIs ==
  LET unready == rows.status # "ready" \/ rows.outcome # "ready" \/ rows.final = 0
      open == \E n \in StageNames :
                rows.stages[n] # [state |-> "completed", completed |-> Cardinality(RowsOf(n))]
      gone == ~(Scopes \subseteq rows.artifacts) \/ TextSeen = "never" \/ ~ReadySeen IN
  TerminalVerdict = IF unready THEN "terminal_project_not_ready"
                    ELSE IF open THEN "terminal_stages_incomplete"
                    ELSE IF gone THEN "missing_terminal_artifact" ELSE "none"
<1> DEFINE unready == rows.status # "ready" \/ rows.outcome # "ready" \/ rows.final = 0
           open == \E n \in StageNames :
                     rows.stages[n] # [state |-> "completed",
                                       completed |-> Cardinality(RowsOf(n))]
           gone == ~(Scopes \subseteq rows.artifacts) \/ TextSeen = "never" \/ ~ReadySeen
           checks == << <<unready, "terminal_project_not_ready">>,
                        <<open, "terminal_stages_incomplete">>,
                        <<gone, "missing_terminal_artifact">> >>
<1>1. TerminalVerdict = First(checks)
  BY DEF TerminalVerdict
<1>2. unready \in BOOLEAN /\ open \in BOOLEAN /\ gone \in BOOLEAN
  OBVIOUS
<1> HIDE DEF unready, open, gone
<1>3. /\ DOMAIN checks = 1 .. 3
      /\ checks[1] = <<unready, "terminal_project_not_ready">>
      /\ checks[2] = <<open, "terminal_stages_incomplete">>
      /\ checks[3] = <<gone, "missing_terminal_artifact">>
  OBVIOUS
<1> HIDE DEF checks
<1>4. (checks[1][1] <=> unready) /\ checks[1][2] = "terminal_project_not_ready"
  BY <1>2, <1>3, CheckIs
<1>5. (checks[2][1] <=> open) /\ checks[2][2] = "terminal_stages_incomplete"
  BY <1>2, <1>3, CheckIs
<1>6. (checks[3][1] <=> gone) /\ checks[3][2] = "missing_terminal_artifact"
  BY <1>2, <1>3, CheckIs
<1>7. First(checks) = IF unready THEN "terminal_project_not_ready"
                      ELSE IF open THEN "terminal_stages_incomplete"
                      ELSE IF gone THEN "missing_terminal_artifact" ELSE "none"
  BY <1>3, <1>4, <1>5, <1>6, FirstOfThree
<1> QED BY <1>1, <1>7 DEF unready, open, gone

-----------------------------------------------------------------------------
(***************************************************************************)
(* The live verifier is a reader of a running project.                     *)
(***************************************************************************)

ClientTypes ==
  /\ surface \in Surfaces /\ goal \in Goals
  /\ seen \in [version : {-1} \cup Nat, stages : Progresses]
  /\ textSeen \in {"never", "at_last_version", "earlier"}
  /\ readySeen \in BOOLEAN
  /\ verdict \in Verdicts
  /\ meddled \in BOOLEAN

\* What it remembers is not ahead of the service, nor of the answer under way; it
\* reads only while it polls, and asks for retired things only once they are.
Remembered ==
  /\ seen.version <= version
  /\ place \in {"stages", "answered"} /\ Whole => seen.version <= rows.version
  /\ goal \notin Polls => reading = "none"
  /\ goal \in {"check_project", "check_artifacts"} => deleted

ClientInv == ClientTypes /\ Remembered /\ NothingPublishedIsMissed

LEMMA CleanupDeletes ==
  ASSUME Cleanup
  PROVE  /\ UNCHANGED readVars /\ (UNCHANGED vars \/ ClientDeletes) /\ deleted'
<1>1. CASE deleted /\ UNCHANGED storeVars
  BY <1>1 DEF Cleanup, vars, storeVars, projRow, deleted
<1>2. CASE ~deleted /\ DeleteProject
  BY <1>2 DEF Cleanup, ClientDeletes, DeleteProject, deleted
<1> QED BY <1>1, <1>2 DEF Cleanup

LEMMA SurfaceStays ==
  ASSUME [VerifierNext]_verifierVars
  PROVE  surface' = surface
BY DEF VerifierNext, verifierVars, clientVars, Serve, Meddle, Verify, Poll, AnswerLost,
   CreateAgain, TakeListAnswer, TakeDetailAnswer, Download, Cleanup, CheckRetired, GiveUp

LEMMA VerifierReads ==
  ASSUME surface \in Surfaces, [VerifierNext]_verifierVars
  PROVE  [ReaderNext]_<<vars, readVars>>
<1>1. CASE Serve \/ Meddle
  BY <1>1 DEF Serve, Meddle, Next, ReaderNext
<1>2. CASE Poll \/ Read
  BY <1>2 DEF Poll, ReaderNext
<1>3. CASE AnswerLost \/ TakeListAnswer \/ TakeDetailAnswer \/ GiveUp
  BY <1>3 DEF AnswerLost, TakeListAnswer, TakeDetailAnswer, GiveUp, ReaderNext
<1>4. CASE Cleanup
  BY <1>4, CleanupDeletes DEF ReaderNext, Next
<1>5. CASE UNCHANGED <<vars, readVars>>
  BY <1>5
<1>6. CreateAgain \/ CheckRetired \/ (\E s, g, h : Download(s, g, h))
        => UNCHANGED <<vars, readVars>>
  BY DEF CreateAgain, CheckRetired, Download
<1>7. UNCHANGED verifierVars => UNCHANGED <<vars, readVars>>
  BY DEF verifierVars
<1>8. VerifierNext => Serve \/ Meddle \/ Read \/ Poll \/ AnswerLost \/ CreateAgain
        \/ TakeListAnswer \/ TakeDetailAnswer \/ GiveUp \/ Cleanup \/ CheckRetired \/ \E s, g, h : Download(s, g, h)
  BY DEF VerifierNext, Verify
<1> QED BY <1>1, <1>2, <1>3, <1>4, <1>5, <1>6, <1>7, <1>8

LEMMA VerifierIsAReader ==
  VerifierSpec => ReaderSpec /\ [](surface \in Surfaces)
<1>1. VerifierInit => Init /\ ReadInit /\ surface \in Surfaces
  BY DEF VerifierInit
<1>2. surface \in Surfaces /\ [VerifierNext]_verifierVars => (surface \in Surfaces)'
  BY SurfaceStays
<1>3. surface \in Surfaces /\ [VerifierNext]_verifierVars => [ReaderNext]_<<vars, readVars>>
  BY VerifierReads
<1> QED BY <1>1, <1>2, <1>3, PTL DEF VerifierSpec, ReaderSpec

LEMMA NothingRemembered ==
  Unseen \in [version : {-1} \cup Nat, stages : Progresses] /\ Unseen.version = -1
<1>1. NoProgress \in Progresses
  BY NothingRead DEF NoRows, Answers
<1> QED BY <1>1 DEF Unseen

LEMMA ClientInvInit == VerifierInit => ClientInv
<1> SUFFICES ASSUME VerifierInit PROVE ClientInv
  OBVIOUS
<1>1. ClientTypes
  BY NothingRemembered DEF VerifierInit, ClientTypes, Surfaces, Goals, Polls, FirstPolls, Verdicts
<1>2. Remembered
  BY NothingRemembered DEF VerifierInit, Remembered, ReadInit, Init, StoreInit
<1>3. NothingPublishedIsMissed
  BY DEF VerifierInit, NothingPublishedIsMissed, IntegrityVerdicts
<1> QED BY <1>1, <1>2, <1>3 DEF ClientInv

\* While the client waits.
LEMMA ClientWaits ==
  ASSUME TypeOK, OrderInv, ClientInv, [Next]_vars, TypeOK', OrderInv',
         UNCHANGED <<readVars, clientVars>>, meddled' \in BOOLEAN
  PROVE  ClientInv'
<1>1. UNCHANGED <<reading, place, rows, surface, goal, seen, textSeen, readySeen, verdict>>
  BY DEF readVars, clientVars
<1>2. ClientTypes' /\ NothingPublishedIsMissed'
  BY <1>1 DEF ClientInv, ClientTypes, NothingPublishedIsMissed
<1>3. version' >= version /\ version \in Nat /\ version' \in Nat
  BY VersionGrows DEF TypeOK, StoreTypeOK
<1>4. seen.version <= version'
  BY <1>3 DEF ClientInv, ClientTypes, Remembered
<1>5. deleted => deleted'
  BY RowsGrow
<1> QED BY <1>1, <1>2, <1>4, <1>5 DEF ClientInv, Remembered, Whole

\* While it reads.
LEMMA ClientReads ==
  ASSUME TypeOK, ReaderInv, ClientInv, UNCHANGED <<clientVars, meddled>>, Poll \/ Read
  PROVE  ClientInv'
<1>1. /\ UNCHANGED <<surface, goal, seen, textSeen, readySeen, verdict, meddled>>
      /\ version \in Nat
  BY DEF clientVars, TypeOK, StoreTypeOK
<1>2. ClientTypes' /\ NothingPublishedIsMissed'
  BY <1>1 DEF ClientInv, ClientTypes, NothingPublishedIsMissed
<1>3. CASE Poll
  <2>1. /\ UNCHANGED vars /\ goal \in Polls
        /\ \/ rows' = NoRows
           \/ place' \in {"generation", "segments"}
    BY <1>3 DEF Poll, Ask
  <2>2. deleted' = deleted /\ version' = version
    BY <2>1 DEF vars, storeVars, genRow, projRow, deleted
  <2> QED BY <1>1, <1>2, <2>1, <2>2 DEF ClientInv, Remembered, Whole, NoRows
<1>4. ASSUME NEW p, NEW found, NEW q, Select(p, found, q),
             q \in {"stages", "answered"} /\ found.found /\ found.lost = "nothing"
               => seen.version <= found.version
      PROVE  ClientInv'
  <2>1. /\ reading' = reading /\ reading # "none" /\ rows' = found /\ place' = q
        /\ UNCHANGED <<deleted, version>>
    BY <1>4, SelectsOnlyRead
  <2> QED BY <1>1, <1>2, <1>4, <2>1 DEF ClientInv, Remembered, Whole
<1>5. CASE SelectSegments
  <2> DEFINE found == IF deleted THEN Missed("segments")
                      ELSE [rows EXCEPT !.ready = ReadySegments, !.texts = validated]
  <2>1. Select("segments", found, "provenance")
    BY <1>5 DEF SelectSegments
  <2> HIDE DEF found
  <2> QED BY <1>4, <2>1
<1>6. CASE SelectProvenance
  <2> DEFINE s == Cardinality(rows.checked) + 1
             found == [rows EXCEPT !.checked = @ \cup {s},
                                   !.provenance = @ \cup (validated \cap {s})]
             q == IF s = NumSegments THEN "artifacts" ELSE "provenance"
  <2>1. Select("provenance", found, q)
    BY <1>6 DEF SelectProvenance
  <2>2. q \notin {"stages", "answered"}
    OBVIOUS
  <2> HIDE DEF found, q
  <2> QED BY <1>4, <2>1, <2>2
<1>7. CASE SelectArtifacts
  <2> DEFINE found == [rows EXCEPT !.artifacts = {s \in Scopes : artifacts[s] > 0}]
  <2>1. Select("artifacts", found, "generation")
    BY <1>7 DEF SelectArtifacts
  <2> HIDE DEF found
  <2> QED BY <1>4, <2>1
<1>8. rows \in Answers /\ ReaderTypes
  BY DEF ReaderInv, ReaderTypes
<1>9. CASE SelectGeneration
  <2> DEFINE seenRow == [rows EXCEPT !.disposition = disposition, !.outcome = outcome,
                                     !.version = version]
             found == IF deleted THEN Missed("generation") ELSE seenRow
  <2>1. Select("generation", found, "stages")
    BY <1>9 DEF SelectGeneration
  <2>2. seenRow.version = version
    BY <1>8 DEF Answers
  <2>3. found.lost = "nothing" => found = seenRow
    BY <1>8, MissedIsMissed
  <2>4. seen.version <= version
    BY DEF ClientInv, Remembered
  <2> HIDE DEF found, seenRow
  <2> QED BY <1>4, <2>1, <2>2, <2>3, <2>4
<1>10. CASE SelectStages
  <2> DEFINE complete == [rows EXCEPT !.stages = Progress]
             found == IF deleted THEN Missed("stages") ELSE complete
  <2>1. Select("stages", found, "answered")
    BY <1>10 DEF SelectStages
  <2>2. complete.version = rows.version /\ complete.lost = rows.lost /\ complete.found = rows.found
    BY <1>8 DEF Answers
  <2>3. found.lost = "nothing" => found = complete
    BY <1>8, MissedIsMissed
  <2>4. place = "stages"
    BY <2>1, SelectsOnlyRead
  <2>5. rows.found /\ rows.lost = "nothing" => seen.version <= rows.version
    BY <2>4 DEF ClientInv, Remembered, Whole
  <2> HIDE DEF found, complete
  <2> QED BY <1>4, <2>1, <2>2, <2>3, <2>5
<1> QED BY <1>3, <1>5, <1>6, <1>7, <1>9, <1>10 DEF Read

\* What a step may do to the memory of the polls.
Recalls ==
  \/ KeepPolls
  \/ ForgetPolls
  \/ /\ Remember /\ rows \in Answers /\ rows.version <= version
     /\ textSeen' \in {"never", "at_last_version", "earlier"} /\ readySeen' \in BOOLEAN

\* Between two requests.
LEMMA ClientGoesOn ==
  ASSUME TypeOK, ReaderInv, ClientInv, UNCHANGED <<vars, surface, meddled>>,
         EndRequest \/ (reading = "none" /\ UNCHANGED readVars),
         goal' \in Goals, verdict' \in Verdicts \ IntegrityVerdicts,
         goal' \in {"check_project", "check_artifacts"} => deleted,
         Recalls
  PROVE  ClientInv'
<1>1. reading' = "none" /\ place' = "start"
  BY DEF EndRequest, readVars, ReaderInv, InPlace
<1>2. deleted' = deleted /\ version' = version /\ version \in Nat
  BY DEF vars, storeVars, genRow, projRow, deleted, TypeOK, StoreTypeOK
<1>3. /\ seen' \in [version : {-1} \cup Nat, stages : Progresses] /\ seen'.version <= version
      /\ textSeen' \in {"never", "at_last_version", "earlier"} /\ readySeen' \in BOOLEAN
  <2>1. CASE KeepPolls
    BY <2>1 DEF KeepPolls, ClientInv, ClientTypes, Remembered
  <2>2. CASE ForgetPolls
    <3>1. seen' = Unseen /\ textSeen' = "never" /\ readySeen' = FALSE
      BY <2>2 DEF ForgetPolls
    <3>2. Unseen.version <= version
      BY <1>2, NothingRemembered
    <3> QED BY <3>1, <3>2, NothingRemembered
  <2>3. CASE Remember /\ rows \in Answers /\ rows.version <= version
               /\ textSeen' \in {"never", "at_last_version", "earlier"} /\ readySeen' \in BOOLEAN
    <3>1. rows.version \in Nat /\ rows.stages \in Progresses
      BY <2>3 DEF Answers
    <3> QED BY <2>3, <3>1 DEF Remember
  <2> QED BY <2>1, <2>2, <2>3 DEF Recalls
<1>4. ClientTypes'
  BY <1>3 DEF ClientInv, ClientTypes
<1>5. Remembered'
  BY <1>1, <1>2, <1>3 DEF Remembered
<1> QED BY <1>4, <1>5 DEF ClientInv, NothingPublishedIsMissed

\* The answer that it takes.
LEMMA AnswerVerdicts ==
  ASSUME ReaderInv, ClientInv, place = "answered"
  PROVE  /\ AnswerVerdict \in Verdicts \ IntegrityVerdicts
         /\ AnswerVerdict = "none" => Whole /\ Backed /\ ~StageRegressed
<1>1. rows \in Answers /\ rows.lost \in {"nothing", "segments", "generation", "stages"}
      /\ rows.version \in Nat
  BY DEF ReaderInv, ReaderTypes, Answers
<1>2. Whole => Backed /\ seen.version <= rows.version
  BY DEF ReaderInv, ClientInv, Remembered
<1>3. seen.version \in Int
  BY DEF ClientInv, ClientTypes
<1>4. Whole => ~(rows.version < seen.version)
  BY <1>1, <1>2, <1>3
<1>5. rows.found /\ rows.lost \notin {"stages", "segments", "generation"} <=> Whole
  BY <1>1 DEF Whole
<1> HIDE DEF Whole
<1>6. AnswerVerdict # "progress_version_regression"
  BY <1>4, <1>5, AnswerVerdictIs
<1>7. AnswerVerdict = "none" => Whole /\ ~StageRegressed
  BY <1>5, AnswerVerdictIs
<1>8. AnswerVerdict \in
        {"project_missing_from_list", "http_error", "unrecognized_error_envelope",
         "invalid_segment_order", "invalid_progress", "progress_version_regression",
         "stage_progress_regression", "initial_progress_not_zero", "none"}
  BY AnswerVerdictIs
<1> QED BY <1>2, <1>6, <1>7, <1>8 DEF Verdicts, Rejections, IntegrityVerdicts

LEMMA TextVerdicts ==
  ASSUME reading = "detail", Backed
  PROVE  TextVerdict \in {"ready_without_prior_verified_text", "none"}
<1>1. rows.texts \subseteq rows.provenance /\ rows.ready \subseteq rows.artifacts
  BY DEF Backed
<1> QED BY <1>1, TextVerdictIs

LEMMA TerminalVerdicts ==
  ASSUME rows \in Answers, reading = "detail", Backed
  PROVE  /\ TerminalVerdict \in {"terminal_project_not_ready", "none"}
         /\ TerminalVerdict = "none" => rows.final = 1
<1>1. rows.final \in {0, 1}
  BY DEF Answers
<1>2. CASE rows.final = 0
  BY <1>2, TerminalVerdictIs
<1>3. CASE rows.final = 1
  <2>1. /\ rows.ready = Segments /\ rows.ready \subseteq rows.texts \cap rows.artifacts
        /\ Project \in rows.artifacts /\ rows.stages = AllUnits
    BY <1>3 DEF Backed
  <2>2. Scopes \subseteq rows.artifacts
    BY <2>1 DEF Scopes
  <2>3. \A n \in StageNames :
          rows.stages[n] = [state |-> "completed", completed |-> Cardinality(RowsOf(n))]
    BY <2>1 DEF AllUnits
  <2>4. 1 \in Segments
    BY NumSegmentsAssumption DEF Segments
  <2>5. TextSeen # "never" /\ ReadySeen
    BY <2>1, <2>4 DEF TextSeen, ReadySeen
  <2> QED BY <1>3, <2>2, <2>3, <2>5, TerminalVerdictIs
<1> QED BY <1>1, <1>2, <1>3

LEMMA PollGoals ==
  /\ "poll" \in Goals /\ "first_poll" \in Goals /\ "stop" \in Goals /\ "download_segment" \in Goals
  /\ "download_final" \in Goals /\ "delete" \in Goals /\ "check_project" \in Goals
  /\ "check_artifacts" \in Goals /\ "create_again" \in Goals
BY DEF Goals, Polls, FirstPolls

LEMMA AnswerIsTaken ==
  ASSUME TypeOK, ReaderInv, ClientInv, TakeListAnswer \/ TakeDetailAnswer
  PROVE  ClientInv'
<1>1. /\ place = "answered" /\ EndRequest /\ UNCHANGED <<vars, surface, meddled>>
  BY DEF TakeListAnswer, TakeDetailAnswer, Answered
<1>2. /\ AnswerVerdict \in Verdicts \ IntegrityVerdicts
      /\ AnswerVerdict = "none" => Whole /\ Backed
  BY <1>1, AnswerVerdicts
<1>3. rows \in Answers /\ (Backed => rows.version <= version)
  BY DEF ReaderInv, ReaderTypes, Backed
<1>4. ASSUME NEW v \in Verdicts \ IntegrityVerdicts, Conclude(v)
      PROVE  ClientInv'
  BY <1>1, <1>4, PollGoals, ClientGoesOn DEF Conclude, Recalls
<1>5. verdict \in Verdicts \ IntegrityVerdicts
  BY DEF ClientInv, ClientTypes, NothingPublishedIsMissed
<1>6. CASE TakeListAnswer
  <2>1. CASE AnswerVerdict # "none"
    BY <1>2, <1>4, <1>6, <2>1 DEF TakeListAnswer
  <2>2. CASE AnswerVerdict = "none"
    <3>1. Proceed("poll") /\ Remember /\ UNCHANGED <<textSeen, readySeen>>
      BY <1>6, <2>2 DEF TakeListAnswer
    <3>2. textSeen' \in {"never", "at_last_version", "earlier"} /\ readySeen' \in BOOLEAN
      BY <3>1 DEF ClientInv, ClientTypes
    <3> QED BY <1>1, <1>2, <1>3, <1>5, <2>2, <3>1, <3>2, PollGoals, ClientGoesOn DEF Proceed, Recalls
  <2> QED BY <2>1, <2>2
<1>7. CASE TakeDetailAnswer
  <2> DEFINE v == IF AnswerVerdict # "none" THEN AnswerVerdict ELSE TextVerdict
             last == goal = "poll" /\ rows.disposition = "terminal"
  <2>1. reading = "detail"
    BY <1>7 DEF TakeDetailAnswer, Answered
  <2>2. v \in Verdicts \ IntegrityVerdicts
    <3>1. CASE AnswerVerdict # "none"
      BY <1>2, <3>1
    <3>2. CASE AnswerVerdict = "none"
      BY <1>2, <2>1, <3>2, TextVerdicts DEF Verdicts, IntegrityVerdicts
    <3> QED BY <3>1, <3>2
  <2>3. CASE v # "none"
    BY <1>4, <1>7, <2>2, <2>3 DEF TakeDetailAnswer
  <2>4. CASE v = "none"
    <3>1. Backed
      BY <1>2, <2>4
    <3>2. TerminalVerdict \in Verdicts \ IntegrityVerdicts
      BY <1>3, <2>1, <3>1, TerminalVerdicts DEF Verdicts, IntegrityVerdicts
    <3>3. CASE last /\ TerminalVerdict # "none"
      <4>1. Conclude(TerminalVerdict)
        BY <1>7, <2>4, <3>3 DEF TakeDetailAnswer
      <4> QED BY <1>4, <3>2, <4>1
    <3>4. CASE last /\ TerminalVerdict = "none"
      <4>1. Proceed("download_segment") /\ ForgetPolls
        BY <1>7, <2>4, <3>4 DEF TakeDetailAnswer
      <4> QED BY <1>1, <1>5, <4>1, PollGoals, ClientGoesOn DEF Proceed, Recalls
    <3>5. CASE ~last
      <4>1. /\ Proceed(IF goal = "create" THEN "first_poll" ELSE "poll")
            /\ Remember /\ textSeen' = TextSeen /\ readySeen' = ReadySeen
        BY <1>7, <2>4, <3>5 DEF TakeDetailAnswer
      <4>2. textSeen' \in {"never", "at_last_version", "earlier"} /\ readySeen' \in BOOLEAN
        <5>1. TextSeen \in {"never", "at_last_version", "earlier"}
          BY DEF TextSeen, ClientInv, ClientTypes
        <5>2. ReadySeen \in BOOLEAN
          BY DEF ReadySeen, ClientInv, ClientTypes
        <5> QED BY <4>1, <5>1, <5>2
      <4>3. goal' \in {"first_poll", "poll"} /\ verdict' = verdict
        BY <4>1 DEF Proceed
      <4> QED BY <1>1, <1>3, <1>5, <3>1, <4>1, <4>2, <4>3, PollGoals, ClientGoesOn DEF Recalls
    <3> QED BY <3>3, <3>4, <3>5
  <2> QED BY <2>3, <2>4
<1> QED BY <1>6, <1>7

\* Without reading.
LEMMA ClientFinishes ==
  ASSUME TypeOK, OrderInv, ReaderInv, ClientInv,
         \/ CreateAgain
         \/ Download(1, "download_segment", "download_final")
         \/ Download(Project, "download_final", "delete")
         \/ CheckRetired
  PROVE  ClientInv'
<1>1. /\ UNCHANGED <<vars, surface, meddled>> /\ UNCHANGED readVars
      /\ goal \in {"create_again", "download_segment", "download_final", "check_project",
                   "check_artifacts"}
  BY DEF CreateAgain, Download, CheckRetired
<1>2. reading = "none"
  BY <1>1 DEF ClientInv, Remembered, Polls, FirstPolls
<1>3. ASSUME NEW v \in Verdicts \ IntegrityVerdicts, Conclude(v)
      PROVE  ClientInv'
  BY <1>1, <1>2, <1>3, PollGoals, ClientGoesOn DEF Conclude, Recalls
<1>4. verdict \in Verdicts \ IntegrityVerdicts
  BY DEF ClientInv, ClientTypes, NothingPublishedIsMissed
<1>5. ASSUME NEW g \in Goals, Proceed(g), KeepPolls, g \in {"check_project", "check_artifacts"} => deleted
      PROVE  ClientInv'
  BY <1>1, <1>2, <1>4, <1>5, ClientGoesOn DEF Proceed, Recalls
<1>6. {"http_error", "verified", "unrecognized_error_on_create"} \subseteq Verdicts \ IntegrityVerdicts
  BY DEF Verdicts, Rejections, IntegrityVerdicts
<1>7. ASSUME NEW s, NEW g, NEW h, Download(s, g, h), h \in {"download_final", "delete"}
      PROVE  ClientInv'
  <2>1. (Proceed(h) /\ KeepPolls) \/ Conclude("http_error")
    BY <1>7 DEF Download
  <2> QED BY <1>3, <1>5, <1>6, <1>7, <2>1, PollGoals
<1>8. CASE CheckRetired
  <2>1. deleted /\ \A s \in Scopes : artifacts[s] = 0
    <3>1. deleted
      BY <1>8 DEF CheckRetired, ClientInv, Remembered
    <3> QED BY <3>1 DEF OrderInv, RowsInv, DeletedRows
  <2>2. (Proceed("check_artifacts") /\ KeepPolls) \/ Conclude("verified")
    BY <1>8, <2>1 DEF CheckRetired
  <2> QED BY <1>3, <1>5, <1>6, <2>1, <2>2, PollGoals
<1>9. CASE CreateAgain
  BY <1>3, <1>6, <1>9 DEF CreateAgain
<1> QED BY <1>7, <1>8, <1>9

LEMMA ClientCleansUp ==
  ASSUME TypeOK, OrderInv, ReaderInv, ClientInv, TypeOK', OrderInv', Cleanup
  PROVE  ClientInv'
<1>1. UNCHANGED readVars /\ (UNCHANGED vars \/ ClientDeletes) /\ deleted'
  BY CleanupDeletes
<1>2. UNCHANGED <<surface, meddled, seen, textSeen, readySeen, verdict>>
      /\ goal' \in {"delete", "check_project"} /\ goal = "delete"
  BY DEF Cleanup, Proceed, KeepPolls
<1>3. UNCHANGED <<reading, place, rows>> /\ reading = "none" /\ place = "start"
  BY <1>1, <1>2 DEF readVars, ClientInv, Remembered, ReaderInv, InPlace, Polls, FirstPolls
<1>4. version' >= version /\ version \in Nat /\ version' \in Nat
  BY <1>1, VersionGrows DEF Next, TypeOK, StoreTypeOK
<1>5. ClientTypes' /\ NothingPublishedIsMissed'
  BY <1>2, PollGoals DEF ClientInv, ClientTypes, NothingPublishedIsMissed
<1>6. seen.version <= version'
  BY <1>4 DEF ClientInv, ClientTypes, Remembered
<1> QED BY <1>1, <1>2, <1>3, <1>5, <1>6 DEF ClientInv, Remembered

LEMMA ClientStep ==
  ASSUME TypeOK, OrderInv, ReaderInv, ClientInv, TypeOK', OrderInv', [VerifierNext]_verifierVars
  PROVE  ClientInv'
<1>1. CASE Serve \/ Meddle \/ UNCHANGED verifierVars
  <2>1. [Next]_vars /\ UNCHANGED <<readVars, clientVars>>
    BY <1>1 DEF Serve, Meddle, Next, verifierVars
  <2>2. meddled' \in BOOLEAN
    BY <1>1 DEF Serve, Meddle, verifierVars, ClientInv, ClientTypes
  <2> QED BY <2>1, <2>2, ClientWaits
<1>2. CASE Poll \/ (Read /\ UNCHANGED <<clientVars, meddled>>)
  <2>1. UNCHANGED <<clientVars, meddled>> /\ (Poll \/ Read)
    BY <1>2 DEF Poll
  <2> QED BY <2>1, ClientReads
<1>3. CASE AnswerLost \/ GiveUp
  <2>1. EndRequest /\ UNCHANGED <<vars, surface, meddled>>
    BY <1>3 DEF AnswerLost, GiveUp
  <2>2. verdict \in Verdicts \ IntegrityVerdicts /\ "gave_up" \in Verdicts \ IntegrityVerdicts
    BY DEF ClientInv, ClientTypes, NothingPublishedIsMissed, Verdicts, IntegrityVerdicts
  <2>3. CASE AnswerLost
    <3>1. goal' \in {goal, "create_again"} /\ UNCHANGED verdict /\ KeepPolls
      BY <2>3 DEF AnswerLost, KeepPolls
    <3>2. goal' \in Goals /\ (goal' \in {"check_project", "check_artifacts"} => deleted)
      BY <3>1, PollGoals DEF ClientInv, ClientTypes, Remembered
    <3> QED BY <2>1, <2>2, <3>1, <3>2, ClientGoesOn DEF Recalls
  <2>4. CASE GiveUp
    <3>1. goal' = "stop" /\ verdict' = "gave_up" /\ ForgetPolls
      BY <2>4 DEF GiveUp, Conclude
    <3> QED BY <2>1, <2>2, <3>1, PollGoals, ClientGoesOn DEF Recalls
  <2> QED BY <1>3, <2>3, <2>4
<1>4. CASE TakeListAnswer \/ TakeDetailAnswer
  BY <1>4, AnswerIsTaken
<1>5. CASE \/ CreateAgain
           \/ Download(1, "download_segment", "download_final")
           \/ Download(Project, "download_final", "delete")
           \/ CheckRetired
  BY <1>5, ClientFinishes
<1>6. CASE Cleanup
  BY <1>6, ClientCleansUp
<1> QED BY <1>1, <1>2, <1>3, <1>4, <1>5, <1>6 DEF VerifierNext, Verify

LEMMA VerifierSees ==
  VerifierSpec => [](TypeOK /\ OrderInv /\ PlanInv /\ ReaderInv /\ ClientInv)
<1>1. VerifierSpec => [](TypeOK /\ OrderInv /\ PlanInv /\ ReaderInv)
  BY VerifierIsAReader, ReaderSees, PTL
<1>2. TypeOK /\ OrderInv /\ ReaderInv /\ ClientInv /\ TypeOK' /\ OrderInv'
        /\ [VerifierNext]_verifierVars => ClientInv'
  BY ClientStep
<1> QED BY <1>1, <1>2, ClientInvInit, PTL DEF VerifierSpec

\* The state of the verifier is as declared.
THEOREM VerifierTypes == VerifierSpec => []VerifierTypeOK
<1>1. ReaderInv /\ ClientInv => VerifierTypeOK
  <2> SUFFICES ASSUME ReaderInv, ClientInv PROVE VerifierTypeOK
    OBVIOUS
  <2>1. ReadTypeOK
    BY ReaderTypesSuffice DEF ReaderInv
  <2> QED BY <2>1 DEF ClientInv, ClientTypes, VerifierTypeOK
<1> QED BY <1>1, VerifierSees, PTL

\* What the verifier is answered was there and goes together.
THEOREM VerifierIsAnswered == VerifierSpec => []AnswersAreBacked
BY VerifierIsAReader, AnswersGoTogether, PTL

\* The verifier never finds that the service lost or mixed up what it published,
\* whatever crashes, stalls, is cancelled or deleted, for every number of
\* workers, claims and faults.
THEOREM ServiceIsNotAccused == VerifierSpec => []NothingPublishedIsMissed
BY VerifierSees, PTL DEF ClientInv

-----------------------------------------------------------------------------
(***************************************************************************)
(* Why the progress of a project does not go back under its first claim:   *)
(* one worker walks, and starts each stage once.                           *)
(***************************************************************************)

\* The speech of a segment has been made, or begun, only by a worker that has
\* its mix before it or behind it.
Spoken(w, s) ==
  stage[Speech(s)] # "pending" =>
    \/ Done(Mixing(s)) \/ at[w] = Mixing(s)
    \/ at[w] = Speech(s) /\ pc[w] \notin Early

FirstWalk ==
  epoch <= 1 /\ ~deleted =>
    /\ epoch = 0 => (\A w \in Workers : ~Running(w)) /\ \A k \in Stages : stage[k] = "pending"
    /\ \A w \in Workers : Running(w) => token[w] = epoch
    /\ \A w \in Workers : Holds(w) => \A s \in Segments : Spoken(w, s)

LEMMA FirstWalkInit == Init => FirstWalk
<1> SUFFICES ASSUME Init PROVE FirstWalk
  OBVIOUS
<1>1. (\A w \in Workers : ~Running(w)) /\ \A k \in Stages : stage[k] = "pending"
  BY DEF Init, StoreInit, Running
<1>2. \A w \in Workers : ~Holds(w)
  BY <1>1 DEF Running, Holds
<1> QED BY <1>1, <1>2 DEF FirstWalk

\* The worker that walks, where nobody has claimed the work again.
LEMMA FirstWalkers ==
  ASSUME TypeOK, OrderInv, FirstWalk, epoch <= 1, ~deleted, NEW w \in Workers, Running(w)
  PROVE  epoch = 1 /\ token[w] = epoch /\ \A v \in Workers \ {w} : ~Running(v)
<1>1. epoch \in Nat /\ epoch # 0 /\ \A v \in Workers : Running(v) => token[v] = epoch
  BY DEF FirstWalk, TypeOK, StoreTypeOK
<1>2. epoch = 1
  BY <1>1
<1>3. ASSUME NEW v \in Workers \ {w}, Running(v) PROVE FALSE
  BY <1>1, <1>3 DEF OrderInv, OneHolder
<1> QED BY <1>1, <1>2, <1>3

LEMMA WalkerKeepsSpeech ==
  ASSUME TypeOK, NEW w \in Workers, NEW s \in Segments, Holds(w) => Spoken(w, s),
         WorkerStep(w) \/ StepRaises(w) \/ Crash(w), OrderInv, Holds(w)', epoch' = epoch
  PROVE  Spoken(w, s)'
<1>0. /\ Speech(s) \in Stages /\ Mixing(s) \in Stages /\ Speech(s) # Mixing(s)
      /\ at[w] \in Stages
  BY PlanNames, Names, WorkerContext
<1>1. token'[w] = token[w] /\ pc'[w] # "idle"
  <2>1. pc'[w] # "idle"
    BY DEF Holds
  <2> QED BY <2>1, Moves DEF Goto, MoveTo, Stop, TypeOK, WorkerTypeOK
<1>2. token[w] = epoch
  BY <1>1 DEF Holds
<1>3. CASE UNCHANGED stage /\ Stays(w)
  BY <1>2, <1>3 DEF Stays, Spoken, Holds, Done
<1>4. CASE UNCHANGED stage /\ Passes(w)
  <2>1. Holds(w) /\ pc[w] \in Early
    BY <1>2, <1>4 DEF Passes, Holds, Early
  <2>2. stage[Speech(s)] # "pending" => Done(Mixing(s))
    <3>1. CheckedStage(Mixing(s)) = Mixing(s)
      BY DEF CheckedStage, Mixing
    <3> QED BY <1>4, <2>1, <3>1 DEF Spoken, Passes
  <2> QED BY <1>4, <2>2 DEF Spoken, Done
<1>5. CASE Starts(w)
  <2>1. Holds(w) /\ pc[w] \in Early /\ at'[w] = at[w] /\ pc'[w] \notin Early
    BY <1>2, <1>5 DEF Starts, Holds, Early
  <2>2. \A k \in Stages : k # at[w] => stage'[k] = stage[k]
    BY <1>5 DEF Starts, TypeOK, StoreTypeOK
  <2>3. CASE at[w] \in {Speech(s), Mixing(s)}
    BY <2>1, <2>3 DEF Spoken
  <2>4. CASE at[w] \notin {Speech(s), Mixing(s)}
    BY <1>0, <2>1, <2>2, <2>4 DEF Spoken, Done
  <2> QED BY <2>3, <2>4
<1>6. CASE Finishes(w)
  <2>1. Holds(w) /\ at'[w] = FollowUp(at[w])
    BY <1>2, <1>6 DEF Finishes, Holds
  <2>2. \A k \in Stages : stage'[k] = IF k = at[w] THEN "completed" ELSE stage[k]
    BY <1>0, <1>6 DEF Finishes, TypeOK, StoreTypeOK
  <2>3. CASE at[w] = Speech(s)
    <3>1. FollowUp(Speech(s)) = Mixing(s)
      BY PlanNames DEF FollowUp, Speech, Mixing
    <3> QED BY <2>1, <2>3, <3>1 DEF Spoken
  <2>4. CASE at[w] = Mixing(s)
    BY <1>0, <2>2, <2>4 DEF Spoken, Done
  <2>5. CASE at[w] \notin {Speech(s), Mixing(s)}
    BY <1>0, <2>1, <2>2, <2>5 DEF Spoken, Done
  <2> QED BY <2>3, <2>4, <2>5
<1> QED BY <1>3, <1>4, <1>5, <1>6, WorkerStages DEF Settles

LEMMA FirstWalkStep ==
  ASSUME TypeOK, OrderInv, FirstWalk, [Next]_vars
  PROVE  FirstWalk'
<1> SUFFICES ASSUME epoch' <= 1, ~deleted'
             PROVE  /\ epoch' = 0 => /\ \A w \in Workers : ~Running(w)'
                                     /\ \A k \in Stages : stage'[k] = "pending"
                    /\ \A w \in Workers : Running(w)' => token'[w] = epoch'
                    /\ \A w \in Workers : Holds(w)' => \A s \in Segments : Spoken(w, s)'
  BY DEF FirstWalk
<1>0. epoch \in Nat
  BY DEF TypeOK, StoreTypeOK
<1>1. ASSUME NEW w \in Workers, WorkerStep(w) \/ StepRaises(w) \/ Crash(w)
      PROVE  /\ epoch' = 0 => /\ \A v \in Workers : ~Running(v)'
                              /\ \A k \in Stages : stage'[k] = "pending"
             /\ \A v \in Workers : Running(v)' => token'[v] = epoch'
             /\ \A v \in Workers : Holds(v)' => \A s \in Segments : Spoken(v, s)'
  <2>1. /\ ~deleted /\ epoch' = epoch /\ Running(w)
        /\ \A v \in Workers \ {w} : pc'[v] = pc[v] /\ at'[v] = at[v] /\ token'[v] = token[v]
    BY <1>1, WorkerKeeps, Moves DEF deleted
  <2>2. epoch = 1 /\ token[w] = epoch /\ \A v \in Workers \ {w} : ~Running(v)
    BY <2>1, FirstWalkers
  <2>3. \A v \in Workers \ {w} : ~Running(v)' /\ ~Holds(v)'
    BY <2>1, <2>2 DEF Running, Holds
  <2>4. Running(w)' => token'[w] = epoch'
    BY <1>1, <2>1, <2>2, Moves DEF Goto, MoveTo, Stop, Running, TypeOK, WorkerTypeOK
  <2>5. Holds(w)' => \A s \in Segments : Spoken(w, s)'
    BY <1>1, <2>1, <2>2, WalkerKeepsSpeech DEF FirstWalk
  <2> QED BY <2>1, <2>2, <2>3, <2>4, <2>5
<1>2. ASSUME NEW w \in Workers, Claim(w)
      PROVE  /\ epoch' = 0 => /\ \A v \in Workers : ~Running(v)'
                              /\ \A k \in Stages : stage'[k] = "pending"
             /\ \A v \in Workers : Running(v)' => token'[v] = epoch'
             /\ \A v \in Workers : Holds(v)' => \A s \in Segments : Spoken(v, s)'
  <2>1. /\ epoch' = epoch + 1 /\ UNCHANGED <<stage, retention>>
        /\ pc' = [pc EXCEPT ![w] = "hydrate"] /\ token' = [token EXCEPT ![w] = epoch + 1]
    BY <1>2 DEF Claim, ClaimWork, resultRows, projRow
  <2>2. epoch = 0 /\ epoch' = 1 /\ ~deleted
    BY <1>0, <2>1 DEF deleted
  <2>3. (\A v \in Workers : ~Running(v)) /\ \A k \in Stages : stage[k] = "pending"
    BY <2>2 DEF FirstWalk
  <2>4. \A v \in Workers : Running(v)' => token'[v] = epoch'
    BY <2>1, <2>2, <2>3 DEF Running, TypeOK, WorkerTypeOK
  <2>5. \A s \in Segments : stage'[Speech(s)] = "pending"
    BY <2>1, <2>3, PlanNames
  <2> QED BY <2>2, <2>4, <2>5 DEF Spoken
<1>3. CASE Outside /\ ~\E w \in Workers : Claim(w)
  <2>1. ~deleted /\ UNCHANGED <<stage, at>>
    BY <1>3, OutsideStages
  <2>2. UNCHANGED <<epoch, workerVars>>
    BY <1>3 DEF Outside, OrphanedLeaseExpires, LeaseExpiresUnderHolder, LeaseExpires, ClientCancels,
       RequestCancellation, ClientDeletes, DeleteProject, vars, storeVars, workRow
  <2> QED BY <2>1, <2>2 DEF FirstWalk, workerVars, Running, Holds, Spoken, Done
<1> QED BY <1>1, <1>2, <1>3, StepsAre
-----------------------------------------------------------------------------
(***************************************************************************)
(* The stages as a progress counts them do not go back.                    *)
(***************************************************************************)

\* A generation that goes on has no stage that ended otherwise.
ActiveStages ==
  disposition = "active" /\ ~deleted =>
    \A k \in Stages : stage[k] \in {"pending", "running", "completed"}

LEMMA ActiveStagesStep ==
  ASSUME TypeOK, ActiveStages, [Next]_vars
  PROVE  ActiveStages'
<1> SUFFICES ASSUME disposition' = "active", ~deleted'
             PROVE  \A k \in Stages : stage'[k] \in {"pending", "running", "completed"}
  BY DEF ActiveStages
<1> DEFINE Same == disposition = "active" /\ retention' = retention /\ UNCHANGED stage
           Written == /\ disposition = "active" /\ retention' = retention
                      /\ \E k \in Stages, s \in {"running", "completed"} :
                           stage' = [stage EXCEPT ![k] = s]
<1>1. Same \/ Written
  <2>1. CASE UNCHANGED storeVars \/ ClaimWork \/ LeaseExpires
    BY <2>1 DEF storeVars, genRow, resultRows, projRow, ClaimWork, LeaseExpires
  <2>2. ~RequestCancellation /\ ~DeleteProject
    BY DEF RequestCancellation, DeleteProject, deleted
  <2>3. ASSUME NEW t \in Nat, NEW o \in Operations, NEW k \in Stages, WorkerTransaction(t, o, k)
        PROVE  Same \/ Written
    <3>1. CASE ReserveAttempt(t, o) \/ DispatchAttempt(t, o) \/ CompleteAttempt(t, o)
      BY <3>1 DEF ReserveAttempt, DispatchAttempt, CompleteAttempt, WriteAttempt, genRow, projRow
    <3>2. ~FailAttemptUnknown(t, o) /\ ~SettleCancellation(t) /\ ~SettleReady(t)
      BY DEF FailAttemptUnknown, SettleCancellation, SettleReady, ObserveCancellation, Terminate
    <3>3. CASE RecordStageTransition(t, k, "running")
      BY <3>3 DEF RecordStageTransition, WriteStage, projRow
    <3>4. CASE PublishStage(t, k)
      <4>1. ~PublishFinal(t)
        BY DEF PublishFinal, Terminate
      <4>2. CASE k[2] = "mixing" /\ PublishAudio(t, k[1])
        <5>1. <<k[1], "mixing">> \in Stages
          BY <4>2 DEF Stages, LeadResearch, Finalizing
        <5> QED BY <4>2, <5>1 DEF PublishAudio, WriteStage
      <4>3. CASE k[2] = "fact_checking" /\ PublishVerifiedText(t, k[1])
        <5>1. <<k[1], "fact_checking">> \in Stages
          BY <4>3 DEF Stages, LeadResearch, Finalizing
        <5> QED BY <4>3, <5>1 DEF PublishVerifiedText, WriteStage, projRow
      <4>4. CASE RecordStageTransition(t, k, "completed")
        BY <4>4 DEF RecordStageTransition, WriteStage, projRow
      <4> QED BY <3>4, <4>1, <4>2, <4>3, <4>4 DEF PublishStage
    <3>5. CASE SettleFailure(t)
      BY <3>5 DEF SettleFailure, Terminate, genRow, resultRows
    <3> QED BY <2>3, <3>1, <3>2, <3>3, <3>4, <3>5 DEF WorkerTransaction
  <2> HIDE DEF Same, Written
  <2> QED BY <2>1, <2>2, <2>3, StepsAreTransactions DEF Same
<1>2. \A k \in Stages : stage[k] \in {"pending", "running", "completed"}
  BY <1>1 DEF ActiveStages, deleted
<1>3. stage \in [Stages -> StageStates]
  BY DEF TypeOK, StoreTypeOK
<1> QED BY <1>1, <1>2, <1>3

\* What becomes of the stages of a project that is kept, under its first claim and
\* as long as nobody cancels.
Advance(old, new) ==
  \/ new = old
  \/ new \in {"running", "completed"} /\ old \in {"pending", "running"}
  \/ new = "completed" /\ old = "completed"
  \/ new = "failed" /\ old # "completed"

LEMMA StagesAdvance ==
  ASSUME TypeOK, OrderInv, FirstWalk, ActiveStages, [Next]_vars,
         epoch' <= 1, ~deleted', disposition # "cancellation_requested",
         NEW k \in Stages
  PROVE  Advance(stage[k], stage'[k])
<1>1. CASE Outside
  BY <1>1, OutsideStages DEF Advance
<1>2. ASSUME NEW w \in Workers, WorkerStep(w) \/ StepRaises(w) \/ Crash(w)
      PROVE  Advance(stage[k], stage'[k])
  <2>1. /\ ~deleted /\ epoch' = epoch /\ at[w] \in Stages
    BY <1>2, WorkerKeeps, WorkerContext DEF deleted
  <2>2. CASE UNCHANGED stage
    BY <2>2 DEF Advance
  <2>3. CASE Settles(w)
    BY <2>3 DEF Settles, Advance, Done
  <2>4. CASE Finishes(w)
    <3>1. disposition = "active"
      BY <2>4 DEF Finishes, Fence, CanRenew
    <3>2. stage[k] \in {"pending", "running", "completed"}
      BY <2>1, <3>1 DEF ActiveStages
    <3>3. stage'[k] = stage[k] \/ stage'[k] = "completed"
      BY <2>4 DEF Finishes, TypeOK, StoreTypeOK
    <3> QED BY <3>2, <3>3 DEF Advance
  <2>5. CASE Starts(w)
    <3>1. disposition = "active" /\ Holds(w) /\ pc[w] = "start"
      BY <2>5 DEF Starts, Fence, CanRenew, LeaseHeld, Holds
    <3>2. stage[at[w]] \in {"pending", "running", "completed"}
      BY <2>1, <3>1 DEF ActiveStages
    <3>3. stage[at[w]] # "completed"
      <4>1. CASE CheckedStage(at[w]) = at[w]
        BY <2>5, <4>1 DEF Starts, Done
      <4>2. CASE CheckedStage(at[w]) # at[w]
        <5>1. at[w][2] = "tts" /\ ~Done(Mixing(at[w][1]))
          BY <2>5, <4>2 DEF Starts, CheckedStage, Mixing
        <5>2. at[w] # LeadResearch /\ at[w] # Finalizing
          BY <5>1 DEF LeadResearch, Finalizing
        <5>3. PICK s \in Segments : at[w] \in {Research(s), Text(s), Check(s), Speech(s), Mixing(s)}
          BY <2>1, <5>2, StagesOfThePlan
        <5>4. at[w] = Speech(s) /\ at[w][1] = s
          BY <5>1, <5>3 DEF Research, Text, Check, Speech, Mixing
        <5>5. Spoken(w, s)
          BY <2>1, <3>1 DEF FirstWalk
        <5>6. Speech(s) # Mixing(s)
          BY PlanNames
        <5> QED BY <3>1, <5>1, <5>4, <5>5, <5>6 DEF Spoken, Early
      <4> QED BY <4>1, <4>2
    <3>4. stage'[k] = IF k = at[w] THEN "running" ELSE stage[k]
      BY <2>1, <2>5 DEF Starts, TypeOK, StoreTypeOK
    <3> QED BY <3>2, <3>3, <3>4 DEF Advance
  <2> QED BY <1>2, <2>2, <2>3, <2>4, <2>5, WorkerStages
<1> QED BY <1>1, <1>2, StepsAre

\* How a stage of the plan stands when its rows are read at once, of a generation
\* that was not cancelled.
Word(failed, running, completed, all) ==
  IF failed # {} THEN "failed"
  ELSE IF completed = all THEN "completed"
  ELSE IF running \cup completed # {} THEN "running" ELSE "pending"

Standing(n) ==
  [state |-> Word(InState(n, "failed"), InState(n, "running"), InState(n, "completed"), RowsOf(n)),
   completed |-> Cardinality(InState(n, "completed"))]

LEMMA ProgressIsStanding ==
  ASSUME rows.outcome # "cancelled", NEW n \in StageNames
  PROVE  Progress[n] = Standing(n)
<1>1. StageState(n) = Standing(n).state
  BY DEF StageState, AllDone, Standing, Word
<1> QED BY <1>1 DEF Progress, Standing

LEMMA Ranks ==
  /\ Rank("pending") = 0 /\ Rank("running") = 1 /\ Rank("completed") = 2 /\ Rank("failed") = 2
  /\ \A s : Rank(s) \in {0, 1, 2}
BY DEF Rank

\* What grows, grows in its word too.
LEMMA WordsGrow ==
  ASSUME NEW F, NEW R, NEW C, NEW F2, NEW R2, NEW C2, NEW all,
         F \subseteq F2, C \subseteq C2, C2 \subseteq all, R \subseteq F2 \cup R2 \cup C2
  PROVE  Rank(Word(F, R, C, all)) <= Rank(Word(F2, R2, C2, all))
<1>1. CASE F2 # {} \/ C2 = all
  <2>1. Word(F2, R2, C2, all) \in {"failed", "completed"}
    BY <1>1 DEF Word
  <2> QED BY <2>1, Ranks
<1>2. CASE F2 = {} /\ C2 # all /\ R2 \cup C2 # {}
  <2>1. F = {} /\ C # all
    BY <1>2
  <2>2. Word(F2, R2, C2, all) = "running" /\ Word(F, R, C, all) \in {"running", "pending"}
    BY <1>2, <2>1 DEF Word
  <2> QED BY <2>2, Ranks
<1>3. CASE F2 = {} /\ C2 # all /\ R2 \cup C2 = {}
  <2>1. F = {} /\ C # all /\ R \cup C = {}
    BY <1>3
  <2>2. Word(F, R, C, all) = "pending"
    BY <2>1 DEF Word
  <2> QED BY <2>2, Ranks
<1> QED BY <1>1, <1>2, <1>3

LEMMA StandingAdvances ==
  ASSUME \A k \in Stages : Advance(stage[k], stage'[k]), NEW n
  PROVE  ~Regresses(Standing(n), Standing(n)')
<1> DEFINE C == InState(n, "completed")
           C2 == InState(n, "completed")'
<1>1. /\ InState(n, "failed") \subseteq InState(n, "failed")'
      /\ C \subseteq C2 /\ C2 \subseteq RowsOf(n)
      /\ InState(n, "running") \subseteq InState(n, "failed")' \cup InState(n, "running")' \cup C2
  BY DEF InState, RowsOf, Advance
<1>2. RowsOf(n)' = RowsOf(n)
  BY DEF RowsOf
<1>3. Rank(Standing(n).state) <= Rank(Standing(n)'.state)
  BY <1>1, <1>2, WordsGrow DEF Standing
<1>4. Cardinality(C) <= Cardinality(C2) /\ Cardinality(C) \in Nat /\ Cardinality(C2) \in Nat
  <2>1. C \in SUBSET C2 /\ C2 \in SUBSET RowsOf(n) /\ C \in SUBSET RowsOf(n)
    BY <1>1
  <2> HIDE DEF C, C2
  <2>2. Cardinality(C2) \in 0 .. NumSegments + 1 /\ Cardinality(C) <= Cardinality(C2)
    BY <2>1, RowsAreCounted
  <2>3. Cardinality(C) \in 0 .. NumSegments + 1
    BY <2>1, RowsAreCounted
  <2> QED BY <2>2, <2>3, NumSegmentsAssumption
<1>5. Standing(n).completed = Cardinality(C) /\ Standing(n)'.completed = Cardinality(C2)
  BY DEF Standing
<1>6. Rank(Standing(n).state) \in {0, 1, 2} /\ Rank(Standing(n)'.state) \in {0, 1, 2}
  BY Ranks
<1> QED BY <1>3, <1>4, <1>5, <1>6 DEF Regresses

LEMMA RegressesAdds ==
  ASSUME NEW a, NEW b, NEW c, ~Regresses(a, b), ~Regresses(b, c),
         a.completed \in Nat, b.completed \in Nat, c.completed \in Nat
  PROVE  ~Regresses(a, c)
<1>1. Rank(a.state) \in {0, 1, 2} /\ Rank(b.state) \in {0, 1, 2} /\ Rank(c.state) \in {0, 1, 2}
  BY Ranks
<1> QED BY <1>1 DEF Regresses

-----------------------------------------------------------------------------
(***************************************************************************)
(* Without a fault the work is claimed once: its worker always finds the   *)
(* lease, until it has settled the work.                                   *)
(***************************************************************************)

HolderCalm(w) ==
  /\ pc[w] \notin {"cancel", "abandon_lost"}
  /\ pc[w] = "dispatch" => attempt[at[w]] = "reserved"
  /\ pc[w] \in {"call", "returned", "complete"} => attempt[at[w]] = "dispatched"

CalmRows ==
  /\ pipeState = "pending" => epoch = 0
  /\ pipeState \in {"pending", "leased"} => disposition = "active"
  /\ pipeState = "leased" =>
       ~expired /\ HolderRuns /\ \A w \in Workers : Running(w) => HolderCalm(w)

WalksOn(w) ==
  /\ UNCHANGED <<pipeState, disposition, leaseAge>>
  /\ Running(w)' /\ token'[w] = token[w] /\ HolderCalm(w)'

LEMMA WalkGoesOn ==
  ASSUME TypeOK, NEW w \in Workers, NEW p, Goto(w, p),
         p \notin {"idle", "cancel", "abandon_lost", "dispatch", "call", "returned", "complete"},
         UNCHANGED <<pipeState, disposition, leaseAge>>
  PROVE  WalksOn(w)
BY DEF Goto, WalksOn, Running, HolderCalm, TypeOK, WorkerTypeOK

LEMMA AttemptGoesOn ==
  ASSUME TypeOK, NEW w \in Workers, NEW p, Goto(w, p), p \in {"dispatch", "call", "returned", "complete"},
         attempt'[at[w]] = IF p = "dispatch" THEN "reserved" ELSE "dispatched",
         UNCHANGED <<pipeState, disposition, leaseAge>>
  PROVE  WalksOn(w)
BY DEF Goto, WalksOn, Running, HolderCalm, TypeOK, WorkerTypeOK

LEMMA WalkMovesOn ==
  ASSUME TypeOK, NEW w \in Workers, NEW k, MoveTo(w, k),
         UNCHANGED <<pipeState, disposition, leaseAge>>
  PROVE  WalksOn(w)
<1>1. pc'[w] \in {"start", "renew", "check"} /\ token'[w] = token[w]
  BY DEF MoveTo, EntryPhase, TypeOK, WorkerTypeOK
<1> QED BY <1>1 DEF WalksOn, Running, HolderCalm

\* A walking worker with a lease goes on with it or settles the work.
LEMMA CalmWorker ==
  ASSUME TypeOK, NEW w \in Workers, Fence(token[w]), HolderCalm(w), WorkerStep(w) \/ StepRaises(w)
  PROVE  WalksOn(w) \/ pipeState' \in {"succeeded", "failed"}
<1> USE DEF Fence, CanRenew
<1>0. UNCHANGED storeVars => UNCHANGED <<pipeState, disposition, leaseAge, attempt>>
  BY DEF storeVars, workRow, genRow, resultRows
<1>1. CASE Hydrate(w) \/ Renew(w) \/ LocalAudio(w)
  <2>1. \E p \in {"check", "finish"} : Goto(w, p) /\ UNCHANGED storeVars
    BY <1>1 DEF Hydrate, Renew, LocalAudio
  <2> QED BY <1>0, <2>1, WalkGoesOn
<1>2. CASE CheckStage(w)
  <2>1. UNCHANGED storeVars
    BY <1>2 DEF CheckStage, Raise
  <2>2. (\E p \in {"failing", "ready", "start"} : Goto(w, p)) \/ (\E k : MoveTo(w, k))
    BY <1>2 DEF CheckStage, Raise
  <2> QED BY <1>0, <2>1, <2>2, WalkGoesOn, WalkMovesOn
<1>3. CASE StartStage(w)
  <2>1. RecordStageTransition(token[w], at[w], "running")
          /\ \E p \in {"reserve", "audio"} : Goto(w, p)
    BY <1>3 DEF StartStage
  <2>2. UNCHANGED <<pipeState, disposition, leaseAge>>
    BY <2>1 DEF RecordStageTransition, WriteStage, workRow
  <2> QED BY <2>1, <2>2, WalkGoesOn
<1>4. CASE Reserve(w)
  <2>0. at[w] \in Operations
    BY <1>4, WorkerContext DEF Reserve, In, ProviderPhases
  <2>1. CASE ReserveAttempt(token[w], at[w]) /\ Goto(w, "dispatch")
    <3>1. UNCHANGED <<pipeState, disposition, leaseAge>>
            /\ attempt' = [attempt EXCEPT ![at[w]] = "reserved"]
      BY <2>1 DEF ReserveAttempt, WriteAttempt, workRow, genRow
    <3>2. attempt'[at[w]] = "reserved"
      BY <2>0, <3>1 DEF TypeOK, StoreTypeOK
    <3> QED BY <2>1, <3>1, <3>2, AttemptGoesOn
  <2>2. CASE attempt[at[w]] = "reserved" /\ Goto(w, "dispatch") /\ UNCHANGED storeVars
    BY <1>0, <2>2, AttemptGoesOn
  <2>3. CASE (\E p \in {"audio", "finish", "abandon_raised", "failing"} : Goto(w, p)) /\ UNCHANGED storeVars
    BY <1>0, <2>3, WalkGoesOn
  <2> QED BY <1>4, <2>1, <2>2, <2>3 DEF Reserve, Raise
<1>5. CASE Dispatch(w)
  <2>0. at[w] \in Operations /\ attempt[at[w]] = "reserved"
    BY <1>5, WorkerContext DEF Dispatch, In, ProviderPhases, HolderCalm
  <2>1. DispatchAttempt(token[w], at[w]) /\ Goto(w, "call")
    BY <1>5, <2>0 DEF Dispatch
  <2>2. UNCHANGED <<pipeState, disposition, leaseAge>>
          /\ attempt' = [attempt EXCEPT ![at[w]] = "dispatched"]
    BY <2>1 DEF DispatchAttempt, WriteAttempt, workRow, genRow
  <2>3. attempt'[at[w]] = "dispatched"
    BY <2>0, <2>2 DEF TypeOK, StoreTypeOK
  <2> QED BY <2>1, <2>2, <2>3, AttemptGoesOn
<1>6. CASE CallProvider(w) \/ CallReturned(w)
  <2>1. attempt[at[w]] = "dispatched" /\ UNCHANGED storeVars
    BY <1>6 DEF CallProvider, CallReturned, In, HolderCalm
  <2>2. \E p \in {"returned", "abandon_raised", "complete"} : Goto(w, p)
    BY <1>6 DEF CallProvider, CallReturned
  <2> QED BY <1>0, <2>1, <2>2, AttemptGoesOn, WalkGoesOn
<1>7. CASE AbandonAttempt(w)
  <2>1. Goto(w, "failing")
    BY <1>7 DEF AbandonAttempt, HolderCalm
  <2>2. CASE UNCHANGED storeVars
    BY <1>0, <2>1, <2>2, WalkGoesOn
  <2>3. CASE FailAttemptUnknown(token[w], at[w])
    BY <2>3 DEF FailAttemptUnknown
  <2> QED BY <1>7, <2>2, <2>3 DEF AbandonAttempt
<1>8. CASE Complete(w)
  <2>1. attempt[at[w]] = "dispatched"
    BY <1>8 DEF Complete, In, HolderCalm
  <2>2. CompleteAttempt(token[w], at[w]) /\ \E p \in {"audio", "finish"} : Goto(w, p)
    BY <1>8, <2>1 DEF Complete
  <2>3. UNCHANGED <<pipeState, disposition, leaseAge>>
    BY <2>2 DEF CompleteAttempt, WriteAttempt, workRow, genRow
  <2> QED BY <2>2, <2>3, WalkGoesOn
<1>9. CASE FinishStage(w)
  <2>1. CASE Raise(w)
    BY <1>0, <2>1, WalkGoesOn DEF Raise
  <2>2. CASE PublishStage(token[w], at[w]) /\ at[w] # Finalizing /\ MoveTo(w, FollowUp(at[w]))
    <3>1. UNCHANGED <<pipeState, disposition, leaseAge>>
      BY <2>2 DEF PublishStage, PublishAudio, PublishVerifiedText, RecordStageTransition,
         WriteStage, workRow
    <3> QED BY <2>2, <3>1, WalkMovesOn
  <2>3. CASE PublishStage(token[w], at[w]) /\ at[w] = Finalizing
    BY <2>3 DEF PublishStage, PublishFinal, Finalizing
  <2> QED BY <1>9, <2>1, <2>2, <2>3 DEF FinishStage
<1>10. CASE Ready(w)
  BY <1>10 DEF Ready, SettleReady
<1>11. CASE Cancel(w)
  BY <1>11 DEF Cancel, In, HolderCalm
<1>12. CASE Failing(w)
  <2>1. Goto(w, "fail") /\ UNCHANGED storeVars
    BY <1>12 DEF Failing
  <2> QED BY <1>0, <2>1, WalkGoesOn
<1>13. CASE Fail(w)
  BY <1>13 DEF Fail, SettleFailure, LeaseHeld
<1>14. CASE StepRaises(w)
  <2>1. \E p \in {"abandon_raised", "failing"} : Goto(w, p)
    BY <1>14 DEF StepRaises
  <2> QED BY <1>0, <1>14, <2>1, WalkGoesOn DEF StepRaises
<1> QED BY <1>1, <1>2, <1>3, <1>4, <1>5, <1>6, <1>7, <1>8, <1>9, <1>10, <1>11, <1>12, <1>13, <1>14
        DEF WorkerStep

\* A worker's step leaves the work row or settles it.
LEMMA WorkRowSettles ==
  ASSUME TypeOK, NEW w \in Workers, WorkerStep(w) \/ StepRaises(w) \/ Crash(w)
  PROVE  pipeState' \in {pipeState, "succeeded", "failed", "cancelled"}
<1>1. CASE UNCHANGED storeVars
  BY <1>1 DEF storeVars, workRow
<1>2. ASSUME NEW t, NEW o, NEW k, WorkerTransaction(t, o, k)
      PROVE  pipeState' \in {pipeState, "succeeded", "failed", "cancelled"}
  <2>1. CASE ReserveAttempt(t, o) \/ DispatchAttempt(t, o) \/ CompleteAttempt(t, o)
    BY <2>1 DEF ReserveAttempt, DispatchAttempt, CompleteAttempt, WriteAttempt, workRow
  <2>2. CASE FailAttemptUnknown(t, o) \/ SettleCancellation(t)
    BY <2>2 DEF FailAttemptUnknown, SettleCancellation, ObserveCancellation
  <2>3. CASE RecordStageTransition(t, k, "running") \/ SettleReady(t) \/ SettleFailure(t)
    BY <2>3 DEF RecordStageTransition, SettleReady, SettleFailure, workRow
  <2>4. CASE PublishStage(t, k)
    BY <2>4 DEF PublishStage, PublishFinal, PublishAudio, PublishVerifiedText,
       RecordStageTransition, workRow
  <2> QED BY <1>2, <2>1, <2>2, <2>3, <2>4 DEF WorkerTransaction
<1> QED BY <1>1, <1>2, WorkerSteps

LEMMA CalmStep ==
  ASSUME TypeOK, OrderInv, FirstWalk, epoch <= 1, ~deleted => CalmRows,
         crashes' = 0, stalls' = 0,
         \/ \E w \in Workers : WorkerStep(w) \/ StepRaises(w) \/ Claim(w) \/ Crash(w)
         \/ OrphanedLeaseExpires \/ LeaseExpiresUnderHolder
  PROVE  epoch' <= 1 /\ (~deleted' => CalmRows')
<1>0. /\ epoch \in Nat /\ crashes \in Nat /\ stalls \in Nat
      /\ deleted <=> pipeState = "absent"
  BY DEF TypeOK, StoreTypeOK, OrderInv, EndRows
<1>1. \A w \in Workers : ~Crash(w)
  BY <1>0 DEF Crash
<1>2. ~LeaseExpiresUnderHolder
  BY <1>0 DEF LeaseExpiresUnderHolder
<1>3. ~OrphanedLeaseExpires
  BY <1>0 DEF OrphanedLeaseExpires, LeaseExpires, CalmRows
<1>4. ASSUME NEW w \in Workers, Claim(w)
      PROVE  epoch' <= 1 /\ (~deleted' => CalmRows')
  <2>1. Claimable /\ epoch' = epoch + 1 /\ pipeState' = "leased" /\ leaseAge' = "current"
        /\ UNCHANGED <<disposition, retention>>
        /\ pc' = [pc EXCEPT ![w] = "hydrate"] /\ token' = [token EXCEPT ![w] = epoch + 1]
    BY <1>4 DEF Claim, ClaimWork, genRow, projRow
  <2>2. ~deleted /\ pipeState = "pending" /\ epoch = 0 /\ disposition = "active"
    BY <1>0, <2>1 DEF Claimable, CalmRows
  <2>3. \A v \in Workers : ~Running(v)
    BY <1>0, <2>2 DEF FirstWalk
  <2>4. pc'[w] = "hydrate" /\ token'[w] = epoch' /\ \A v \in Workers \ {w} : ~Running(v)'
    BY <2>1, <2>3 DEF Running, TypeOK, WorkerTypeOK
  <2>5. HolderRuns' /\ \A v \in Workers : Running(v)' => HolderCalm(v)'
    BY <2>4 DEF HolderRuns, Running, HolderCalm
  <2> QED BY <2>1, <2>2, <2>5 DEF CalmRows, expired
<1>5. ASSUME NEW w \in Workers, WorkerStep(w) \/ StepRaises(w)
      PROVE  epoch' <= 1 /\ (~deleted' => CalmRows')
  <2>1. /\ epoch' = epoch /\ deleted' = deleted /\ Running(w)
        /\ \A v \in Workers \ {w} : pc'[v] = pc[v]
        /\ pipeState' \in {pipeState, "succeeded", "failed", "cancelled"}
    BY <1>5, WorkerKeeps, Moves, WorkRowSettles DEF deleted
  <2> SUFFICES ASSUME ~deleted, pipeState' \in {"pending", "leased"} PROVE CalmRows'
    BY <2>1 DEF CalmRows
  <2>2. epoch = 1 /\ token[w] = epoch /\ \A v \in Workers \ {w} : ~Running(v)
    BY <2>1, FirstWalkers
  <2>3. pipeState = "leased" /\ disposition = "active" /\ ~expired /\ HolderCalm(w)
    BY <2>1, <2>2 DEF CalmRows
  <2>4. Fence(token[w])
    BY <2>2, <2>3 DEF Fence, CanRenew, LeaseHeld
  <2>5. WalksOn(w)
    BY <1>5, <2>3, <2>4, CalmWorker
  <2>6. HolderRuns'
    BY <2>1, <2>2, <2>5 DEF WalksOn, HolderRuns
  <2>7. \A v \in Workers : Running(v)' => HolderCalm(v)'
    BY <2>1, <2>2, <2>5 DEF WalksOn, Running
  <2> QED BY <2>3, <2>5, <2>6, <2>7 DEF WalksOn, CalmRows, expired
<1> QED BY <1>1, <1>2, <1>3, <1>4, <1>5

-----------------------------------------------------------------------------
(***************************************************************************)
(* What the verifier meets when nobody meddles.                            *)
(***************************************************************************)

Calm == crashes = 0 /\ stalls = 0 /\ ~meddled => epoch <= 1 /\ (~deleted => CalmRows)

\* Nobody but the verifier cancels or deletes: no answer misses rows.
Unmeddled ==
  /\ disposition # "cancellation_requested" /\ outcome # "cancelled"
  /\ rows.outcome # "cancelled"
  /\ deleted => goal \in {"delete", "check_project", "check_artifacts", "stop"}
  /\ place # "start" => Whole /\ (rows.final = 1 => finalReady = 1)
  /\ goal \in {"download_segment", "download_final"} => finalReady = 1
  /\ verdict \notin Rejections

\* What it remembers is not ahead of the stages, and its answer is how they stand.
Steady ==
  /\ goal \in Polls =>
       \A n \in StageNames : /\ ~Regresses(seen.stages[n], Standing(n))
                             /\ place = "answered" => rows.stages[n] = Standing(n)
  /\ verdict # "stage_progress_regression"

AlarmInv ==
  /\ FirstWalk /\ ActiveStages /\ Calm
  /\ ~meddled => Unmeddled /\ (epoch <= 1 => Steady)

LEMMA StandingStays ==
  ASSUME UNCHANGED stage, NEW n
  PROVE  Standing(n)' = Standing(n)
BY DEF Standing, InState, RowsOf

LEMMA StandingTypes ==
  ASSUME NEW n
  PROVE  Standing(n).completed \in Nat
<1>1. InState(n, "completed") \in SUBSET RowsOf(n)
  BY DEF InState
<1>2. Cardinality(InState(n, "completed")) \in 0 .. NumSegments + 1
  BY <1>1, RowsAreCounted
<1> QED BY <1>2, NumSegmentsAssumption DEF Standing

LEMMA NothingIsAhead ==
  ASSUME NEW n \in StageNames, NEW x, x.completed \in Nat
  PROVE  ~Regresses(Unseen.stages[n], x)
<1>1. Unseen.stages[n].completed = 0 /\ Unseen.stages[n].state = "pending"
  BY DEF Unseen, NoProgress
<1> QED BY <1>1, Ranks DEF Regresses

LEMMA AlarmInvInit == VerifierInit => AlarmInv
<1> SUFFICES ASSUME VerifierInit PROVE AlarmInv
  OBVIOUS
<1>1. Init /\ ReadInit /\ seen = Unseen /\ verdict = "none"
      /\ goal \in {"create", "first_poll"}
  BY DEF VerifierInit
<1>2. /\ \A k \in Stages : stage[k] = "pending"
      /\ pipeState = "pending" /\ epoch = 0 /\ disposition = "active" /\ outcome = "none" /\ ~deleted
      /\ place = "start" /\ rows.outcome = "none"
  BY <1>1 DEF Init, StoreInit, deleted, ReadInit, NoRows
<1>3. FirstWalk /\ ActiveStages /\ Calm
  BY <1>1, <1>2, FirstWalkInit DEF ActiveStages, Calm, CalmRows
<1>4. Unmeddled
  BY <1>1, <1>2 DEF Unmeddled, Rejections
<1>5. \A n \in StageNames : ~Regresses(seen.stages[n], Standing(n))
  BY <1>1, NothingIsAhead, StandingTypes
<1>6. Steady
  BY <1>1, <1>2, <1>5 DEF Steady
<1> QED BY <1>3, <1>4, <1>6 DEF AlarmInv

-----------------------------------------------------------------------------
(***************************************************************************)
(* The steps of the verifier and of the service.                           *)
(***************************************************************************)

LEMMA RowsAreLeft ==
  ASSUME UNCHANGED vars
  PROVE  UNCHANGED <<disposition, outcome, retention, finalReady, stage, epoch, artifacts>>
BY DEF vars, storeVars, workRow, genRow, resultRows, projRow

LEMMA WalkStays ==
  ASSUME UNCHANGED vars, FirstWalk, ActiveStages, Calm, meddled' = meddled
  PROVE  FirstWalk' /\ ActiveStages' /\ Calm'
<1>1. UNCHANGED <<disposition, outcome, retention, finalReady, stage, epoch, artifacts, attempt,
                  pipeState, leaseAge, pc, at, token, crashes, stalls>>
  BY DEF vars, storeVars, workRow, genRow, resultRows, projRow, workerVars, faultVars
<1>2. deleted' <=> deleted
  BY <1>1 DEF deleted
<1>3. FirstWalk'
  BY <1>1 DEF FirstWalk, Spoken, Holds, Running, Done, deleted
<1>4. ActiveStages'
  BY <1>1 DEF ActiveStages, deleted
<1>5. CalmRows => CalmRows'
  BY <1>1 DEF CalmRows, expired, HolderRuns, Running, HolderCalm
<1>6. Calm'
  BY <1>1, <1>2, <1>5 DEF Calm
<1> QED BY <1>3, <1>4, <1>6

\* The service goes on.
LEMMA ServedCalmly ==
  ASSUME TypeOK, ClientInv, Unmeddled, Serve,
         deleted => goal \notin Polls
  PROVE  disposition' # "cancellation_requested" /\ outcome' # "cancelled" /\ deleted' = deleted
<1>1. disposition # "cancellation_requested" /\ outcome # "cancelled"
  BY DEF Unmeddled
<1>2. CASE UNCHANGED storeVars
  BY <1>1, <1>2 DEF storeVars, genRow, projRow, deleted
<1>3. CASE (\E w \in Workers : Claim(w)) \/ OrphanedLeaseExpires \/ LeaseExpiresUnderHolder
  BY <1>1, <1>3 DEF Claim, ClaimWork, OrphanedLeaseExpires, LeaseExpiresUnderHolder, LeaseExpires,
     genRow, projRow, deleted
<1>4. ASSUME NEW w \in Workers, NEW o \in Operations, NEW k \in Stages,
             WorkerTransaction(token[w], o, k)
      PROVE  disposition' # "cancellation_requested" /\ outcome' # "cancelled" /\ deleted' = deleted
  <2> PICK t : t = token[w]
    OBVIOUS
  <2>0. deleted' = deleted
    BY <1>4, TransactionKeeps DEF deleted
  <2>1. CASE ReserveAttempt(t, o) \/ DispatchAttempt(t, o) \/ CompleteAttempt(t, o)
    BY <1>1, <2>0, <2>1 DEF ReserveAttempt, DispatchAttempt, CompleteAttempt, WriteAttempt, genRow
  <2>2. CASE FailAttemptUnknown(t, o) \/ SettleCancellation(t)
    BY <1>1, <2>0, <2>2 DEF FailAttemptUnknown, SettleCancellation, CanSettleCancellation, Terminate
  <2>3. CASE RecordStageTransition(t, k, "running") \/ SettleReady(t)
    BY <1>1, <2>0, <2>3 DEF RecordStageTransition, SettleReady, WriteStage, Terminate
  <2>4. CASE PublishStage(t, k)
    BY <1>1, <2>0, <2>4 DEF PublishStage, PublishFinal, PublishAudio, PublishVerifiedText,
       RecordStageTransition, WriteStage, Terminate
  <2>5. CASE SettleFailure(t)
    BY <1>1, <2>0, <2>5 DEF SettleFailure, Terminate, genRow
  <2> QED BY <1>4, <2>1, <2>2, <2>3, <2>4, <2>5 DEF WorkerTransaction
<1> QED BY <1>2, <1>3, <1>4, WorkerSteps DEF Serve

LEMMA AlarmServe ==
  ASSUME TypeOK, OrderInv, ReaderInv, ClientInv, AlarmInv, TypeOK', OrderInv', Serve
  PROVE  AlarmInv'
<1>1. /\ [Next]_vars
      /\ UNCHANGED <<reading, place, rows, goal, seen, verdict, meddled>>
      /\ place # "answered"
  BY DEF Serve, Next, readVars, clientVars
<1>2. FirstWalk' /\ ActiveStages'
  BY <1>1, FirstWalkStep, ActiveStagesStep DEF AlarmInv
<1>3. Calm'
  <2> SUFFICES ASSUME crashes' = 0, stalls' = 0, ~meddled
               PROVE  epoch' <= 1 /\ (~deleted' => CalmRows')
    BY <1>1 DEF Calm
  <2>1. \/ \E w \in Workers : WorkerStep(w) \/ StepRaises(w) \/ Claim(w) \/ Crash(w)
        \/ OrphanedLeaseExpires \/ LeaseExpiresUnderHolder
    BY DEF Serve
  <2>2. crashes = 0 /\ stalls = 0
    <3>0. crashes \in Nat /\ stalls \in Nat
      BY DEF TypeOK
    <3>1. crashes' = crashes \/ crashes' = crashes + 1
      BY <2>1 DEF WorkerStep, StepRaises, Claim, Crash, OrphanedLeaseExpires,
         LeaseExpiresUnderHolder, Hydrate, Renew, CheckStage, StartStage, Reserve, Dispatch,
         CallProvider, CallReturned, AbandonAttempt, Complete, LocalAudio, FinishStage, Ready,
         Cancel, Failing, Fail, In, faultVars
    <3>2. stalls' = stalls \/ stalls' = stalls + 1
      BY <2>1 DEF WorkerStep, StepRaises, Claim, Crash, OrphanedLeaseExpires,
         LeaseExpiresUnderHolder, Hydrate, Renew, CheckStage, StartStage, Reserve, Dispatch,
         CallProvider, CallReturned, AbandonAttempt, Complete, LocalAudio, FinishStage, Ready,
         Cancel, Failing, Fail, In, faultVars
    <3> QED BY <3>0, <3>1, <3>2
  <2>3. epoch <= 1 /\ (~deleted => CalmRows) /\ FirstWalk
    BY <2>2 DEF AlarmInv, Calm
  <2> QED BY <2>1, <2>3, CalmStep
<1>4. ASSUME ~meddled
      PROVE  Unmeddled' /\ (epoch' <= 1 => Steady')
  <2>1. Unmeddled /\ (epoch <= 1 => Steady)
    BY <1>4 DEF AlarmInv
  <2>2. deleted => goal \notin Polls /\ place = "start"
    <3>1. deleted => goal \notin Polls
      BY <2>1 DEF Unmeddled, Polls, FirstPolls
    <3> QED BY <3>1 DEF ClientInv, Remembered, ReaderInv, InPlace
  <2>3. disposition' # "cancellation_requested" /\ outcome' # "cancelled" /\ deleted' = deleted
    BY <2>1, <2>2, ServedCalmly
  <2>4. ~deleted /\ finalReady = 1 => finalReady' = 1
    BY <1>1, <2>3, FinalStays
  <2>5. place # "start" \/ goal \in {"download_segment", "download_final"} => ~deleted
    BY <2>1, <2>2 DEF Unmeddled
  <2>6. Unmeddled'
    BY <1>1, <2>1, <2>3, <2>4, <2>5 DEF Unmeddled, Whole
  <2>7. ASSUME epoch' <= 1 PROVE Steady'
    <3>1. epoch <= 1
      <4>1. epoch \in Nat /\ (epoch' = epoch \/ epoch' = epoch + 1)
        BY WorkerKeeps DEF Serve, Claim, ClaimWork, OrphanedLeaseExpires, LeaseExpiresUnderHolder,
           LeaseExpires, TypeOK, StoreTypeOK
      <4> QED BY <2>7, <4>1
    <3>2. Steady
      BY <2>1, <3>1
    <3>3. ASSUME goal \in Polls, NEW n \in StageNames
          PROVE  ~Regresses(seen.stages[n], Standing(n)')
      <4>1. ~deleted' /\ disposition # "cancellation_requested"
        BY <2>1, <2>2, <2>3, <3>3 DEF Unmeddled
      <4>2. \A k \in Stages : Advance(stage[k], stage'[k])
        BY <1>1, <2>7, <4>1, StagesAdvance DEF AlarmInv
      <4>3. ~Regresses(seen.stages[n], Standing(n)) /\ ~Regresses(Standing(n), Standing(n)')
        BY <3>2, <3>3, <4>2, StandingAdvances DEF Steady
      <4>4. seen.stages[n].completed \in Nat
        BY NumSegmentsAssumption DEF ClientInv, ClientTypes, Progresses
      <4>5. Standing(n).completed \in Nat /\ Standing(n)'.completed \in Nat
        <5>1. InState(n, "completed")' \in SUBSET RowsOf(n)
          BY DEF InState, RowsOf
        <5>2. Standing(n)'.completed = Cardinality(InState(n, "completed")')
          BY DEF Standing
        <5>3. Cardinality(InState(n, "completed")') \in 0 .. NumSegments + 1
          BY <5>1, RowsAreCounted
        <5> QED BY <5>2, <5>3, StandingTypes, NumSegmentsAssumption
      <4> QED BY <4>3, <4>4, <4>5, RegressesAdds
    <3> QED BY <1>1, <3>2, <3>3 DEF Steady
  <2> QED BY <2>6, <2>7
<1> QED BY <1>1, <1>2, <1>3, <1>4 DEF AlarmInv

\* Between the requests and after the polls.
LEMMA AlarmGoesOn ==
  ASSUME ReaderInv, AlarmInv, UNCHANGED vars, meddled' = meddled,
         EndRequest \/ (reading = "none" /\ UNCHANGED readVars),
         ~meddled =>
           /\ deleted => goal' \in {"delete", "check_project", "check_artifacts", "stop"}
           /\ goal' \in {"download_segment", "download_final"} => finalReady = 1
           /\ verdict' \notin Rejections
           /\ epoch <= 1 =>
                /\ verdict' # "stage_progress_regression"
                /\ goal' \in Polls => \A n \in StageNames : ~Regresses(seen'.stages[n], Standing(n))
  PROVE  AlarmInv'
<1>1. place' = "start" /\ rows'.outcome = "none"
  <2>1. rows' = NoRows /\ place' = "start"
    BY DEF EndRequest, readVars, ReaderInv, InPlace
  <2> QED BY <2>1 DEF NoRows
<1>2. /\ UNCHANGED <<disposition, outcome, finalReady, stage, epoch>> /\ (deleted' <=> deleted)
      /\ FirstWalk' /\ ActiveStages' /\ Calm'
  <2>1. FirstWalk /\ ActiveStages /\ Calm
    BY DEF AlarmInv
  <2>2. FirstWalk' /\ ActiveStages' /\ Calm'
    BY <2>1, WalkStays
  <2>3. UNCHANGED <<disposition, outcome, retention, finalReady, stage, epoch>>
    BY RowsAreLeft
  <2>4. deleted' <=> deleted
    BY <2>3 DEF deleted
  <2> QED BY <2>2, <2>3, <2>4
<1>3. ASSUME ~meddled
      PROVE  Unmeddled' /\ (epoch' <= 1 => Steady')
  <2>1. disposition # "cancellation_requested" /\ outcome # "cancelled"
    BY <1>3 DEF AlarmInv, Unmeddled
  <2>2. Unmeddled'
    BY <1>1, <1>2, <1>3, <2>1 DEF Unmeddled
  <2>3. \A n : Standing(n)' = Standing(n)
    BY <1>2, StandingStays
  <2>4. epoch' <= 1 => Steady'
    BY <1>1, <1>2, <1>3, <2>3 DEF Steady
  <2> QED BY <2>2, <2>4
<1> QED BY <1>2, <1>3 DEF AlarmInv

\* What a SELECT adds to an answer.
LEMMA ReadsOn ==
  ASSUME ReaderInv, Read, ~deleted
  PROVE  /\ UNCHANGED vars /\ place \notin {"start", "answered"} /\ place' # "start"
         /\ rows'.found = rows.found /\ rows'.lost = rows.lost /\ rows'.final = rows.final
         /\ rows'.outcome \in {rows.outcome, outcome}
         /\ place' = "answered" => rows'.stages = Progress /\ rows'.outcome = rows.outcome
<1>1. rows \in Answers
  BY DEF ReaderInv, ReaderTypes
<1>2. CASE SelectSegments
  <2>1. rows' = [rows EXCEPT !.ready = ReadySegments, !.texts = validated]
    BY <1>2 DEF SelectSegments, Select
  <2> QED BY <1>1, <1>2, <2>1 DEF SelectSegments, Select, Answers
<1>3. CASE SelectProvenance
  <2> DEFINE s == Cardinality(rows.checked) + 1
  <2>1. rows' = [rows EXCEPT !.checked = @ \cup {s}, !.provenance = @ \cup (validated \cap {s})]
        /\ place = "provenance" /\ place' \in {"artifacts", "provenance"} /\ UNCHANGED vars
    BY <1>3 DEF SelectProvenance, Select
  <2> HIDE DEF s
  <2> QED BY <1>1, <2>1 DEF Answers
<1>4. CASE SelectArtifacts
  <2> DEFINE there == {s \in Scopes : artifacts[s] > 0}
  <2>1. rows' = [rows EXCEPT !.artifacts = there]
        /\ place = "artifacts" /\ place' = "generation" /\ UNCHANGED vars
    BY <1>4 DEF SelectArtifacts, Select
  <2> HIDE DEF there
  <2> QED BY <1>1, <2>1 DEF Answers
<1>5. CASE SelectGeneration
  <2>1. rows' = [rows EXCEPT !.disposition = disposition, !.outcome = outcome, !.version = version]
        /\ place = "generation" /\ place' = "stages" /\ UNCHANGED vars
    BY <1>5 DEF SelectGeneration, Select
  <2> QED BY <1>1, <2>1 DEF Answers
<1>6. CASE SelectStages
  <2>1. rows' = [rows EXCEPT !.stages = Progress]
        /\ place = "stages" /\ place' = "answered" /\ UNCHANGED vars
    BY <1>6 DEF SelectStages, Select
  <2> QED BY <1>1, <2>1 DEF Answers
<1> QED BY <1>2, <1>3, <1>4, <1>5, <1>6 DEF Read

LEMMA AlarmReads ==
  ASSUME ReaderInv, ClientInv, AlarmInv, UNCHANGED <<clientVars, meddled>>, Poll \/ Read
  PROVE  AlarmInv'
<1>1. UNCHANGED <<goal, seen, verdict, meddled>> /\ UNCHANGED vars
  BY ReadsOn DEF clientVars, Poll, Ask, Read, Select, SelectSegments, SelectProvenance,
     SelectArtifacts, SelectGeneration, SelectStages
<1>2. /\ UNCHANGED <<disposition, outcome, finalReady, stage, epoch>> /\ (deleted' <=> deleted)
      /\ FirstWalk' /\ ActiveStages' /\ Calm'
  <2>1. FirstWalk /\ ActiveStages /\ Calm /\ meddled' = meddled
    BY <1>1 DEF AlarmInv
  <2>2. FirstWalk' /\ ActiveStages' /\ Calm'
    BY <1>1, <2>1, WalkStays
  <2>3. UNCHANGED <<disposition, outcome, retention, finalReady, stage, epoch>>
    BY <1>1, RowsAreLeft
  <2>4. deleted' <=> deleted
    BY <2>3 DEF deleted
  <2> QED BY <2>2, <2>3, <2>4
<1>3. ASSUME ~meddled
      PROVE  Unmeddled' /\ (epoch' <= 1 => Steady')
  <2>1. Unmeddled /\ (epoch <= 1 => Steady)
    BY <1>3 DEF AlarmInv
  <2>2. goal \in Polls
    BY DEF Poll, Read, Select, SelectSegments, SelectProvenance, SelectArtifacts, SelectGeneration,
       SelectStages, ClientInv, Remembered
  <2>3. ~deleted
    BY <2>1, <2>2 DEF Unmeddled, Polls, FirstPolls
  <2>4. \A n : Standing(n)' = Standing(n)
    BY <1>2, StandingStays
  <2>5. CASE Poll
    <3>1. /\ rows'.found /\ rows'.lost = "nothing" /\ rows'.final = finalReady
          /\ rows'.outcome = "none" /\ place' \in {"generation", "segments"}
      <4>1. PICK s : Ask(s)
        BY <2>5 DEF Poll
      <4>2. CASE rows' = [[NoRows EXCEPT !.found = TRUE, !.status = projStatus,
                                         !.final = finalReady] EXCEPT !.ready = ReadySegments]
                 /\ place' = "generation"
        BY <4>2 DEF NoRows
      <4>3. CASE rows' = [NoRows EXCEPT !.found = TRUE, !.status = projStatus, !.final = finalReady]
                 /\ place' = "segments"
        BY <4>3 DEF NoRows
      <4> QED BY <2>3, <4>1, <4>2, <4>3 DEF Ask
    <3>2. Unmeddled'
      BY <1>1, <1>2, <2>1, <3>1 DEF Unmeddled, Whole
    <3>3. epoch' <= 1 => Steady'
      BY <1>1, <1>2, <2>1, <2>4, <3>1 DEF Steady
    <3> QED BY <3>2, <3>3
  <2>6. CASE Read
    <3>1. Unmeddled'
      BY <1>1, <1>2, <2>1, <2>3, <2>6, ReadsOn DEF Unmeddled, Whole
    <3>2. ASSUME place' = "answered", NEW n \in StageNames
          PROVE  rows'.stages[n] = Standing(n)
      <4>1. rows'.stages = Progress /\ rows.outcome # "cancelled"
        BY <2>1, <2>3, <2>6, <3>2, ReadsOn DEF Unmeddled
      <4> QED BY <4>1, ProgressIsStanding
    <3>3. epoch' <= 1 => Steady'
      BY <1>1, <1>2, <2>1, <2>4, <3>2 DEF Steady
    <3> QED BY <3>1, <3>3
  <2> QED BY <2>5, <2>6
<1> QED BY <1>1, <1>2, <1>3 DEF AlarmInv

\* The answers that it takes.
LEMMA CalmAnswers ==
  ASSUME ReaderInv, ClientInv, AlarmInv, ~meddled, place = "answered"
  PROVE  /\ goal \in Polls /\ ~deleted /\ verdict \notin Rejections
         /\ AnswerVerdict \notin Rejections
         /\ rows.final = 1 => finalReady = 1
         /\ epoch <= 1 =>
              /\ verdict # "stage_progress_regression"
              /\ AnswerVerdict # "stage_progress_regression"
              /\ \A n \in StageNames : rows.stages[n] = Standing(n)
<1>1. Unmeddled /\ (epoch <= 1 => Steady)
  BY DEF AlarmInv
<1>2. goal \in Polls
  BY DEF ReaderInv, InPlace, ClientInv, Remembered
<1>3. ~deleted
  BY <1>1, <1>2 DEF Unmeddled, Polls, FirstPolls
<1>4. Whole /\ (rows.final = 1 => finalReady = 1) /\ verdict \notin Rejections
  BY <1>1 DEF Unmeddled
<1>5. AnswerVerdict \in {"progress_version_regression", "stage_progress_regression",
                         "initial_progress_not_zero", "none"}
  BY <1>4, AnswerVerdictIs DEF Whole
<1>6. AnswerVerdict = "stage_progress_regression" => StageRegressed
  BY AnswerVerdictIs
<1>7. ASSUME epoch <= 1
      PROVE  /\ verdict # "stage_progress_regression"
             /\ AnswerVerdict # "stage_progress_regression"
             /\ \A n \in StageNames : rows.stages[n] = Standing(n)
  <2>1. \A n \in StageNames : /\ ~Regresses(seen.stages[n], Standing(n))
                              /\ rows.stages[n] = Standing(n)
    BY <1>1, <1>2, <1>7 DEF Steady
  <2>2. ~StageRegressed
    BY <2>1 DEF StageRegressed
  <2> QED BY <1>1, <1>6, <1>7, <2>1, <2>2 DEF Steady
<1> QED BY <1>2, <1>3, <1>4, <1>5, <1>7 DEF Rejections

LEMMA NothingIsAheadOfItself ==
  ASSUME NEW n
  PROVE  ~Regresses(Standing(n), Standing(n))
BY StandingTypes, Ranks DEF Regresses

LEMMA AlarmTakes ==
  ASSUME ReaderInv, ClientInv, AlarmInv, TakeListAnswer \/ TakeDetailAnswer
  PROVE  AlarmInv'
<1>1. /\ place = "answered" /\ EndRequest /\ UNCHANGED vars /\ meddled' = meddled
  BY DEF TakeListAnswer, TakeDetailAnswer, Answered
<1>2. ASSUME NEW v, Conclude(v), ~meddled => v \notin Rejections,
             ~meddled /\ epoch <= 1 => v # "stage_progress_regression"
      PROVE  AlarmInv'
  <2>1. goal' = "stop" /\ verdict' = v
    BY <1>2 DEF Conclude
  <2> QED BY <1>1, <1>2, <2>1, AlarmGoesOn DEF Polls, FirstPolls
<1>3. ASSUME Remember, goal' \in Polls, UNCHANGED verdict
      PROVE  AlarmInv'
  <2>1. seen'.stages = rows.stages
    BY <1>3 DEF Remember
  <2>2. ASSUME ~meddled, epoch <= 1, NEW n \in StageNames
        PROVE  ~Regresses(seen'.stages[n], Standing(n))
    BY <1>1, <2>1, <2>2, CalmAnswers, NothingIsAheadOfItself
  <2>3. goal' \notin {"download_segment", "download_final"}
    BY <1>3 DEF Polls, FirstPolls
  <2> QED BY <1>1, <1>3, <2>2, <2>3, CalmAnswers, AlarmGoesOn
<1>4. ~meddled => AnswerVerdict \notin Rejections
  BY <1>1, CalmAnswers
<1>5. ~meddled /\ epoch <= 1 => AnswerVerdict # "stage_progress_regression"
  BY <1>1, CalmAnswers
<1>6. CASE TakeListAnswer
  <2>1. CASE AnswerVerdict # "none"
    BY <1>2, <1>4, <1>5, <1>6, <2>1 DEF TakeListAnswer
  <2>2. CASE AnswerVerdict = "none"
    BY <1>3, <1>6, <2>2 DEF TakeListAnswer, Proceed, Polls
  <2> QED BY <2>1, <2>2
<1>7. CASE TakeDetailAnswer
  <2> DEFINE v == IF AnswerVerdict # "none" THEN AnswerVerdict ELSE TextVerdict
             last == goal = "poll" /\ rows.disposition = "terminal"
  <2>1. reading = "detail" /\ rows \in Answers
    BY <1>7 DEF TakeDetailAnswer, Answered, ReaderInv, ReaderTypes
  <2>2. AnswerVerdict = "none" => Backed
    BY <1>1, AnswerVerdicts
  <2>3. AnswerVerdict = "none" => TextVerdict \in {"ready_without_prior_verified_text", "none"}
    BY <2>1, <2>2, TextVerdicts
  <2>4. CASE v # "none"
    <3>1. /\ ~meddled => v \notin Rejections
          /\ ~meddled /\ epoch <= 1 => v # "stage_progress_regression"
      BY <1>4, <1>5, <2>3 DEF Rejections
    <3>2. Conclude(v)
      BY <1>7, <2>4 DEF TakeDetailAnswer
    <3> QED BY <1>2, <3>1, <3>2
  <2>5. CASE v = "none"
    <3>1. /\ TerminalVerdict \in {"terminal_project_not_ready", "none"}
          /\ TerminalVerdict = "none" => rows.final = 1
      BY <2>1, <2>2, <2>5, TerminalVerdicts
    <3>2. CASE last /\ TerminalVerdict # "none"
      <4>1. Conclude(TerminalVerdict)
        BY <1>7, <2>5, <3>2 DEF TakeDetailAnswer
      <4> QED BY <1>2, <3>1, <4>1 DEF Rejections
    <3>3. CASE last /\ TerminalVerdict = "none"
      <4>1. goal' = "download_segment" /\ verdict' = verdict
        BY <1>7, <2>5, <3>3 DEF TakeDetailAnswer, Proceed
      <4>2. ~meddled => /\ ~deleted /\ finalReady = 1 /\ verdict \notin Rejections
                        /\ epoch <= 1 => verdict # "stage_progress_regression"
        BY <1>1, <3>1, <3>3, CalmAnswers
      <4> QED BY <1>1, <4>1, <4>2, AlarmGoesOn DEF Polls, FirstPolls
    <3>4. CASE ~last
      <4>1. /\ Proceed(IF goal = "create" THEN "first_poll" ELSE "poll")
            /\ Remember
        BY <1>7, <2>5, <3>4 DEF TakeDetailAnswer
      <4>2. goal' \in Polls /\ verdict' = verdict
        BY <4>1 DEF Proceed, Polls, FirstPolls
      <4> QED BY <1>3, <4>1, <4>2
    <3> QED BY <3>2, <3>3, <3>4
  <2> QED BY <2>4, <2>5
<1> QED BY <1>6, <1>7

\* A request that comes to nothing.
LEMMA AlarmLost ==
  ASSUME ReaderInv, ClientInv, AlarmInv, AnswerLost \/ GiveUp
  PROVE  AlarmInv'
<1>1. EndRequest /\ UNCHANGED vars /\ meddled' = meddled
  BY DEF AnswerLost, GiveUp
<1>2. ~meddled => Unmeddled /\ (epoch <= 1 => Steady)
  BY DEF AlarmInv
<1>3. CASE AnswerLost
  <2>1. goal' \in {goal, "create_again"} /\ UNCHANGED <<seen, verdict>>
    BY <1>3 DEF AnswerLost
  <2>2. goal = "create" \/ goal' = goal
    BY <1>3 DEF AnswerLost
  <2>3. ~meddled =>
          /\ deleted => goal' \in {"delete", "check_project", "check_artifacts", "stop"}
          /\ goal' \in {"download_segment", "download_final"} => finalReady = 1
    BY <1>2, <2>1, <2>2 DEF Unmeddled
  <2>4. goal' \in Polls => goal' = goal
    BY <2>1 DEF Polls, FirstPolls
  <2> QED BY <1>1, <1>2, <2>1, <2>3, <2>4, AlarmGoesOn DEF Unmeddled, Steady
<1>4. CASE GiveUp
  <2>1. goal' = "stop" /\ verdict' = "gave_up"
    BY <1>4 DEF GiveUp, Conclude
  <2> QED BY <1>1, <2>1, AlarmGoesOn DEF Polls, FirstPolls, Rejections
<1> QED BY <1>3, <1>4

\* Without reading: what a ready episode is downloaded from is there.
LEMMA AlarmFinishes ==
  ASSUME TypeOK, OrderInv, PlanInv, ReaderInv, ClientInv, AlarmInv,
         \/ CreateAgain
         \/ Download(1, "download_segment", "download_final")
         \/ Download(Project, "download_final", "delete")
         \/ CheckRetired
  PROVE  AlarmInv'
<1>1. /\ UNCHANGED vars /\ meddled' = meddled /\ UNCHANGED readVars
      /\ goal \in {"create_again", "download_segment", "download_final", "check_project",
                   "check_artifacts"}
  BY DEF CreateAgain, Download, CheckRetired
<1>2. reading = "none"
  BY <1>1 DEF ClientInv, Remembered, Polls, FirstPolls
<1>3. ~meddled => /\ Unmeddled /\ verdict \notin Rejections
                  /\ epoch <= 1 => verdict # "stage_progress_regression"
  BY DEF AlarmInv, Unmeddled, Steady
<1>4. ASSUME NEW s \in {1, Project}, NEW g \in {"download_segment", "download_final"},
             NEW h \in {"download_final", "delete"}, Download(s, g, h)
      PROVE  AlarmInv'
  <2>1. goal = g
    BY <1>4 DEF Download
  <2>2. ~meddled => ~deleted /\ finalReady = 1
    BY <1>3, <1>4, <2>1 DEF Unmeddled
  <2>3. s \in Scopes
    BY NumSegmentsAssumption, <1>4 DEF Scopes, Segments
  <2>4. ~meddled => artifacts[s] > 0
    BY <2>2, <2>3, FinalIsBehindAll
  <2>5. CASE artifacts[s] > 0 /\ ~deleted
    <3>1. goal' = h /\ verdict' = verdict
      BY <1>4, <2>5 DEF Download, Proceed
    <3> QED BY <1>1, <1>2, <1>3, <1>4, <2>2, <3>1, AlarmGoesOn DEF Polls, FirstPolls
  <2>6. CASE ~(artifacts[s] > 0 /\ ~deleted)
    <3>1. meddled
      BY <2>2, <2>4, <2>6
    <3> QED BY <1>1, <1>2, <3>1, AlarmGoesOn
  <2> QED BY <2>5, <2>6
<1>5. CASE CheckRetired
  <2>1. deleted
    BY <1>1, <1>5, <1>2 DEF CheckRetired, ClientInv, Remembered
  <2>2. \A s \in Scopes : artifacts[s] = 0
    BY <2>1 DEF OrderInv, RowsInv, DeletedRows
  <2>3. (goal' = "check_artifacts" /\ verdict' = verdict) \/ (goal' = "stop" /\ verdict' = "verified")
    BY <1>5, <2>1, <2>2 DEF CheckRetired, Proceed, Conclude
  <2> QED BY <1>1, <1>2, <1>3, <2>3, AlarmGoesOn DEF Polls, FirstPolls, Rejections
<1>6. CASE CreateAgain
  <2>1. goal' = "stop" /\ verdict' = "unrecognized_error_on_create"
    BY <1>6 DEF CreateAgain, Conclude
  <2> QED BY <1>1, <1>2, <2>1, AlarmGoesOn DEF Polls, FirstPolls, Rejections
<1> QED BY <1>4, <1>5, <1>6

\* The deletion of the project, by the verifier or by another client.
LEMMA AlarmDeletes ==
  ASSUME TypeOK, OrderInv, ReaderInv, ClientInv, AlarmInv, Cleanup
  PROVE  AlarmInv'
<1>1. /\ [Next]_vars /\ deleted' /\ UNCHANGED readVars
      /\ UNCHANGED <<epoch, crashes, stalls, meddled, verdict>>
      /\ goal = "delete" /\ goal' \in {"delete", "check_project"}
  <2>1. UNCHANGED vars \/ ClientDeletes
    BY CleanupDeletes
  <2>2. [Next]_vars /\ UNCHANGED <<epoch, crashes, stalls>>
    BY <2>1 DEF Next, ClientDeletes, DeleteProject, vars, storeVars, workRow, faultVars
  <2> QED BY <2>2, CleanupDeletes DEF Cleanup, Proceed
<1>2. FirstWalk' /\ ActiveStages'
  BY <1>1, FirstWalkStep, ActiveStagesStep DEF AlarmInv
<1>3. Calm'
  BY <1>1 DEF AlarmInv, Calm
<1>4. place = "start" /\ UNCHANGED <<place, rows>>
  BY <1>1 DEF readVars, ClientInv, Remembered, ReaderInv, InPlace, Polls, FirstPolls
<1>5. ASSUME ~meddled
      PROVE  Unmeddled' /\ (epoch' <= 1 => Steady')
  <2>1. Unmeddled /\ (epoch <= 1 => Steady)
    BY <1>5 DEF AlarmInv
  <2>2. disposition' # "cancellation_requested" /\ outcome' # "cancelled"
    <3>1. CASE UNCHANGED vars
      BY <2>1, <3>1, RowsAreLeft DEF Unmeddled
    <3>2. CASE DeleteProject
      <4>1. CASE disposition = "terminal"
        BY <2>1, <3>2, <4>1 DEF DeleteProject, genRow, Unmeddled
      <4>2. CASE disposition # "terminal"
        BY <3>2, <4>2 DEF DeleteProject, Terminate
      <4> QED BY <4>1, <4>2
    <3> QED BY <3>1, <3>2, CleanupDeletes DEF ClientDeletes
  <2>3. Unmeddled'
    BY <1>1, <1>4, <2>1, <2>2 DEF Unmeddled
  <2>4. epoch' <= 1 => Steady'
    BY <1>1, <2>1 DEF Steady, Polls, FirstPolls
  <2> QED BY <2>3, <2>4
<1> QED BY <1>1, <1>2, <1>3, <1>5 DEF AlarmInv

LEMMA AlarmMeddles ==
  ASSUME TypeOK, OrderInv, AlarmInv, Meddle
  PROVE  AlarmInv'
<1>1. [Next]_vars /\ meddled'
  BY DEF Meddle, Next
<1>2. FirstWalk' /\ ActiveStages'
  BY <1>1, FirstWalkStep, ActiveStagesStep DEF AlarmInv
<1> QED BY <1>1, <1>2 DEF AlarmInv, Calm

LEMMA AlarmStays ==
  ASSUME AlarmInv, UNCHANGED verifierVars
  PROVE  AlarmInv'
<1>1. UNCHANGED vars /\ UNCHANGED <<place, rows, goal, seen, verdict, meddled>>
  BY DEF verifierVars, readVars, clientVars
<1>2. FirstWalk' /\ ActiveStages' /\ Calm'
  BY <1>1, WalkStays DEF AlarmInv
<1>3. UNCHANGED <<disposition, outcome, retention, finalReady, stage, epoch>>
  BY <1>1, RowsAreLeft
<1>4. \A n : Standing(n)' = Standing(n)
  BY <1>3, StandingStays
<1>5. Unmeddled => Unmeddled'
  BY <1>1, <1>3 DEF Unmeddled, Whole, deleted
<1>6. Steady => Steady'
  BY <1>1, <1>4 DEF Steady
<1> QED BY <1>1, <1>2, <1>3, <1>5, <1>6 DEF AlarmInv

LEMMA AlarmStep ==
  ASSUME TypeOK, OrderInv, PlanInv, ReaderInv, ClientInv, AlarmInv, TypeOK', OrderInv',
         [VerifierNext]_verifierVars
  PROVE  AlarmInv'
<1>1. CASE Serve
  BY <1>1, AlarmServe
<1>2. CASE Meddle
  BY <1>2, AlarmMeddles
<1>3. CASE Poll \/ (Read /\ UNCHANGED <<clientVars, meddled>>)
  <2>1. UNCHANGED <<clientVars, meddled>> /\ (Poll \/ Read)
    BY <1>3 DEF Poll
  <2> QED BY <2>1, AlarmReads
<1>4. CASE AnswerLost \/ GiveUp
  BY <1>4, AlarmLost
<1>5. CASE TakeListAnswer \/ TakeDetailAnswer
  BY <1>5, AlarmTakes
<1>6. CASE \/ CreateAgain
           \/ Download(1, "download_segment", "download_final")
           \/ Download(Project, "download_final", "delete")
           \/ CheckRetired
  BY <1>6, AlarmFinishes
<1>7. CASE Cleanup
  BY <1>7, AlarmDeletes
<1>8. CASE UNCHANGED verifierVars
  BY <1>8, AlarmStays
<1> QED BY <1>1, <1>2, <1>3, <1>4, <1>5, <1>6, <1>7, <1>8 DEF VerifierNext, Verify

\* The verifier reports a stage that goes back only after a second claim or a
\* meddler, and rows that are missing only after a meddler; without faults and
\* meddlers it complains only of a creation that it repeated, of having come too
\* late to see a stage empty or a text without audio, and of a project that is
\* not ready at its end: for every number of workers and claims.
THEOREM AlarmsAreExplained == VerifierSpec => []AlarmsHaveACause
<1>1. TypeOK /\ ClientInv /\ AlarmInv => AlarmsHaveACause
  <2> SUFFICES ASSUME TypeOK, ClientInv, AlarmInv PROVE AlarmsHaveACause
    OBVIOUS
  <2>1. verdict = "stage_progress_regression" => epoch > 1 \/ meddled
    <3>1. ASSUME verdict = "stage_progress_regression", ~meddled PROVE epoch > 1
      <4>1. ~(epoch <= 1)
        BY <3>1 DEF AlarmInv, Steady
      <4> QED BY <4>1 DEF TypeOK, StoreTypeOK
    <3> QED BY <3>1
  <2>2. ASSUME crashes = 0, stalls = 0, ~meddled
        PROVE  verdict \in {"none", "gave_up", "verified", "unrecognized_error_on_create",
                            "initial_progress_not_zero", "ready_without_prior_verified_text",
                            "terminal_project_not_ready"}
    <3>1. epoch <= 1 /\ Unmeddled
      BY <2>2 DEF AlarmInv, Calm
    <3>2. verdict \notin Rejections /\ verdict # "stage_progress_regression"
      BY <2>2, <3>1 DEF AlarmInv, Unmeddled, Steady
    <3>3. verdict \in Verdicts /\ verdict \notin IntegrityVerdicts
      BY DEF ClientInv, ClientTypes, NothingPublishedIsMissed
    <3> QED BY <3>2, <3>3 DEF Verdicts, Rejections
  <2>3. verdict \in Rejections => meddled
    BY DEF AlarmInv, Unmeddled
  <2> QED BY <2>1, <2>2, <2>3 DEF AlarmsHaveACause
<1>2. TypeOK /\ OrderInv /\ PlanInv /\ ReaderInv /\ ClientInv /\ AlarmInv /\ TypeOK' /\ OrderInv'
        /\ [VerifierNext]_verifierVars => AlarmInv'
  BY AlarmStep
<1> QED BY <1>1, <1>2, AlarmInvInit, VerifierSees, PTL DEF VerifierSpec
=============================================================================
