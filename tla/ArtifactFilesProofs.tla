------------------------- MODULE ArtifactFilesProofs -------------------------
(***************************************************************************)
(* The pipeline with its files implements the pipeline without them, for   *)
(* every number of segments, workers, claims and faults; so what is proved *)
(* of SegmentPipeline holds while files are written in several steps.      *)
(*                                                                         *)
(* And what is published stays whole, although the files have no fence.    *)
(* A publication is made by one worker at most (StartedOnce), so a file    *)
(* that counts - that a worker has finished for the publication it makes,  *)
(* or that is published - is written by nobody else: FilesInv says so of   *)
(* every hand and every row, whatever crashes and stalls.  Without those   *)
(* whoever runs has the lease and runs alone, so nothing is ever torn      *)
(* under its reader: Faultless.                                            *)
(***************************************************************************)
EXTENDS ArtifactFiles, SegmentPipelineProofs

\* Leaving a stage touches no row and no worker.
LEMMA ReadingIsQuiet ==
  ASSUME NEW w \in Workers, ReadInputs(w) \/ OpenFile(w)
  PROVE  UNCHANGED vars
  BY DEF ReadInputs, OpenFile

\* A file that cannot be read raises inside a step that may raise.
LEMMA UnreadableRaises ==
  ASSUME NEW w \in Workers, CannotRead(w)
  PROVE  StepRaises(w)
<1>1. pc[w] \in {"audio", "renew"}
  BY DEF CannotRead, AtWork
<1>2. pc[w] # "returned"
  BY <1>1
<1>3. Goto(w, "failing") /\ UNCHANGED <<storeVars, calls, faultVars>>
  BY DEF CannotRead, Raise
<1> QED BY <1>1, <1>2, <1>3, FilesMayRaise DEF StepRaises

\* The renewal after a file is the pipeline's, or leaves it where it was.
LEMMA ClosingIsARenewal ==
  ASSUME NEW w \in Workers, CloseFile(w)
  PROVE  LocalAudio(w) \/ Renew(w) \/ UNCHANGED vars
<1>1. pc[w] = "audio" \/ pc[w] = "renew"
  BY DEF CloseFile, AtWork
<1>2. CASE LocalAudio(w)
  BY <1>2
<1>3. CASE RenewAndGoOn(w)
  <2>1. UNCHANGED <<storeVars, calls, faultVars>>
    BY <1>3 DEF RenewAndGoOn
  <2>2. CASE CanRenew(token[w]) \/ at[w] = Finalizing
    <3>1. UNCHANGED workerVars
      BY <1>3, <2>2 DEF RenewAndGoOn
    <3> QED BY <2>1, <3>1 DEF vars
  <2>3. CASE ~(CanRenew(token[w]) \/ at[w] = Finalizing)
    <3>1. RaiseFenceLost(w)
      BY <1>3, <2>1, <2>3 DEF RenewAndGoOn, RaiseFenceLost
    <3> QED BY <1>1, <2>1, <2>3, <3>1 DEF LocalAudio, Renew, In
  <2> QED BY <2>2, <2>3
<1> QED BY <1>2, <1>3 DEF CloseFile

\* A checksum is a look at a file, or raises.
LEMMA ChecksumIsQuiet ==
  ASSUME NEW w \in Workers, TakeChecksum(w)
  PROVE  StepRaises(w) \/ UNCHANGED vars
<1>1. pc[w] = "finish"
  BY DEF TakeChecksum, Publishes
<1>2. CASE Raise(w) /\ UNCHANGED <<calls, faultVars>>
  <2>1. Goto(w, "failing") /\ UNCHANGED storeVars
    BY <1>2 DEF Raise
  <2> QED BY <1>1, <1>2, <2>1, FilesMayRaise DEF StepRaises
<1> QED BY <1>2 DEF TakeChecksum

\* Every step on the files is a step of the pipeline or none.
LEMMA FilesStep == FilesNext => Next \/ UNCHANGED vars
<1>1. ASSUME NEW w \in Workers,
             \/ ReadInputs(w) \/ CannotRead(w) \/ OpenFile(w) \/ CloseFile(w)
             \/ TakeChecksum(w) \/ Publish(w) \/ HeadOfSegment(w)
             \/ WithoutFiles(w)
      PROVE  Next \/ UNCHANGED vars
  <2>1. CASE ReadInputs(w) \/ OpenFile(w)
    BY <2>1, ReadingIsQuiet
  <2>2. CASE CannotRead(w)
    BY <2>2, UnreadableRaises DEF Next
  <2>3. CASE CloseFile(w)
    BY <2>3, ClosingIsARenewal DEF Next, WorkerStep
  <2>4. CASE TakeChecksum(w)
    BY <2>4, ChecksumIsQuiet DEF Next
  <2>5. CASE Publish(w)
    BY <2>5 DEF Publish, Next, WorkerStep
  <2>6. CASE HeadOfSegment(w)
    BY <2>6 DEF HeadOfSegment, Next, WorkerStep
  <2>7. CASE WithoutFiles(w)
    BY <2>7 DEF WithoutFiles, Next, WorkerStep
  <2> QED BY <1>1, <2>1, <2>2, <2>3, <2>4, <2>5, <2>6, <2>7
<1>2. CASE OrphanedLeaseExpires \/ LeaseExpiresUnderHolder
           \/ ClientCancels \/ ClientDeletes
  BY <1>2 DEF Next
<1> QED BY <1>1, <1>2 DEF FilesNext

\* Working on files between the transactions is a stutter of the pipeline:
\* opening, writing and measuring them adds no behaviour to the rows, the calls
\* and the leases.
THEOREM FilesImplementPipeline == FilesSpec => ImplementsPipeline
<1>1. FilesInit => Init
  BY DEF FilesInit
<1>2. [FilesNext]_filesVars => [Next]_vars
  BY FilesStep DEF filesVars
<1> QED BY <1>1, <1>2, PTL DEF FilesSpec, ImplementsPipeline, Spec

\* So no provider is called twice when a file turns out unreadable and its
\* stage raises, either.
THEOREM AtMostOneCallWithFiles == FilesSpec => []ProviderCalledAtMostOnce
  BY FilesImplementPipeline, AtMostOneCall, PTL DEF ImplementsPipeline

-----------------------------------------------------------------------------
(***************************************************************************)
(* The inductive invariant of the files.                                   *)
(***************************************************************************)

Whole == {"sound", "flawed"}

AllMixesSound == \A r \in Segments : file[Mix(r)] = "sound"

Mixed(s) ==
  /\ file[Mix(s)] \in Whole
  /\ s = Project => (file[Mix(Project)] = "sound" <=> AllMixesSound)

Compressed(s) ==
  /\ Mixed(s) /\ file[Encoded(s)] \in Whole
  /\ file[Encoded(s)] = "sound" <=> file[Mix(s)] = "sound"

\* How far a worker has come with the files of a publication.
Handled(w, s) ==
  /\ pc[w] = "audio" /\ done[w] = 1 => Mixed(s)
  /\ pen[w] # "up" /\ done[w] = 1 => (made[w] = "sound" <=> file[Mix(s)] = "sound")
  /\ pen[w] # "up" /\ done[w] = 0 /\ s = Project => (made[w] = "sound" <=> AllMixesSound)
  /\ pc[w] = "finish" => Compressed(s) /\ checksum[w] \in {"none", file[Encoded(s)]}

Recorded(s) == Done(Pub(s)) => Compressed(s) /\ published[s] = file[Encoded(s)]

\* A pen is held where files are made; a stage with one file is left with it.
PenInPlace(w) ==
  /\ pen[w] # "up" => AtWork(w)
  /\ done[w] = 1 => \/ pc[w] = "audio" /\ \E s \in Scopes : at[w] = Pub(s)
                    \/ pc[w] = "renew" /\ at[w] = <<1, "research">> /\ pen[w] = "up"

FilesInv ==
  /\ FilesTypeOK /\ \A w \in Workers : PenInPlace(w)
  /\ ~deleted => /\ \A w \in Workers, s \in Scopes : at[w] = Pub(s) => Handled(w, s)
                 /\ \A s \in Scopes : Recorded(s)

-----------------------------------------------------------------------------
(* Names and jobs. *)

LEMMA FileNames ==
  /\ \A s \in Scopes : Mix(s) \in Files /\ Encoded(s) \in Files
  /\ \A r, s \in Scopes : /\ Mix(r) = Mix(s) <=> r = s
                          /\ Encoded(r) = Encoded(s) <=> r = s
                          /\ Mix(r) # Encoded(s)
  /\ \A r \in Segments, s \in Scopes : /\ Speech(r) \in Files
                                       /\ Speech(r) # Mix(s) /\ Speech(r) # Encoded(s)
  /\ Beat \in Files
  /\ \A s \in Scopes : Beat # Mix(s) /\ Beat # Encoded(s)
  BY DEF Files, Mix, Encoded, Speech, Beat, Scopes

LEMMA JobLists ==
  /\ \A s \in Scopes : Jobs(Pub(s)) = <<Mix(s), Encoded(s)>>
  /\ \A k \in Stages : k[2] = "tts" => Jobs(k) = <<Speech(k[1])>> /\ k[1] \in Segments
  /\ Jobs(<<1, "research">>) = <<Beat>>
<1>1. \A s \in Scopes : Jobs(Pub(s)) = <<Mix(s), Encoded(s)>>
  <2> TAKE s \in Scopes
  <2>1. /\ Pub(s)[1] = s /\ Pub(s)[2] # "tts" /\ Pub(s) # <<1, "research">>
        /\ Pub(s)[2] = "mixing" \/ Pub(s) = Finalizing
    BY DEF Pub, Mixing, Finalizing
  <2> QED BY <2>1 DEF Jobs
<1>2. ASSUME NEW k \in Stages, k[2] = "tts" PROVE Jobs(k) = <<Speech(k[1])>> /\ k[1] \in Segments
  <2>1. k # <<1, "research">> /\ k # Finalizing /\ k # LeadResearch
    BY <1>2 DEF Finalizing, LeadResearch
  <2> QED BY <1>2, <2>1, PlanType DEF Jobs
<1>3. Jobs(<<1, "research">>) = <<Beat>>
  <2>1. /\ <<1, "research">>[2] # "tts" /\ <<1, "research">>[2] # "mixing"
        /\ <<1, "research">> # Finalizing
    BY DEF Finalizing
  <2> QED BY <2>1 DEF Jobs
<1> QED BY <1>1, <1>2, <1>3

LEMMA InputLists ==
  /\ \A s \in Scopes : Inputs(Encoded(s)) = {Mix(s)}
  /\ Inputs(Mix(Project)) = {Mix(r) : r \in Segments}
<1>1. \A s \in Scopes : Inputs(Encoded(s)) = {Mix(s)}
  <2> TAKE s \in Scopes
  <2>1. /\ Encoded(s) \notin {Mix(r) : r \in Segments} /\ Encoded(s) # Mix(Project)
        /\ Encoded(s) \in {Encoded(r) : r \in Scopes} /\ Encoded(s)[1] = s
    BY DEF Encoded, Mix
  <2> QED BY <2>1 DEF Inputs
<1>2. Inputs(Mix(Project)) = {Mix(r) : r \in Segments}
  <2>1. Mix(Project) \notin {Mix(r) : r \in Segments}
    BY FileNames, PubTypes
  <2>2. Mix(Project) \notin {Encoded(r) : r \in Scopes}
    BY DEF Encoded, Mix
  <2> QED BY <2>1, <2>2 DEF Inputs
<1> QED BY <1>1, <1>2

\* What a worker makes next, and for which stage.
LEMMA NextJob ==
  ASSUME TypeOK, StartedOnce, FilesTypeOK, NEW w \in Workers, PenInPlace(w), AtWork(w)
  PROVE  \/ \E s \in Scopes :
              /\ at[w] = Pub(s) /\ pc[w] = "audio" /\ Len(Jobs(at[w])) = 2
              /\ \/ done[w] = 0 /\ Job(w) = Mix(s)
                 \/ done[w] = 1 /\ Job(w) = Encoded(s)
         \/ /\ at[w][2] = "tts" /\ pc[w] = "audio" /\ Len(Jobs(at[w])) = 1
            /\ done[w] = 0 /\ at[w][1] \in Segments /\ Job(w) = Speech(at[w][1])
         \/ /\ at[w] = <<1, "research">> /\ pc[w] = "renew"
            /\ \/ done[w] = 0 /\ Job(w) = Beat
               \/ done[w] = 1 /\ pen[w] = "up"
<1>0. done[w] \in 0 .. 1 /\ at[w] \in Stages
  BY WorkerContext DEF FilesTypeOK
<1>1. CASE pc[w] = "audio" /\ \E s \in Scopes : at[w] = Pub(s)
  <2> PICK s \in Scopes : at[w] = Pub(s)
    BY <1>1
  <2>1. Jobs(at[w]) = <<Mix(s), Encoded(s)>>
    BY JobLists
  <2>2. /\ <<Mix(s), Encoded(s)>>[1] = Mix(s) /\ <<Mix(s), Encoded(s)>>[2] = Encoded(s)
        /\ Len(<<Mix(s), Encoded(s)>>) = 2
    OBVIOUS
  <2>3. Len(Jobs(at[w])) = 2
    BY <2>1, <2>2
  <2>4. done[w] = 0 => Job(w) = Mix(s)
    BY <2>1, <2>2 DEF Job
  <2>5. done[w] = 1 => Job(w) = Encoded(s)
    BY <2>1, <2>2 DEF Job
  <2>6. \/ done[w] = 0 /\ Job(w) = Mix(s)
        \/ done[w] = 1 /\ Job(w) = Encoded(s)
    BY <1>0, <2>4, <2>5
  <2> QED BY <1>1, <2>3, <2>6
<1>2. CASE pc[w] = "audio" /\ at[w][2] = "tts" /\ ~\E s \in Scopes : at[w] = Pub(s)
  <2>1. Jobs(at[w]) = <<Speech(at[w][1])>> /\ at[w][1] \in Segments
    BY <1>0, <1>2, JobLists
  <2>2. done[w] = 0
    BY <1>0, <1>2 DEF PenInPlace
  <2>3. Job(w) = Speech(at[w][1]) /\ Len(Jobs(at[w])) = 1
    BY <2>1, <2>2 DEF Job
  <2> QED BY <1>2, <2>1, <2>2, <2>3
<1>3. CASE pc[w] = "renew" /\ at[w] = <<1, "research">>
  <2>1. Jobs(at[w]) = <<Beat>>
    BY <1>3, JobLists
  <2>2. done[w] = 0 => Job(w) = Beat
    BY <2>1 DEF Job
  <2>3. done[w] = 1 => pen[w] = "up"
    BY <1>3 DEF PenInPlace
  <2> QED BY <1>0, <1>3, <2>2, <2>3
<1> QED BY <1>1, <1>2, <1>3 DEF AtWork, StartedOnce, AudioPlace

\* Who writes the files of a publication is at its stage.
LEMMA Writers ==
  ASSUME TypeOK, StartedOnce, FilesTypeOK, NEW w \in Workers, PenInPlace(w), pen[w] # "up",
         NEW s \in Scopes
  PROVE  /\ Job(w) = Mix(s) => Publishing(w, s) /\ pc[w] = "audio" /\ done[w] = 0
         /\ Job(w) = Encoded(s) => Publishing(w, s) /\ pc[w] = "audio" /\ done[w] = 1
         /\ Job(w) \in Files
<1>1. AtWork(w)
  BY DEF PenInPlace
<1> QED BY <1>1, NextJob, FileNames DEF Publishing
-----------------------------------------------------------------------------
(***************************************************************************)
(* What stays of the files while others are written.                       *)
(***************************************************************************)

\* The files a publication is made of.
SameFiles(s) ==
  /\ file'[Mix(s)] = file[Mix(s)] /\ file'[Encoded(s)] = file[Encoded(s)]
  /\ s = Project => \A r \in Segments : file'[Mix(r)] = file[Mix(r)]

SameHand(w) ==
  /\ pc'[w] = pc[w] /\ at'[w] = at[w]
  /\ pen'[w] = pen[w] /\ done'[w] = done[w] /\ checksum'[w] = checksum[w]

LEMMA MixedStays ==
  ASSUME NEW s \in Scopes, SameFiles(s)
  PROVE  /\ Mixed(s)' <=> Mixed(s)
         /\ Compressed(s)' <=> Compressed(s)
         /\ s = Project => (AllMixesSound' <=> AllMixesSound)
<1>1. s = Project => (AllMixesSound' <=> AllMixesSound)
  BY DEF SameFiles, AllMixesSound
<1>2. Mix(s)' = Mix(s) /\ Encoded(s)' = Encoded(s) /\ Mix(Project)' = Mix(Project)
  OBVIOUS
<1>3. Mixed(s)' <=> Mixed(s)
  BY <1>1, <1>2 DEF SameFiles, Mixed
<1> QED BY <1>1, <1>2, <1>3 DEF SameFiles, Compressed

LEMMA HandledStays ==
  ASSUME NEW w \in Workers, NEW s \in Scopes, Handled(w, s), SameHand(w), SameFiles(s),
         pen[w] # "up" => made'[w] = made[w]
  PROVE  Handled(w, s)'
  BY MixedStays DEF Handled, SameHand, SameFiles

LEMMA RecordedStays ==
  ASSUME NEW s \in Scopes, Recorded(s), SameFiles(s), published'[s] = published[s],
         Done(Pub(s))' => Done(Pub(s))
  PROVE  Recorded(s)'
  BY MixedStays DEF Recorded, SameFiles

LEMMA PenStays ==
  ASSUME NEW w \in Workers, PenInPlace(w), SameHand(w)
  PROVE  PenInPlace(w)'
  BY DEF PenInPlace, SameHand, AtWork

\* Who writes for one publication writes for no other: not for one that another
\* worker makes, nor for one that is made.
LEMMA WritingApart ==
  ASSUME TypeOK, OrderInv, StartedOnce, FilesTypeOK, ~deleted,
         NEW w \in Workers, PenInPlace(w), pen[w] # "up", NEW s \in Scopes,
         (\E v \in Workers \ {w} : Publishing(v, s)) \/ Done(Pub(s)),
         \A f \in Files \ {Job(w)} : file'[f] = file[f]
  PROVE  SameFiles(s)
<1>1. ~Publishing(w, s)
  BY DEF StartedOnce, StartedBy, Done
<1>2. Job(w) # Mix(s) /\ Job(w) # Encoded(s)
  BY <1>1, Writers
<1>3. ASSUME s = Project, NEW r \in Segments
      PROVE  Job(w) # Mix(r)
  <2>1. Done(Mixing(r))
    <3>1. CASE \E v \in Workers \ {w} : Publishing(v, s)
      BY <1>3, <3>1 DEF StartedOnce, StartedBy
    <3>2. CASE Done(Pub(s))
      BY <1>3, <3>2, PubTypes DEF OrderInv, RowsInv, KeptRows, FinalRows
    <3> QED BY <3>1, <3>2
  <2>2. r \in Scopes /\ Done(Pub(r))
    BY <2>1, PubTypes
  <2>3. ~Publishing(w, r)
    BY <2>2 DEF StartedOnce, StartedBy, Done
  <2> QED BY <2>2, <2>3, Writers
<1> QED BY <1>2, <1>3, FileNames, PubTypes DEF SameFiles

-----------------------------------------------------------------------------
(***************************************************************************)
(* Steps that touch no file.                                               *)
(***************************************************************************)

LEMMA ForgetDoes ==
  ASSUME FilesTypeOK, NEW w \in Workers, Forget(w)
  PROVE  /\ pen'[w] = "up" /\ made'[w] = "sound" /\ done'[w] = 0 /\ checksum'[w] = "none"
         /\ \A v \in Workers \ {w} : /\ pen'[v] = pen[v] /\ made'[v] = made[v]
                                     /\ done'[v] = done[v] /\ checksum'[v] = checksum[v]
         /\ pen' \in [Workers -> {"up", "ready", "down"}]
         /\ made' \in [Workers -> {"sound", "flawed"}]
         /\ done' \in [Workers -> 0 .. 1]
         /\ checksum' \in [Workers -> Contents \cup {"none"}]
  BY DEF Forget, FilesTypeOK

\* A worker that leaves its stage, or the last record of it, behind.
LEMMA ForgettingKeeps ==
  ASSUME TypeOK, FilesInv, NEW w \in Workers, Forget(w), OthersStay(w),
         UNCHANGED <<file, published, retention>>,
         \A s \in Scopes : Done(Pub(s))' => Done(Pub(s)),
         pc'[w] = "finish" => \A s \in Scopes : at'[w] # Pub(s)
  PROVE  FilesInv'
<1>1. FilesTypeOK'
  BY ForgetDoes DEF FilesInv, FilesTypeOK, OthersStay
<1>2. \A v \in Workers \ {w} : SameHand(v) /\ made'[v] = made[v]
  BY ForgetDoes DEF FilesInv, OthersStay, SameHand
<1>3. \A v \in Workers : PenInPlace(v)'
  <2>1. PenInPlace(w)'
    BY ForgetDoes DEF FilesInv, PenInPlace
  <2> QED BY <1>2, <2>1, PenStays DEF FilesInv
<1>4. ASSUME ~deleted
      PROVE  /\ \A v \in Workers, s \in Scopes : at'[v] = Pub(s) => Handled(v, s)'
             /\ \A s \in Scopes : Recorded(s)'
  <2>1. \A s \in Scopes : SameFiles(s)
    BY DEF SameFiles
  <2>2. \A s \in Scopes : Recorded(s)'
    BY <1>4, <2>1, RecordedStays DEF FilesInv
  <2>3. ASSUME NEW v \in Workers, NEW s \in Scopes, at'[v] = Pub(s)
        PROVE  Handled(v, s)'
    <3>1. CASE v = w
      BY <2>3, <3>1, ForgetDoes DEF FilesInv, Handled
    <3>2. CASE v # w
      BY <1>2, <1>4, <2>1, <2>3, <3>2, HandledStays DEF FilesInv, SameHand
    <3> QED BY <3>1, <3>2
  <2> QED BY <2>2, <2>3
<1> QED BY <1>1, <1>3, <1>4 DEF FilesInv, deleted

\* Nothing is published but by the step that completes a stage.
LEMMA NothingPublished ==
  ASSUME TypeOK, NEW w \in Workers, NEW s \in Scopes, Done(Pub(s))',
         \/ Hydrate(w) \/ Renew(w) \/ CheckStage(w) \/ StartStage(w) \/ Reserve(w)
         \/ Dispatch(w) \/ CallProvider(w) \/ CallReturned(w) \/ AbandonAttempt(w)
         \/ Complete(w) \/ Ready(w) \/ Cancel(w) \/ Failing(w) \/ Fail(w)
         \/ StepRaises(w) \/ Claim(w) \/ Crash(w)
  PROVE  Done(Pub(s))
<1>0. Pub(s) \in Stages /\ at[w] \in Stages /\ Pub(s) \notin Operations
      /\ Done(Pub(s))' <=> stage'[Pub(s)] = "completed"
  BY PubTypes, WorkerContext DEF Done
<1>1. CASE UNCHANGED stage
  BY <1>0, <1>1 DEF Done
<1>2. CASE RecordStageTransition(token[w], at[w], "running")
  BY <1>0, <1>2 DEF Done, RecordStageTransition, WriteStage, TypeOK, StoreTypeOK
<1>3. CASE ObserveCancellation
  BY <1>0, <1>3 DEF Done, ObserveCancellation
<1>4. CASE AbandonAttempt(w)
  <2>1. at[w] \in Operations
    BY <1>4, WorkerContext DEF AbandonAttempt, ProviderPhases
  <2>2. CASE FailAttemptUnknown(token[w], at[w])
    BY <1>0, <1>3, <2>1, <2>2 DEF Done, FailAttemptUnknown, TypeOK, StoreTypeOK
  <2>3. CASE UNCHANGED storeVars
    BY <1>1, <2>3 DEF storeVars, resultRows
  <2> QED BY <1>4, <2>2, <2>3 DEF AbandonAttempt
<1>5. CASE StartStage(w)
  BY <1>1, <1>2, <1>5 DEF StartStage, RaiseFenceLost, storeVars, resultRows
<1>6. CASE Reserve(w) \/ Dispatch(w) \/ Complete(w)
  <2>1. \/ UNCHANGED storeVars
        \/ ReserveAttempt(token[w], at[w]) \/ DispatchAttempt(token[w], at[w])
        \/ CompleteAttempt(token[w], at[w])
    BY <1>6 DEF Reserve, Dispatch, Complete, RaiseFenceLost, Raise
  <2> QED BY <1>1, <2>1 DEF storeVars, resultRows, ReserveAttempt, DispatchAttempt,
          CompleteAttempt, WriteAttempt
<1>7. CASE Ready(w) \/ Fail(w) \/ Claim(w)
  <2>1. UNCHANGED storeVars \/ UNCHANGED resultRows
    BY <1>7 DEF Ready, RaiseFenceLost, SettleReady, Fail, SettleFailure, Claim, ClaimWork
  <2> QED BY <1>1, <2>1 DEF storeVars, resultRows
<1>8. CASE Cancel(w)
  BY <1>1, <1>3, <1>8 DEF Cancel, SettleCancellation, storeVars, resultRows
<1>9. CASE \/ Hydrate(w) \/ Renew(w) \/ CheckStage(w) \/ CallProvider(w) \/ CallReturned(w)
           \/ Failing(w) \/ StepRaises(w) \/ Crash(w)
  <2>1. UNCHANGED storeVars
    BY <1>9 DEF Hydrate, Renew, CheckStage, CallProvider, CallReturned, Failing, StepRaises,
       Crash, RaiseFenceLost, Raise
  <2> QED BY <1>1, <2>1 DEF storeVars, resultRows
<1> QED BY <1>4, <1>5, <1>6, <1>7, <1>8, <1>9

\* Those steps lead to no publication without passing where its files are made.
LEMMA NotToFinish ==
  ASSUME TypeOK, NEW w \in Workers, pc'[w] = "finish",
         \/ Hydrate(w) \/ Renew(w) \/ CheckStage(w) \/ StartStage(w) \/ Reserve(w)
         \/ Dispatch(w) \/ CallProvider(w) \/ CallReturned(w) \/ AbandonAttempt(w)
         \/ Complete(w) \/ Ready(w) \/ Cancel(w) \/ Failing(w) \/ Fail(w)
         \/ StepRaises(w) \/ Claim(w) \/ Crash(w)
  PROVE  at'[w] \in Operations
<1>1. \A p : Goto(w, p) => p = "finish"
  BY DEF Goto, TypeOK, WorkerTypeOK
<1>2. ~Stop(w) /\ \A k \in Stages : ~MoveTo(w, k)
  <2>1. ~Stop(w)
    BY DEF Stop, TypeOK, WorkerTypeOK
  <2>2. \A k \in Stages : ~MoveTo(w, k)
    BY EntryPhaseType DEF MoveTo, TypeOK, WorkerTypeOK
  <2> QED BY <2>1, <2>2
<1>3. Reserve(w) \/ Complete(w)
  <2>1. CASE Hydrate(w) \/ Renew(w) \/ Ready(w) \/ StartStage(w) \/ Dispatch(w)
             \/ CallProvider(w) \/ CallReturned(w) \/ AbandonAttempt(w) \/ Cancel(w)
             \/ Failing(w) \/ Fail(w) \/ StepRaises(w) \/ Crash(w)
    BY <1>1, <1>2, <2>1 DEF Hydrate, Renew, Ready, StartStage, Dispatch, CallProvider,
       CallReturned, AbandonAttempt, Cancel, Failing, Fail, StepRaises, Crash, RaiseFenceLost
  <2>2. CASE CheckStage(w)
    <3>1. at[w] # Finalizing /\ at[w] \in Stages
            => (IF at[w][2] = "tts" THEN AfterSegment(at[w][1]) ELSE FollowUp(at[w])) \in Stages
      BY PlanType DEF LeadResearch
    <3> QED BY <1>1, <1>2, <2>2, <3>1, WorkerContext DEF CheckStage, Raise
  <2>3. CASE Claim(w)
    BY <2>3 DEF Claim, TypeOK, WorkerTypeOK
  <2> QED BY <2>1, <2>2, <2>3
<1> QED BY <1>3, WorkerContext DEF Reserve, Complete, In, ProviderPhases, RaiseFenceLost, Raise, Goto

-----------------------------------------------------------------------------
(***************************************************************************)
(* Every step keeps the invariant.                                         *)
(***************************************************************************)

LEMMA FilesInvInit == FilesInit => FilesInv
<1> SUFFICES ASSUME FilesInit PROVE FilesInv
  OBVIOUS
<1>1. /\ Init /\ file = [f \in Files |-> "absent"] /\ published = [s \in Scopes |-> "none"]
      /\ \A w \in Workers : /\ pc[w] = "idle" /\ pen[w] = "up" /\ done[w] = 0
                            /\ checksum[w] = "none"
      /\ \A k \in Stages : stage[k] = "pending"
  BY DEF FilesInit, Init, StoreInit
<1>2. FilesTypeOK
  BY <1>1 DEF FilesInit, FilesTypeOK, Contents
<1>3. \A w \in Workers : PenInPlace(w)
  BY <1>1 DEF PenInPlace
<1>4. \A w \in Workers, s \in Scopes : Handled(w, s)
  BY <1>1 DEF Handled
<1>5. \A s \in Scopes : Recorded(s)
  BY <1>1, PubTypes DEF Recorded, Done
<1> QED BY <1>2, <1>3, <1>4, <1>5 DEF FilesInv

\* A step of one worker that is not made on files and completes no stage: it
\* leads away from whatever files were made.
LEMMA LeavingKeeps ==
  ASSUME TypeOK, FilesInv, NEW w \in Workers, Forget(w), UNCHANGED <<file, published>>,
         \/ Hydrate(w) \/ Renew(w) \/ CheckStage(w) \/ StartStage(w) \/ Reserve(w)
         \/ Dispatch(w) \/ CallProvider(w) \/ CallReturned(w) \/ AbandonAttempt(w)
         \/ Complete(w) \/ Ready(w) \/ Cancel(w) \/ Failing(w) \/ Fail(w)
         \/ StepRaises(w) \/ Claim(w) \/ Crash(w)
  PROVE  FilesInv'
<1>1. OthersStay(w) /\ UNCHANGED retention
  <2>1. CASE Claim(w)
    BY <2>1 DEF Claim, ClaimWork, projRow, OthersStay, TypeOK, WorkerTypeOK
  <2>2. CASE ~Claim(w)
    <3>1. WorkerStep(w) \/ StepRaises(w) \/ Crash(w)
      BY <2>2 DEF WorkerStep
    <3> QED BY <3>1, OthersStand, WorkerKeeps
  <2> QED BY <2>1, <2>2
<1>2. \A s \in Scopes : Done(Pub(s))' => Done(Pub(s))
  BY NothingPublished
<1>3. pc'[w] = "finish" => \A s \in Scopes : at'[w] # Pub(s)
  BY NotToFinish, PubTypes
<1> QED BY <1>1, <1>2, <1>3, ForgettingKeeps

\* The steps that leave the files alone.
LEMMA QuietFiles ==
  ASSUME TypeOK, FilesInv, NEW w \in Workers,
         WithoutFiles(w) \/ HeadOfSegment(w) \/ CannotRead(w)
  PROVE  FilesInv'
<1>1. Forget(w) /\ UNCHANGED <<file, published>>
  BY DEF WithoutFiles, HeadOfSegment, CannotRead
<1>2. CASE WithoutFiles(w)
  BY <1>1, <1>2, LeavingKeeps DEF WithoutFiles
<1>3. CASE HeadOfSegment(w)
  BY <1>1, <1>3, LeavingKeeps DEF HeadOfSegment
<1>4. CASE CannotRead(w)
  BY <1>1, <1>4, UnreadableRaises, LeavingKeeps
<1> QED BY <1>2, <1>3, <1>4

\* A worker away from the files of a publication has no hand in them.
LEMMA AwayFromFiles ==
  ASSUME FilesTypeOK, NEW w \in Workers, PenInPlace(w), NEW s \in Scopes, at[w] = Pub(s)
  PROVE  /\ pen[w] # "up" => pc[w] = "audio"
         /\ ~Publishing(w, s) => pen[w] = "up" /\ pc[w] \notin {"audio", "finish"}
<1>1. at[w] # <<1, "research">>
  BY DEF Pub, Finalizing, Mixing
<1> QED BY <1>1 DEF PenInPlace, AtWork, Publishing

\* While one worker writes, the files that others work on stay.
LEMMA OthersHandled ==
  ASSUME TypeOK, OrderInv, StartedOnce, FilesInv, ~deleted,
         NEW w \in Workers, pen[w] # "up", \A f \in Files \ {Job(w)} : file'[f] = file[f],
         NEW v \in Workers \ {w}, SameHand(v), NEW s \in Scopes, at'[v] = Pub(s),
         pen[v] # "up" => made'[v] = made[v]
  PROVE  Handled(v, s)'
<1>1. /\ at[v] = Pub(s) /\ Handled(v, s) /\ FilesTypeOK
      /\ PenInPlace(v) /\ PenInPlace(w) /\ v \in Workers
  BY DEF SameHand, FilesInv
<1>2. CASE Publishing(v, s)
  <2>1. SameFiles(s)
    BY <1>1, <1>2, WritingApart
  <2> QED BY <1>1, <2>1, HandledStays
<1>3. CASE ~Publishing(v, s)
  BY <1>1, <1>3, AwayFromFiles DEF Handled, SameHand
<1> QED BY <1>2, <1>3

\* And so do those that are published.
LEMMA RecordsApart ==
  ASSUME TypeOK, OrderInv, StartedOnce, FilesInv, ~deleted, UNCHANGED <<stage, published>>,
         NEW w \in Workers, pen[w] # "up", \A f \in Files \ {Job(w)} : file'[f] = file[f],
         NEW s \in Scopes
  PROVE  Recorded(s)'
<1>1. PenInPlace(w) /\ FilesTypeOK /\ Recorded(s)
  BY DEF FilesInv
<1>2. Done(Pub(s))' <=> Done(Pub(s))
  BY DEF Done
<1>3. CASE Done(Pub(s))
  <2>1. SameFiles(s)
    BY <1>1, <1>3, WritingApart
  <2> QED BY <1>1, <1>2, <2>1, RecordedStays
<1>4. CASE ~Done(Pub(s))
  BY <1>2, <1>4 DEF Recorded
<1> QED BY <1>3, <1>4

\* The two files of a publication.
LEMMA PublicationJob ==
  ASSUME TypeOK, StartedOnce, FilesTypeOK, NEW w \in Workers, PenInPlace(w), AtWork(w),
         NEW s \in Scopes, at[w] = Pub(s)
  PROVE  /\ pc[w] = "audio" /\ Len(Jobs(at[w])) = 2
         /\ \/ done[w] = 0 /\ Job(w) = Mix(s)
            \/ done[w] = 1 /\ Job(w) = Encoded(s)
<1>1. at[w] # <<1, "research">>
  BY DEF Pub, Mixing, Finalizing
<1>2. at[w][2] # "tts" /\ \A r \in Scopes : at[w] = Pub(r) => r = s
  BY PubTypes
<1> QED BY <1>1, <1>2, NextJob

\* What is read decides what will be made: the MP3 is of its WAV, the episode
\* of all segments.
LEMMA ReadingKeeps ==
  ASSUME TypeOK, StartedOnce, FilesInv, NEW w \in Workers, ReadInputs(w)
  PROVE  FilesInv'
<1>1. /\ UNCHANGED <<pc, at, stage, retention, file, done, checksum, published>>
      /\ pen' = [pen EXCEPT ![w] = "ready"] /\ AtWork(w) /\ FilesTypeOK
  BY DEF ReadInputs, FilesInv, vars, storeVars, workerVars, resultRows, projRow
<1>2. /\ pen'[w] = "ready" /\ made'[w] \in {"sound", "flawed"}
      /\ made'[w] = "sound" <=> \A f \in Inputs(Job(w)) : file[f] = "sound"
      /\ \A v \in Workers \ {w} : pen'[v] = pen[v] /\ made'[v] = made[v]
      /\ pen' \in [Workers -> {"up", "ready", "down"}]
      /\ made' \in [Workers -> {"sound", "flawed"}]
  BY <1>1 DEF ReadInputs, FilesTypeOK
<1>3. FilesTypeOK'
  BY <1>1, <1>2 DEF FilesTypeOK, AtWork
<1>4. \A v \in Workers \ {w} : SameHand(v)
  BY <1>1, <1>2 DEF SameHand
<1>5. \A v \in Workers : PenInPlace(v)'
  <2>1. PenInPlace(w)'
    <3>1. done[w] = 1 => pc[w] = "audio" /\ \E s \in Scopes : at[w] = Pub(s)
      <4>1. at[w] = <<1, "research">> => done[w] = 0
        BY DEF ReadInputs, Needed
      <4> QED BY <4>1 DEF FilesInv, PenInPlace
    <3> QED BY <1>1, <3>1 DEF PenInPlace, AtWork
  <2> QED BY <1>4, <2>1, PenStays DEF FilesInv
<1>6. \A s \in Scopes : SameFiles(s)
  BY <1>1 DEF SameFiles
<1>7. ASSUME ~deleted, NEW v \in Workers, NEW s \in Scopes, at'[v] = Pub(s)
      PROVE  Handled(v, s)'
  <2>1. Handled(v, s) /\ at[v] = Pub(s)
    BY <1>1, <1>7 DEF FilesInv
  <2>2. CASE v # w
    BY <1>2, <1>4, <1>6, <2>1, <2>2, HandledStays
  <2>3. CASE v = w
    <3>0. PenInPlace(w) /\ at[w] = Pub(s)
      BY <2>1, <2>3 DEF FilesInv
    <3>1. /\ pc[w] = "audio"
          /\ \/ done[w] = 0 /\ Job(w) = Mix(s)
             \/ done[w] = 1 /\ Job(w) = Encoded(s)
      BY <1>1, <3>0, PublicationJob
    <3>2. done[w] = 1 => (made'[w] = "sound" <=> file[Mix(s)] = "sound")
      BY <1>2, <3>1, InputLists
    <3>3. done[w] = 0 /\ s = Project => (made'[w] = "sound" <=> AllMixesSound)
      BY <1>2, <3>1, InputLists DEF AllMixesSound
    <3>4. /\ done[w] = 1 => Mixed(s)
          /\ Mixed(s)' <=> Mixed(s)
          /\ s = Project => (AllMixesSound' <=> AllMixesSound)
      BY <1>6, <2>1, <2>3, <3>1, MixedStays DEF Handled
    <3>5. pc'[w] = "audio" /\ done'[w] = done[w] /\ UNCHANGED file
      BY <1>1, <3>1
    <3>6. Mix(s)' = Mix(s)
      OBVIOUS
    <3>7. /\ done'[w] = 1 => Mixed(s)'
          /\ done'[w] = 1 => (made'[w] = "sound" <=> file'[Mix(s)] = "sound")
          /\ done'[w] = 0 /\ s = Project => (made'[w] = "sound" <=> AllMixesSound')
      BY <3>2, <3>3, <3>4, <3>5
    <3>8. Handled(w, s)'
      BY <3>5, <3>7 DEF Handled
    <3> QED BY <2>3, <3>8
  <2> QED BY <2>2, <2>3
<1>8. ASSUME ~deleted PROVE \A s \in Scopes : Recorded(s)'
  BY <1>1, <1>6, <1>8, RecordedStays DEF FilesInv, Done
<1> QED BY <1>1, <1>3, <1>5, <1>7, <1>8 DEF FilesInv, deleted
\* Opening truncates a file nobody else counts on.
LEMMA OpeningKeeps ==
  ASSUME TypeOK, OrderInv, StartedOnce, FilesInv, NEW w \in Workers, OpenFile(w)
  PROVE  FilesInv'
<1>1. /\ UNCHANGED <<pc, at, stage, retention, made, done, checksum, published>>
      /\ pen' = [pen EXCEPT ![w] = "down"] /\ AtWork(w) /\ pen[w] = "ready" /\ FilesTypeOK
      /\ PenInPlace(w)
  BY DEF OpenFile, FilesInv, vars, storeVars, workerVars, resultRows, projRow
<1>2. /\ pen'[w] = "down" /\ \A v \in Workers \ {w} : pen'[v] = pen[v]
      /\ pen' \in [Workers -> {"up", "ready", "down"}]
  BY <1>1 DEF FilesTypeOK
<1>3. /\ Job(w) \in Files
      /\ file' \in [Files -> Contents]
      /\ \A f \in Files \ {Job(w)} : file'[f] = file[f]
  <2>1. Job(w) \in Files
    BY <1>1, Writers, PubTypes
  <2>2. file' = [file EXCEPT ![Job(w)] = "torn"] /\ "torn" \in Contents
    BY DEF OpenFile, Contents
  <2> QED BY <1>1, <2>1, <2>2 DEF FilesTypeOK
<1>4. FilesTypeOK'
  BY <1>1, <1>2, <1>3 DEF FilesTypeOK, AtWork
<1>5. \A v \in Workers \ {w} : SameHand(v)
  BY <1>1, <1>2 DEF SameHand
<1>6. \A v \in Workers : PenInPlace(v)'
  <2>1. PenInPlace(w)'
    BY <1>1, <1>2 DEF PenInPlace, AtWork
  <2> QED BY <1>5, <2>1, PenStays DEF FilesInv
<1>7. ASSUME ~deleted, NEW v \in Workers, NEW s \in Scopes, at'[v] = Pub(s)
      PROVE  Handled(v, s)'
  <2>1. CASE v # w
    BY <1>1, <1>3, <1>5, <1>7, <2>1, OthersHandled
  <2>2. CASE v = w
    <3>0. at[w] = Pub(s) /\ Handled(w, s)
      BY <1>1, <1>7, <2>2 DEF FilesInv
    <3>1. /\ pc[w] = "audio"
          /\ \/ done[w] = 0 /\ Job(w) = Mix(s)
             \/ done[w] = 1 /\ Job(w) = Encoded(s)
      BY <1>1, <3>0, PublicationJob
    <3>2. s = Project => (AllMixesSound' <=> AllMixesSound)
      <4>1. s = Project => \A r \in Segments : file'[Mix(r)] = file[Mix(r)]
        BY <1>3, <3>1, FileNames, PubTypes
      <4> QED BY <4>1 DEF AllMixesSound
    <3>5. pc'[w] = "audio" /\ done'[w] = done[w] /\ made'[w] = made[w] /\ pen[w] # "up"
      BY <1>1, <3>1
    <3>3. CASE done[w] = 0
      <4>1. s = Project => (made[w] = "sound" <=> AllMixesSound)
        BY <3>0, <3>3, <3>5 DEF Handled
      <4>2. s = Project => (made'[w] = "sound" <=> AllMixesSound')
        BY <3>2, <3>5, <4>1
      <4> QED BY <2>2, <3>3, <3>5, <4>2 DEF Handled
    <3>4. CASE done[w] = 1
      <4>1. file'[Mix(s)] = file[Mix(s)] /\ Mixed(s)
        BY <1>3, <3>0, <3>1, <3>4, FileNames DEF Handled
      <4>2. Mixed(s)'
        BY <3>2, <4>1 DEF Mixed
      <4>3. made[w] = "sound" <=> file[Mix(s)] = "sound"
        BY <3>0, <3>4, <3>5 DEF Handled
      <4>4. made'[w] = "sound" <=> file'[Mix(s)] = "sound"
        BY <3>5, <4>1, <4>3
      <4> QED BY <2>2, <3>4, <3>5, <4>2, <4>4 DEF Handled
    <3> QED BY <2>2, <3>1, <3>3, <3>4
  <2> QED BY <2>1, <2>2
<1>8. ASSUME ~deleted PROVE \A s \in Scopes : Recorded(s)'
  BY <1>1, <1>3, <1>8, RecordsApart
<1> QED BY <1>1, <1>4, <1>6, <1>7, <1>8 DEF FilesInv, deleted

\* What closing a file does to the files and the pens.
LEMMA WritingDoes ==
  ASSUME TypeOK, StartedOnce, FilesInv, NEW w \in Workers, CloseFile(w)
  PROVE  /\ AtWork(w) /\ pen[w] = "down" /\ Job(w) \in Files
         /\ file' \in [Files -> Contents] /\ \A f \in Files \ {Job(w)} : file'[f] = file[f]
         /\ made' \in [Workers -> {"sound", "flawed"}]
         /\ pen' \in [Workers -> {"up", "ready", "down"}] /\ pen'[w] = "up"
         /\ done' \in [Workers -> 0 .. 1]
         /\ \A v \in Workers \ {w} : pen'[v] = pen[v] /\ done'[v] = done[v]
         /\ OthersStay(w) /\ UNCHANGED <<stage, retention, checksum, published>>
         /\ ~deleted => \A s \in Scopes :
              /\ at[w] = Pub(s) => file'[Job(w)] = made[w]
              /\ \A v \in Workers \ {w} : at[v] = Pub(s) /\ pen[v] # "up" => made'[v] = made[v]
<1> DEFINE others == {v \in Workers \ {w} : Writing(v, Job(w))}
<1>1. /\ AtWork(w) /\ pen[w] = "down" /\ UNCHANGED <<checksum, published>>
      /\ WriteToTheEnd(w) /\ FilesTypeOK /\ \A v \in Workers : PenInPlace(v)
  BY DEF CloseFile, FilesInv
<1>2. /\ Job(w) \in Files
      /\ \A v \in Workers, s \in Scopes : pen[v] # "up" =>
           /\ Job(v) = Mix(s) \/ Job(v) = Encoded(s) => Publishing(v, s)
  BY <1>1, Writers, PubTypes
<1>3. PICK spoiled \in SUBSET others :
        made' = [v \in Workers |-> IF v \in spoiled THEN "flawed"
                                   ELSE IF v = w THEN "sound" ELSE made[v]]
  BY <1>1 DEF WriteToTheEnd
<1>4. /\ file' = [file EXCEPT ![Job(w)] = IF others = {} THEN made[w] ELSE "torn"]
      /\ pen' = [pen EXCEPT ![w] = "up"]
  BY <1>1 DEF WriteToTheEnd
<1>5. /\ file' \in [Files -> Contents] /\ \A f \in Files \ {Job(w)} : file'[f] = file[f]
      /\ file'[Job(w)] = IF others = {} THEN made[w] ELSE "torn"
  <2>1. made[w] \in Contents /\ "torn" \in Contents
    BY <1>1 DEF FilesTypeOK, Contents
  <2>2. file \in [Files -> Contents]
    BY <1>1 DEF FilesTypeOK
  <2> QED BY <1>2, <1>4, <2>1, <2>2
<1>6. /\ pen' \in [Workers -> {"up", "ready", "down"}] /\ pen'[w] = "up"
      /\ \A v \in Workers \ {w} : pen'[v] = pen[v]
      /\ made' \in [Workers -> {"sound", "flawed"}]
  BY <1>1, <1>3, <1>4 DEF FilesTypeOK
<1>7. /\ done' \in [Workers -> 0 .. 1]
      /\ \A v \in Workers \ {w} : done'[v] = done[v]
  <2>1. done' = [done EXCEPT ![w] = 0] \/ done' = [done EXCEPT ![w] = 1]
    BY DEF CloseFile, RenewAndGoOn
  <2> QED BY <1>1, <2>1 DEF FilesTypeOK
<1>8. OthersStay(w) /\ UNCHANGED <<stage, retention>>
  <2>1. CASE UNCHANGED vars
    BY <2>1 DEF vars, storeVars, workerVars, resultRows, projRow, OthersStay
  <2>2. CASE LocalAudio(w) \/ Renew(w)
    <3>1. UNCHANGED storeVars
      BY <2>2 DEF LocalAudio, Renew, RaiseFenceLost
    <3> QED BY <2>2, <3>1, OthersStand DEF WorkerStep, storeVars, resultRows, projRow
  <2> QED BY <2>1, <2>2, ClosingIsARenewal
<1>9. ASSUME ~deleted, NEW s \in Scopes
      PROVE  /\ at[w] = Pub(s) => others = {}
             /\ \A v \in Workers \ {w} : at[v] = Pub(s) /\ pen[v] # "up" => v \notin spoiled
  <2>1. ASSUME NEW v \in others, Publishing(v, s) \/ at[w] = Pub(s)
        PROVE  FALSE
    <3>1. v \in Workers /\ v # w /\ pen[v] = "down" /\ Job(v) = Job(w)
      BY DEF Writing
    <3>2. Job(w) = Mix(s) \/ Job(w) = Encoded(s)
      <4>1. CASE at[w] = Pub(s)
        BY <1>1, <4>1, PublicationJob
      <4>2. CASE Publishing(v, s)
        <5>1. AtWork(v) /\ PenInPlace(v) /\ at[v] = Pub(s)
          BY <1>1, <3>1, <4>2 DEF PenInPlace, Publishing
        <5>2. Job(v) = Mix(s) \/ Job(v) = Encoded(s)
          BY <1>1, <3>1, <5>1, PublicationJob
        <5> QED BY <3>1, <5>2
      <4> QED BY <2>1, <4>1, <4>2
    <3>3. Publishing(w, s) /\ Publishing(v, s)
      BY <1>1, <1>2, <3>1, <3>2
    <3> QED BY <1>9, <3>1, <3>3 DEF StartedOnce
  <2>2. \A v \in Workers \ {w} : at[v] = Pub(s) /\ pen[v] # "up" => Publishing(v, s)
    BY <1>1, AwayFromFiles
  <2>3. spoiled \subseteq others
    OBVIOUS
  <2>4. at[w] = Pub(s) => others = {}
    BY <2>1
  <2>5. \A v \in Workers \ {w} : at[v] = Pub(s) /\ pen[v] # "up" => v \notin spoiled
    BY <2>1, <2>2, <2>3
  <2> QED BY <2>4, <2>5
<1>10. ASSUME ~deleted, NEW s \in Scopes
       PROVE  /\ at[w] = Pub(s) => file'[Job(w)] = made[w]
              /\ \A v \in Workers \ {w} : at[v] = Pub(s) /\ pen[v] # "up" => made'[v] = made[v]
  <2>1. at[w] = Pub(s) => file'[Job(w)] = made[w]
    BY <1>5, <1>9, <1>10
  <2>2. \A v \in Workers \ {w} : v \notin spoiled => made'[v] = made[v]
    BY <1>3
  <2> QED BY <1>9, <1>10, <2>1, <2>2
<1> QED BY <1>1, <1>2, <1>5, <1>6, <1>7, <1>8, <1>10

\* And where the worker goes from there.
LEMMA ClosingGoes ==
  ASSUME TypeOK, NEW w \in Workers, CloseFile(w), done[w] \in 0 .. 1, done \in [Workers -> 0 .. 1]
  PROVE  /\ at'[w] = at[w]
         /\ \/ pc'[w] = "cancel" /\ done'[w] = 0
            \/ /\ pc'[w] = "finish" /\ done'[w] = 0
               /\ pc[w] = "audio" /\ Len(Jobs(at[w])) = done[w] + 1
            \/ /\ pc'[w] = pc[w] /\ done'[w] = 1
               /\ ~(Len(Jobs(at[w])) = done[w] + 1 /\ pc[w] = "audio")
<1>1. CASE Len(Jobs(at[w])) = done[w] + 1 /\ pc[w] = "audio"
  <2>1. LocalAudio(w) /\ done' = [done EXCEPT ![w] = 0]
    BY <1>1 DEF CloseFile
  <2>2. Goto(w, "finish") \/ Goto(w, "cancel")
    BY <2>1 DEF LocalAudio, RaiseFenceLost
  <2> QED BY <1>1, <2>1, <2>2 DEF Goto, TypeOK, WorkerTypeOK
<1>2. CASE ~(Len(Jobs(at[w])) = done[w] + 1 /\ pc[w] = "audio")
  <2>1. RenewAndGoOn(w)
    BY <1>2 DEF CloseFile
  <2>2. CASE CanRenew(token[w]) \/ at[w] = Finalizing
    BY <1>2, <2>1, <2>2 DEF RenewAndGoOn, workerVars
  <2>3. CASE ~(CanRenew(token[w]) \/ at[w] = Finalizing)
    BY <2>1, <2>3 DEF RenewAndGoOn, Goto, TypeOK, WorkerTypeOK
  <2> QED BY <2>2, <2>3
<1> QED BY <1>1, <1>2

\* The file of a publication is what was made, for nobody else was writing it.
LEMMA ClosingKeeps ==
  ASSUME TypeOK, OrderInv, StartedOnce, FilesInv, NEW w \in Workers, CloseFile(w)
  PROVE  FilesInv'
<1>1. /\ AtWork(w) /\ pen[w] = "down" /\ Job(w) \in Files
      /\ file' \in [Files -> Contents] /\ \A f \in Files \ {Job(w)} : file'[f] = file[f]
      /\ made' \in [Workers -> {"sound", "flawed"}]
      /\ pen' \in [Workers -> {"up", "ready", "down"}] /\ pen'[w] = "up"
      /\ done' \in [Workers -> 0 .. 1]
      /\ \A v \in Workers \ {w} : pen'[v] = pen[v] /\ done'[v] = done[v]
      /\ OthersStay(w) /\ UNCHANGED <<stage, retention, checksum, published>>
  BY WritingDoes
<1>2. ASSUME ~deleted, NEW s \in Scopes
      PROVE  /\ at[w] = Pub(s) => file'[Job(w)] = made[w]
             /\ \A v \in Workers \ {w} : at[v] = Pub(s) /\ pen[v] # "up" => made'[v] = made[v]
  BY <1>2, WritingDoes
<1>3. FilesTypeOK /\ PenInPlace(w) /\ done[w] \in 0 .. 1 /\ checksum[w] = "none"
  BY <1>1 DEF FilesInv, FilesTypeOK, AtWork
<1>4. /\ at'[w] = at[w]
      /\ \/ pc'[w] = "cancel" /\ done'[w] = 0
         \/ /\ pc'[w] = "finish" /\ done'[w] = 0
            /\ pc[w] = "audio" /\ Len(Jobs(at[w])) = done[w] + 1
         \/ /\ pc'[w] = pc[w] /\ done'[w] = 1
            /\ ~(Len(Jobs(at[w])) = done[w] + 1 /\ pc[w] = "audio")
  BY <1>3, ClosingGoes DEF FilesTypeOK
<1>5. \A v \in Workers \ {w} : SameHand(v)
  BY <1>1 DEF SameHand, OthersStay
<1>6. FilesTypeOK'
  <2>1. ASSUME NEW v \in Workers
        PROVE  /\ pen'[v] # "up" \/ done'[v] # 0 => pc'[v] \in {"audio", "renew"}
               /\ checksum'[v] # "none" => pc'[v] = "finish"
    <3>1. CASE v = w
      BY <1>1, <1>3, <1>4, <3>1 DEF AtWork
    <3>2. CASE v # w
      BY <1>3, <1>5, <3>2 DEF FilesTypeOK, SameHand
    <3> QED BY <3>1, <3>2
  <2> QED BY <1>1, <1>3, <2>1 DEF FilesTypeOK
<1>7. \A v \in Workers : PenInPlace(v)'
  <2>1. done'[w] = 1 => \/ pc'[w] = "audio" /\ \E s \in Scopes : at'[w] = Pub(s)
                        \/ pc'[w] = "renew" /\ at'[w] = <<1, "research">>
    <3> SUFFICES ASSUME done'[w] = 1
                 PROVE  \/ pc'[w] = "audio" /\ \E s \in Scopes : at'[w] = Pub(s)
                        \/ pc'[w] = "renew" /\ at'[w] = <<1, "research">>
      OBVIOUS
    <3>1. pc'[w] = pc[w] /\ ~(Len(Jobs(at[w])) = done[w] + 1 /\ pc[w] = "audio")
      BY <1>4
    <3>2. \/ pc[w] = "audio" /\ \E s \in Scopes : at[w] = Pub(s)
          \/ at[w][2] = "tts" /\ pc[w] = "audio" /\ Len(Jobs(at[w])) = 1 /\ done[w] = 0
          \/ at[w] = <<1, "research">> /\ pc[w] = "renew"
      BY <1>1, <1>3, NextJob
    <3>3. done[w] = 0 => done[w] + 1 = 1
      OBVIOUS
    <3>4. ~(at[w][2] = "tts" /\ pc[w] = "audio" /\ Len(Jobs(at[w])) = 1 /\ done[w] = 0)
      BY <3>1, <3>3, Zenon
    <3> QED BY <1>4, <3>1, <3>2, <3>4
  <2>2. PenInPlace(w)'
    BY <1>1, <2>1 DEF PenInPlace
  <2> QED BY <1>5, <2>2, PenStays DEF FilesInv
<1>8. ASSUME ~deleted, NEW v \in Workers, NEW s \in Scopes, at'[v] = Pub(s)
      PROVE  Handled(v, s)'
  <2>1. CASE v # w
    <3>1. at[v] = Pub(s)
      BY <1>5, <1>8, <2>1 DEF SameHand
    <3> QED BY <1>1, <1>2, <1>5, <1>8, <2>1, <3>1, OthersHandled
  <2>2. CASE v = w
    <3>0. at[w] = Pub(s) /\ Handled(w, s) /\ file'[Job(w)] = made[w]
      BY <1>2, <1>4, <1>8, <2>2 DEF FilesInv
    <3>1. /\ pc[w] = "audio" /\ Len(Jobs(at[w])) = 2
          /\ \/ done[w] = 0 /\ Job(w) = Mix(s)
             \/ done[w] = 1 /\ Job(w) = Encoded(s)
      BY <1>1, <1>3, <3>0, PublicationJob
    <3>2. s = Project => (AllMixesSound' <=> AllMixesSound)
      <4>1. s = Project => \A r \in Segments : file'[Mix(r)] = file[Mix(r)]
        BY <1>1, <3>1, FileNames, PubTypes
      <4> QED BY <4>1 DEF AllMixesSound
    <3>3. made[w] \in Whole
      BY <1>3 DEF FilesTypeOK, Whole
    <3>4. CASE pc'[w] = "cancel"
      BY <1>1, <2>2, <3>4 DEF Handled
    <3>5. CASE pc'[w] = "finish"
      <4>1. done[w] = 1 /\ Job(w) = Encoded(s)
        BY <1>4, <3>1, <3>5
      <4>2. Mixed(s) /\ (made[w] = "sound" <=> file[Mix(s)] = "sound")
        BY <1>1, <3>0, <3>1, <4>1 DEF Handled
      <4>3. file'[Mix(s)] = file[Mix(s)] /\ file'[Encoded(s)] = made[w]
        BY <1>1, <3>0, <4>1, FileNames
      <4>4. Mixed(s)'
        BY <3>2, <4>2, <4>3 DEF Mixed
      <4>5. Compressed(s)'
        BY <3>3, <4>2, <4>3, <4>4 DEF Compressed
      <4>6. checksum'[w] = "none"
        BY <1>1, <1>3
      <4> QED BY <1>1, <2>2, <3>5, <4>5, <4>6 DEF Handled
    <3>6. CASE pc'[w] = pc[w] /\ done'[w] = 1
      <4>1. done[w] = 0 /\ Job(w) = Mix(s)
        BY <1>4, <3>1, <3>6
      <4>2. s = Project => (made[w] = "sound" <=> AllMixesSound)
        BY <1>1, <3>0, <4>1 DEF Handled
      <4>3. file'[Mix(s)] = made[w]
        BY <3>0, <4>1
      <4>4. Mixed(s)'
        BY <3>2, <3>3, <4>2, <4>3 DEF Mixed
      <4> QED BY <1>1, <2>2, <3>1, <3>6, <4>4 DEF Handled
    <3> QED BY <1>4, <3>4, <3>5, <3>6
  <2> QED BY <2>1, <2>2
<1>9. ASSUME ~deleted PROVE \A s \in Scopes : Recorded(s)'
  BY <1>1, <1>9, RecordsApart
<1> QED BY <1>1, <1>6, <1>7, <1>8, <1>9 DEF FilesInv, deleted

\* Who publishes is at a publication.
LEMMA PublishesAtPub ==
  ASSUME TypeOK, NEW w \in Workers, Publishes(w)
  PROVE  /\ pc[w] = "finish"
         /\ \E s \in Scopes : at[w] = Pub(s) /\ at[w][1] = s
BY WorkerContext, PubTypes DEF Publishes, Finalizing

\* The checksum is of the file as it stays.
LEMMA ChecksumKeeps ==
  ASSUME TypeOK, FilesInv, NEW w \in Workers, TakeChecksum(w)
  PROVE  FilesInv'
<1>1. pc[w] = "finish" /\ Publishes(w)
  BY DEF TakeChecksum, Publishes
<1> PICK s \in Scopes : at[w] = Pub(s) /\ at[w][1] = s
  BY <1>1, PublishesAtPub
<1>2. CASE Raise(w) /\ Forget(w) /\ UNCHANGED <<calls, faultVars, file, published>>
  <2>1. StepRaises(w)
    BY <1>1, <1>2, FilesMayRaise DEF Raise, StepRaises
  <2> QED BY <1>2, <2>1, LeavingKeeps
<1>3. CASE /\ checksum' = [checksum EXCEPT ![w] = file[Encoded(at[w][1])]]
           /\ UNCHANGED <<vars, file, pen, made, done, published>>
  <2>1. /\ UNCHANGED <<pc, at, stage, retention, file, pen, made, done, published>>
        /\ FilesTypeOK /\ Encoded(s) \in Files
    BY <1>3, FileNames DEF FilesInv, vars, storeVars, workerVars, resultRows, projRow
  <2>2. /\ checksum'[w] = file[Encoded(s)]
        /\ \A v \in Workers \ {w} : checksum'[v] = checksum[v]
        /\ checksum' \in [Workers -> Contents \cup {"none"}]
    BY <1>3, <2>1 DEF FilesTypeOK
  <2>3. FilesTypeOK'
    BY <1>1, <2>1, <2>2 DEF FilesTypeOK
  <2>4. \A v \in Workers : PenInPlace(v)'
    BY <2>1 DEF FilesInv, PenInPlace, AtWork
  <2>5. \A r \in Scopes : SameFiles(r)
    BY <2>1 DEF SameFiles
  <2>6. ASSUME ~deleted PROVE \A r \in Scopes : Recorded(r)'
    BY <2>1, <2>5, <2>6, RecordedStays DEF FilesInv, Done
  <2>7. ASSUME ~deleted, NEW v \in Workers, NEW r \in Scopes, at'[v] = Pub(r)
        PROVE  Handled(v, r)'
    <3>1. Handled(v, r) /\ at[v] = Pub(r)
      BY <2>1, <2>7 DEF FilesInv
    <3>2. CASE v # w
      <4>1. SameHand(v)
        BY <2>1, <2>2, <3>2 DEF SameHand
      <4> QED BY <2>1, <2>5, <3>1, <4>1, HandledStays
    <3>3. CASE v = w
      <4>1. r = s
        BY <3>1, <3>3, PubTypes
      <4>2. Compressed(s)'
        BY <1>1, <2>5, <3>1, <3>3, <4>1, MixedStays DEF Handled
      <4>3. pc'[w] = "finish" /\ pen'[w] = "up" /\ checksum'[w] = file'[Encoded(s)]
        BY <1>1, <2>1, <2>2 DEF FilesTypeOK
      <4> QED BY <3>3, <4>1, <4>2, <4>3 DEF Handled
    <3> QED BY <3>2, <3>3
  <2> QED BY <2>1, <2>3, <2>4, <2>6, <2>7 DEF FilesInv, deleted
<1> QED BY <1>2, <1>3 DEF TakeChecksum

\* What the last step of a stage does.
LEMMA FinishingDoes ==
  ASSUME TypeOK, NEW w \in Workers, FinishStage(w)
  PROVE  \/ UNCHANGED storeVars /\ pc'[w] \in {"cancel", "failing"}
         \/ /\ Fence(token[w]) /\ UNCHANGED retention /\ pc'[w] \notin {"audio", "finish"}
            /\ stage' = [stage EXCEPT ![at[w]] = "completed"]
            /\ \/ \E s \in Scopes : at[w] = Pub(s) /\ artifacts' = [artifacts EXCEPT ![s] = @ + 1]
               \/ (\A s \in Scopes : at[w] # Pub(s)) /\ UNCHANGED artifacts
<1> PICK k \in Stages : k = at[w]
  BY WorkerContext
<1> PICK t \in Nat : t = token[w]
  BY WorkerContext
<1>1. CASE RaiseFenceLost(w) \/ Raise(w)
  BY <1>1 DEF RaiseFenceLost, Raise, Goto, TypeOK, WorkerTypeOK
<1>2. CASE Fence(t) /\ PublishStage(t, k)
           /\ IF k = Finalizing THEN Stop(w) ELSE MoveTo(w, FollowUp(k))
  <2>1. pc'[w] \notin {"audio", "finish"}
    <3>1. CASE k = Finalizing
      BY <1>2, <3>1 DEF Stop, TypeOK, WorkerTypeOK
    <3>2. CASE k # Finalizing
      BY <1>2, <3>2, PlanType, EntryPhaseType DEF MoveTo, TypeOK, WorkerTypeOK
    <3> QED BY <3>1, <3>2
  <2>2. CASE k = Finalizing /\ PublishFinal(t)
    BY <1>2, <2>1, <2>2, PubTypes DEF PublishFinal
  <2>3. CASE k[2] = "mixing" /\ PublishAudio(t, k[1])
    <3> PICK s \in Segments : s = k[1] /\ k = Pub(s) /\ s \in Scopes
      BY <2>3, PubTypes
    <3>1. /\ stage' = [stage EXCEPT ![k] = "completed"] /\ UNCHANGED retention
          /\ artifacts' = [artifacts EXCEPT ![s] = @ + 1]
      BY <2>3, PubTypes DEF PublishAudio, WriteStage, Mixing
    <3> QED BY <1>2, <2>1, <3>1
  <2>4. CASE k[2] = "fact_checking" /\ PublishVerifiedText(t, k[1])
    <3>1. k = <<k[1], "fact_checking">>
      BY <2>4 DEF Stages, Finalizing, LeadResearch
    <3>2. /\ stage' = [stage EXCEPT ![k] = "completed"] /\ UNCHANGED <<retention, artifacts>>
      BY <2>4, <3>1 DEF PublishVerifiedText, WriteStage, projRow
    <3>3. \A s \in Scopes : k # Pub(s)
      BY <2>4 DEF Pub, Mixing, Finalizing
    <3> QED BY <1>2, <2>1, <3>2, <3>3
  <2>5. CASE k[2] \in {"research", "text_generation", "tts"}
             /\ RecordStageTransition(t, k, "completed")
    <3>2. /\ stage' = [stage EXCEPT ![k] = "completed"] /\ UNCHANGED <<retention, artifacts>>
      BY <2>5 DEF RecordStageTransition, WriteStage, projRow
    <3>3. \A s \in Scopes : k # Pub(s)
      BY <2>5 DEF Pub, Mixing, Finalizing
    <3> QED BY <1>2, <2>1, <3>2, <3>3
  <2> QED BY <1>2, <2>2, <2>3, <2>4, <2>5 DEF PublishStage
<1> QED BY <1>1, <1>2 DEF FinishStage

\* The row of a publication is of the file its worker has finished.
LEMMA PublishingKeeps ==
  ASSUME TypeOK, OrderInv, StartedOnce, FilesInv, NEW w \in Workers, Publish(w)
  PROVE  FilesInv'
<1>1. /\ FinishStage(w) /\ Forget(w) /\ UNCHANGED file /\ FilesTypeOK /\ pc[w] = "finish"
      /\ Publishes(w) => checksum[w] # "none"
      /\ published' = IF artifacts' = artifacts THEN published
                      ELSE [published EXCEPT ![at[w][1]] = checksum[w]]
  BY DEF Publish, FilesInv, FinishStage, In
<1>2. OthersStay(w) /\ WorkerStep(w)
  BY <1>1, OthersStand DEF WorkerStep
<1>3. CASE UNCHANGED storeVars /\ pc'[w] \in {"cancel", "failing"}
  <2>1. UNCHANGED <<stage, artifacts, retention>>
    BY <1>3 DEF storeVars, resultRows, projRow
  <2> QED BY <1>1, <1>2, <1>3, <2>1, ForgettingKeeps DEF Done
<1>4. CASE /\ UNCHANGED retention /\ pc'[w] \notin {"audio", "finish"}
           /\ stage' = [stage EXCEPT ![at[w]] = "completed"]
           /\ (\A s \in Scopes : at[w] # Pub(s)) /\ UNCHANGED artifacts
  <2>1. \A s \in Scopes : Done(Pub(s))' => Done(Pub(s))
    BY <1>4, PubTypes DEF Done, TypeOK, StoreTypeOK
  <2> QED BY <1>1, <1>2, <1>4, <2>1, ForgettingKeeps
<1>5. ASSUME NEW s \in Scopes, at[w] = Pub(s), Fence(token[w]), UNCHANGED retention,
             pc'[w] \notin {"audio", "finish"},
             stage' = [stage EXCEPT ![at[w]] = "completed"],
             artifacts' = [artifacts EXCEPT ![s] = @ + 1]
      PROVE  FilesInv'
  <2>1. /\ stage' = [stage EXCEPT ![Pub(s)] = "completed"]
        /\ ~deleted /\ Handled(w, s)
    BY <1>5 DEF Fence, FilesInv
  <2>2. Compressed(s) /\ checksum[w] = file[Encoded(s)]
    <3>1. Publishes(w)
      BY <1>1, <1>5 DEF Publishes, Pub, Mixing
    <3> QED BY <1>1, <2>1, <3>1 DEF Handled
  <2>3. artifacts' # artifacts
    <3>1. artifacts'[s] = artifacts[s] + 1 /\ artifacts[s] \in Nat
      BY <1>5 DEF TypeOK, StoreTypeOK
    <3> QED BY <3>1
  <2>4. /\ published'[s] = file[Encoded(s)]
        /\ \A r \in Scopes \ {s} : published'[r] = published[r]
        /\ published' \in [Scopes -> Contents \cup {"none"}]
    <3>1. published' = [published EXCEPT ![s] = checksum[w]]
      BY <1>1, <1>5, <2>3, PubTypes
    <3> QED BY <1>1, <2>2, <3>1 DEF FilesTypeOK
  <2>5. FilesTypeOK'
    BY <1>1, <1>2, <2>4, ForgetDoes DEF FilesTypeOK, OthersStay
  <2>6. \A v \in Workers \ {w} : SameHand(v) /\ made'[v] = made[v]
    BY <1>1, <1>2, ForgetDoes DEF OthersStay, SameHand
  <2>7. \A v \in Workers : PenInPlace(v)'
    <3>1. PenInPlace(w)'
      BY <1>1, ForgetDoes DEF PenInPlace
    <3> QED BY <2>6, <3>1, PenStays DEF FilesInv
  <2>8. \A r \in Scopes : SameFiles(r)
    BY <1>1 DEF SameFiles
  <2>9. ASSUME NEW r \in Scopes PROVE Recorded(r)'
    <3>1. CASE r = s
      BY <1>1, <2>2, <2>4, <2>8, <3>1, MixedStays DEF Recorded
    <3>2. CASE r # s
      <4>1. Done(Pub(r))' => Done(Pub(r))
        BY <2>1, <3>2, PubTypes DEF Done, TypeOK, StoreTypeOK
      <4> QED BY <2>1, <2>4, <2>8, <3>2, <4>1, RecordedStays DEF FilesInv
    <3> QED BY <3>1, <3>2
  <2>10. ASSUME NEW v \in Workers, NEW r \in Scopes, at'[v] = Pub(r)
         PROVE  Handled(v, r)'
    <3>1. CASE v = w
      BY <1>1, <1>5, <3>1, ForgetDoes DEF Handled
    <3>2. CASE v # w
      BY <2>1, <2>6, <2>8, <2>10, <3>2, HandledStays DEF FilesInv, SameHand
    <3> QED BY <3>1, <3>2
  <2> QED BY <2>5, <2>7, <2>9, <2>10 DEF FilesInv
<1> QED BY <1>1, <1>3, <1>4, <1>5, FinishingDoes

\* The clock and the client touch no file.
LEMMA OutsideKeepsFiles ==
  ASSUME FilesInv, UNCHANGED <<workerVars, fileVars>>,
         deleted' \/ UNCHANGED <<stage, retention>>
  PROVE  FilesInv'
<1>1. UNCHANGED <<pc, at, file, pen, made, done, checksum, published>>
  BY DEF workerVars, fileVars, makingVars
<1>2. FilesTypeOK' /\ \A w \in Workers : PenInPlace(w)'
  BY <1>1 DEF FilesInv, FilesTypeOK, PenInPlace, AtWork
<1>3. CASE deleted'
  BY <1>2, <1>3 DEF FilesInv
<1>4. CASE UNCHANGED <<stage, retention>>
  <2>1. \A s \in Scopes : SameFiles(s)
    BY <1>1 DEF SameFiles
  <2>2. \A w \in Workers : SameHand(w)
    BY <1>1 DEF SameHand
  <2>3. ~deleted => \A w \in Workers, s \in Scopes : at'[w] = Pub(s) => Handled(w, s)'
    BY <1>1, <2>1, <2>2, HandledStays DEF FilesInv
  <2>4. ~deleted => \A s \in Scopes : Recorded(s)'
    BY <1>1, <1>4, <2>1, RecordedStays DEF FilesInv, Done
  <2> QED BY <1>2, <1>4, <2>3, <2>4 DEF FilesInv, deleted
<1> QED BY <1>3, <1>4

LEMMA FilesInvStep ==
  ASSUME TypeOK, OrderInv, StartedOnce, FilesInv, [FilesNext]_filesVars
  PROVE  FilesInv'
<1>1. ASSUME NEW w \in Workers,
             \/ ReadInputs(w) \/ CannotRead(w) \/ OpenFile(w) \/ CloseFile(w)
             \/ TakeChecksum(w) \/ Publish(w) \/ HeadOfSegment(w) \/ WithoutFiles(w)
      PROVE  FilesInv'
  BY <1>1, QuietFiles, ReadingKeeps, OpeningKeeps, ClosingKeeps, ChecksumKeeps, PublishingKeeps
<1>2. CASE /\ \/ OrphanedLeaseExpires \/ LeaseExpiresUnderHolder
              \/ ClientCancels \/ ClientDeletes
           /\ UNCHANGED fileVars
  <2>1. UNCHANGED workerVars /\ (deleted' \/ UNCHANGED <<stage, retention>>)
    BY <1>2 DEF OrphanedLeaseExpires, LeaseExpiresUnderHolder, LeaseExpires, ClientCancels,
       RequestCancellation, ClientDeletes, DeleteProject, deleted, resultRows, projRow
  <2> QED BY <1>2, <2>1, OutsideKeepsFiles
<1>3. CASE UNCHANGED filesVars
  BY <1>3, OutsideKeepsFiles DEF filesVars, vars, storeVars, resultRows, projRow
<1> QED BY <1>1, <1>2, <1>3 DEF FilesNext

\* The invariant of the hands and the rows: while the project is kept, every
\* file that a worker has finished for a publication, and every published one,
\* is complete and is what it was made of - although a superseded worker goes
\* on writing under the same names (mixed_<segment>.mp3, final_<project>.mp3).
THEOREM FilesAreKept == FilesSpec => []FilesInv
<1>1. TypeOK /\ OrderInv /\ StartedOnce /\ FilesInv /\ [FilesNext]_filesVars => FilesInv'
  BY FilesInvStep
<1>2. FilesSpec => [](TypeOK /\ OrderInv /\ StartedOnce)
  BY FilesImplementPipeline, TypeCorrect, OrderInvariant, PublicationsAreStartedOnce, PTL
  DEF ImplementsPipeline
<1> QED BY <1>1, <1>2, FilesInvInit, PTL DEF FilesSpec

\* A publication is intact.
LEMMA FilesInvImplies ==
  ASSUME TypeOK, OrderInv, FilesInv
  PROVE  PublishedFilesAreIntact
<1>1. ASSUME NEW s \in Scopes, artifacts[s] > 0, ~deleted
      PROVE  Served(s) /\ published[s] # "torn"
  <2>1. KeptRows
    BY <1>1 DEF OrderInv, RowsInv
  <2>2. Done(Pub(s))
    <3>1. CASE s = Project
      BY <1>1, <2>1, <3>1, PubTypes DEF KeptRows, FinalRows
    <3>2. CASE s \in Segments
      BY <1>1, <2>1, <3>2, PubTypes DEF KeptRows, SegmentRows
    <3> QED BY <3>1, <3>2 DEF Scopes
  <2>3. file[Encoded(s)] \in Whole /\ published[s] = file[Encoded(s)]
    BY <1>1, <2>2 DEF FilesInv, Recorded, Compressed
  <2> QED BY <1>1, <2>3 DEF Served, Whole
<1> QED BY <1>1 DEF FilesInv, PublishedFilesAreIntact

\* The checks of download_artifact never refuse what is published: its file is
\* there, complete, and has the checksum of its row for as long as the project
\* is kept.
THEOREM PublishedIsIntact == FilesSpec => []PublishedFilesAreIntact
<1>1. FilesSpec => [](TypeOK /\ OrderInv)
  BY FilesImplementPipeline, TypeCorrect, OrderInvariant, PTL DEF ImplementsPipeline
<1> QED BY <1>1, FilesAreKept, FilesInvImplies, PTL

-----------------------------------------------------------------------------
(***************************************************************************)
(* Without crashes and stalls.                                             *)
(***************************************************************************)

\* Whoever runs has the current lease.
Undisturbed ==
  \A w \in Workers : Running(w) => token[w] = epoch /\ ~expired /\ pipeState # "pending"

\* The generation goes on.
GoesOn ==
  /\ pipeState \in {"pending", "leased"}
  /\ \A w \in Workers : pc[w] \notin {"failing", "fail"}

Untouched ==
  /\ \A f \in Files : /\ file[f] # "flawed"
                      /\ file[f] = "torn" => \E w \in Workers : Writing(w, f)
  /\ \A w \in Workers : made[w] = "sound"

AllSound == \A s \in Scopes : Done(Pub(s)) => published[s] = "sound"

Faultless == Undisturbed /\ (GoesOn => Untouched) /\ AllSound

NoFaults == crashes = 0 /\ stalls = 0 => Faultless

LEMMA SoleWorker ==
  ASSUME OrderInv, Undisturbed, NEW v \in Workers, NEW w \in Workers, Running(v), Running(w)
  PROVE  v = w
  BY DEF OrderInv, OneHolder, Undisturbed

\* No worker gives the work back, nor touches its expiry.
LEMMA LeaseRowStays ==
  ASSUME TypeOK, NEW w \in Workers, WorkerStep(w) \/ StepRaises(w)
  PROVE  /\ UNCHANGED <<epoch, leaseAge>>
         /\ pipeState' \in {pipeState, "succeeded", "failed", "cancelled"}
<1>1. CASE UNCHANGED storeVars
  BY <1>1 DEF storeVars, workRow
<1>2. ASSUME NEW t, NEW o, NEW k, WorkerTransaction(t, o, k)
      PROVE  /\ UNCHANGED <<epoch, leaseAge>>
             /\ pipeState' \in {pipeState, "succeeded", "failed", "cancelled"}
  <2>1. CASE ReserveAttempt(t, o) \/ DispatchAttempt(t, o) \/ CompleteAttempt(t, o)
    BY <2>1 DEF ReserveAttempt, DispatchAttempt, CompleteAttempt, WriteAttempt, workRow
  <2>2. CASE FailAttemptUnknown(t, o) \/ SettleCancellation(t)
    BY <2>2 DEF FailAttemptUnknown, SettleCancellation, ObserveCancellation
  <2>3. CASE RecordStageTransition(t, k, "running") \/ SettleReady(t) \/ SettleFailure(t)
    BY <2>3 DEF RecordStageTransition, SettleReady, SettleFailure, workRow
  <2>4. CASE PublishStage(t, k)
    BY <2>4 DEF PublishStage, PublishFinal, PublishAudio, PublishVerifiedText,
       RecordStageTransition, workRow
  <2> QED BY <1>2, <2>1, <2>2, <2>3, <2>4 DEF WorkerTransaction
<1> QED BY <1>1, <1>2, WorkerSteps

\* The worker that runs keeps its lease, or ends.
LEMMA UndisturbedStays ==
  ASSUME TypeOK, Undisturbed, NEW w \in Workers, WorkerStep(w) \/ StepRaises(w)
  PROVE  Undisturbed'
<1>1. /\ UNCHANGED <<epoch, leaseAge>>
      /\ pipeState' \in {pipeState, "succeeded", "failed", "cancelled"}
  BY LeaseRowStays
<1>2. OthersStay(w)
  BY OthersStand
<1>3. Running(w) /\ (pc'[w] = "idle" \/ token'[w] = token[w])
  <2>1. Running(w) /\ \/ \E p : Goto(w, p)
                      \/ \E k \in Stages : MoveTo(w, k)
                      \/ Stop(w)
    BY Moves
  <2> QED BY <2>1 DEF Goto, MoveTo, Stop, TypeOK, WorkerTypeOK
<1> QED BY <1>1, <1>2, <1>3 DEF Undisturbed, Running, expired, OthersStay

\* A generation that goes on after a step has gone on before it.
LEMMA WentOn ==
  ASSUME TypeOK, OrderInv, Undisturbed, NEW w \in Workers, WorkerStep(w) \/ StepRaises(w),
         GoesOn'
  PROVE  GoesOn
<1>1. pipeState \in {"pending", "leased"} /\ pipeState' = pipeState
  BY LeaseRowStays DEF GoesOn
<1>2. OthersStay(w) /\ Running(w)
  BY OthersStand, Moves
<1>3. ASSUME pc[w] \in {"failing", "fail"} PROVE FALSE
  <2>0. token[w] = epoch /\ pipeState = "leased" /\ ~deleted
    BY <1>1, <1>2 DEF Undisturbed, OrderInv, EndRows
  <2>1. Failing(w) \/ Fail(w)
    BY <1>3 DEF WorkerStep, StepRaises, Hydrate, Renew, CheckStage, StartStage, Reserve, Dispatch,
       CallProvider, CallReturned, AbandonAttempt, Complete, LocalAudio, FinishStage, Ready,
       Cancel, In
  <2>2. CASE Failing(w)
    <3>1. Goto(w, "fail")
      BY <2>0, <2>2 DEF Failing, LeaseHeld
    <3> QED BY <3>1 DEF Goto, TypeOK, WorkerTypeOK, GoesOn
  <2>3. CASE Fail(w)
    BY <1>1, <2>0, <2>3 DEF Fail, SettleFailure
  <2> QED BY <2>1, <2>2, <2>3
<1> QED BY <1>1, <1>2, <1>3 DEF GoesOn, OthersStay

\* Nothing is left torn or flawed by a worker that leaves with its pen up.
LEMMA UntouchedStays ==
  ASSUME FilesTypeOK, Untouched, NEW w \in Workers, Forget(w), OthersStay(w), UNCHANGED file,
         pen[w] = "up"
  PROVE  Untouched'
<1>1. /\ \A v \in Workers \ {w} : pen'[v] = pen[v] /\ done'[v] = done[v] /\ at'[v] = at[v]
      /\ \A v \in Workers : made'[v] = "sound"
  BY ForgetDoes DEF Untouched, OthersStay
<1>2. ASSUME NEW f \in Files, file[f] = "torn"
      PROVE  \E v \in Workers : Writing(v, f)'
  <2> PICK v \in Workers : Writing(v, f)
    BY <1>2 DEF Untouched
  <2>1. v # w
    BY DEF Writing
  <2>2. Writing(v, f)'
    BY <1>1, <2>1 DEF Writing, Job
  <2> QED BY <2>2
<1> QED BY <1>1, <1>2 DEF Untouched

\* A worker leaves an open file behind only to fail the generation.
LEMMA LeavingIsHarmless ==
  ASSUME TypeOK, OrderInv, FilesInv, Faultless, NEW w \in Workers, Forget(w),
         UNCHANGED <<file, published>>,
         \/ Hydrate(w) \/ Renew(w) \/ CheckStage(w) \/ StartStage(w) \/ Reserve(w)
         \/ Dispatch(w) \/ CallProvider(w) \/ CallReturned(w) \/ AbandonAttempt(w)
         \/ Complete(w) \/ Ready(w) \/ Cancel(w) \/ Failing(w) \/ Fail(w)
         \/ StepRaises(w),
         Renew(w) => pen[w] = "up"
  PROVE  Faultless'
<1>1. (WorkerStep(w) \/ StepRaises(w)) /\ OthersStay(w) /\ FilesTypeOK
  BY OthersStand DEF WorkerStep, FilesInv
<1>2. Undisturbed'
  BY <1>1, UndisturbedStays DEF Faultless
<1>3. AllSound'
  BY NothingPublished DEF Faultless, AllSound
<1>4. ASSUME GoesOn' PROVE Untouched'
  <2>1. Untouched
    BY <1>1, <1>4, WentOn DEF Faultless
  <2>2. pen[w] = "up"
    <3>1. CASE StepRaises(w)
      <4>1. pc'[w] # "failing"
        BY <1>4 DEF GoesOn
      <4>2. pc[w] = "returned"
        BY <3>1, <4>1 DEF StepRaises, Goto, TypeOK, WorkerTypeOK
      <4> QED BY <1>1, <4>2 DEF FilesTypeOK
    <3>2. CASE Renew(w)
      BY <3>2
    <3>3. CASE ~StepRaises(w) /\ ~Renew(w)
      <4>1. pc[w] \notin {"audio", "renew"}
        BY <3>3 DEF Hydrate, CheckStage, StartStage, Reserve, Dispatch, CallProvider,
           CallReturned, AbandonAttempt, Complete, Ready, Cancel, Failing, Fail, In
      <4> QED BY <1>1, <4>1 DEF FilesTypeOK
    <3> QED BY <3>1, <3>2, <3>3
  <2> QED BY <1>1, <2>1, <2>2, UntouchedStays
<1> QED BY <1>2, <1>3, <1>4 DEF Faultless

\* A claim finds nobody running.
LEMMA ClaimIsHarmless ==
  ASSUME TypeOK, OrderInv, FilesInv, Faultless, NEW w \in Workers, Claim(w), Forget(w),
         UNCHANGED <<file, published>>
  PROVE  Faultless'
<1>1. /\ Claimable /\ pipeState' = "leased" /\ epoch' = epoch + 1 /\ leaseAge' = "current"
      /\ UNCHANGED <<stage, at>> /\ pc[w] = "idle" /\ FilesTypeOK
      /\ pc' = [pc EXCEPT ![w] = "hydrate"] /\ token' = [token EXCEPT ![w] = epoch + 1]
  BY DEF Claim, ClaimWork, resultRows, FilesInv
<1>2. \A v \in Workers : ~Running(v)
  BY <1>1 DEF Faultless, Undisturbed, Claimable
<1>3. /\ pc'[w] = "hydrate" /\ token'[w] = epoch + 1
      /\ \A v \in Workers \ {w} : pc'[v] = pc[v] /\ token'[v] = token[v]
  BY <1>1 DEF TypeOK, WorkerTypeOK
<1>4. OthersStay(w) /\ pen[w] = "up"
  BY <1>1, <1>3 DEF OthersStay, FilesTypeOK
<1>5. Undisturbed'
  BY <1>1, <1>2, <1>3 DEF Undisturbed, Running, expired
<1>6. GoesOn
  BY <1>1, <1>2 DEF GoesOn, Claimable, Running
<1>7. Untouched'
  BY <1>1, <1>4, <1>6, UntouchedStays DEF Faultless
<1>8. AllSound'
  BY NothingPublished DEF Faultless, AllSound
<1> QED BY <1>5, <1>7, <1>8 DEF Faultless

LEMMA InputFiles == \A f : Inputs(f) \subseteq Files
<1> TAKE f
<1>1. CASE f \in {Mix(s) : s \in Segments}
  <2>0. /\ f[1] \in Segments /\ f # Mix(Project)
        /\ f \notin {Encoded(s) : s \in Scopes}
    BY <1>1, FileNames, PubTypes DEF Mix
  <2>1. f[1] \in Segments /\ Inputs(f) = {Speech(f[1]), Beat}
    BY <1>1, <2>0 DEF Inputs
  <2> QED BY <2>1, FileNames, PubTypes
<1>2. CASE f = Mix(Project)
  BY <1>2, InputLists, FileNames, PubTypes
<1>3. CASE f \in {Encoded(s) : s \in Scopes}
  BY <1>3, InputLists, FileNames
<1>4. CASE /\ f \notin {Mix(s) : s \in Segments} /\ f # Mix(Project)
           /\ f \notin {Encoded(s) : s \in Scopes}
  BY <1>4 DEF Inputs
<1> QED BY <1>1, <1>2, <1>3, <1>4

\* Who holds a pen runs, so it is the only one.
LEMMA SolePen ==
  ASSUME OrderInv, FilesTypeOK, Undisturbed, NEW v \in Workers, NEW w \in Workers,
         Running(w), pen[v] # "up"
  PROVE  v = w
<1>1. Running(v)
  BY DEF FilesTypeOK, Running
<1> QED BY <1>1, SoleWorker

\* The only writer reads nothing torn, and opens one file at a time.
LEMMA FileWorkIsHarmless ==
  ASSUME TypeOK, OrderInv, FilesInv, Faultless, NEW w \in Workers,
         ReadInputs(w) \/ OpenFile(w)
  PROVE  Faultless'
<1>1. /\ UNCHANGED <<pipeState, epoch, leaseAge, pc, at, token, stage, done, published>>
      /\ AtWork(w) /\ FilesTypeOK /\ PenInPlace(w)
  BY DEF ReadInputs, OpenFile, FilesInv, vars, storeVars, workRow, workerVars, resultRows
<1>2. Undisturbed' /\ AllSound' /\ (GoesOn' => GoesOn)
  BY <1>1 DEF Faultless, Undisturbed, AllSound, GoesOn, Running, expired, Done
<1>3. \A v \in Workers : pen[v] # "up" => v = w
  BY <1>1, SolePen DEF Faultless, AtWork, Running
<1>4. ASSUME Untouched, ReadInputs(w) PROVE Untouched'
  <2>1. /\ pen[w] = "up" /\ UNCHANGED file
        /\ made' = [made EXCEPT ![w] = IF \A f \in Inputs(Job(w)) : file[f] = "sound"
                                       THEN "sound" ELSE "flawed"]
        /\ \A f \in Inputs(Job(w)) : file[f] # "absent"
    BY <1>4 DEF ReadInputs
  <2>2. \A f \in Files : file[f] # "torn"
    BY <1>3, <1>4, <2>1 DEF Untouched, Writing
  <2>3. \A f \in Inputs(Job(w)) : file[f] = "sound"
    <3> TAKE f \in Inputs(Job(w))
    <3>1. f \in Files
      BY InputFiles
    <3>2. file[f] \in Contents /\ file[f] \notin {"absent", "torn", "flawed"}
      BY <1>1, <1>4, <2>1, <2>2, <3>1 DEF FilesTypeOK, Untouched
    <3> QED BY <3>2 DEF Contents
  <2>4. made' = [made EXCEPT ![w] = "sound"]
    BY <2>1, <2>3
  <2> QED BY <1>1, <1>4, <2>1, <2>2, <2>4 DEF Untouched, FilesTypeOK
<1>5. ASSUME Untouched, OpenFile(w) PROVE Untouched'
  <2>1. /\ pen[w] = "ready" /\ UNCHANGED made /\ pen' = [pen EXCEPT ![w] = "down"]
        /\ file' = [file EXCEPT ![Job(w)] = "torn"]
    BY <1>5 DEF OpenFile
  <2>2. \A f \in Files : file[f] # "torn"
    BY <1>3, <1>5, <2>1 DEF Untouched, Writing
  <2>3. Writing(w, Job(w))'
    BY <1>1, <2>1 DEF Writing, Job, FilesTypeOK
  <2>4. Job(w)' = Job(w)
    BY <1>1 DEF Job
  <2>5. \A f \in Files : /\ file'[f] # "flawed"
                         /\ file'[f] = "torn" => f = Job(w)
    BY <1>1, <1>5, <2>1, <2>2 DEF Untouched, FilesTypeOK
  <2> QED BY <1>5, <2>1, <2>3, <2>4, <2>5 DEF Untouched
<1> QED BY <1>2, <1>4, <1>5 DEF Faultless

\* Nobody else writes what it writes to the end.
LEMMA ClosingIsHarmless ==
  ASSUME TypeOK, OrderInv, StartedOnce, FilesInv, Faultless, NEW w \in Workers, CloseFile(w)
  PROVE  Faultless'
<1>1. /\ AtWork(w) /\ pen[w] = "down" /\ Job(w) \in Files
      /\ file' \in [Files -> Contents] /\ \A f \in Files \ {Job(w)} : file'[f] = file[f]
      /\ UNCHANGED <<stage, published>>
  BY WritingDoes
<1>2. FilesTypeOK /\ \A v \in Workers : pen[v] # "up" => v = w
  BY <1>1, SolePen DEF Faultless, AtWork, Running, FilesInv
<1>3. UNCHANGED vars \/ WorkerStep(w)
  BY ClosingIsARenewal DEF WorkerStep
<1>4. Undisturbed' /\ AllSound' /\ (GoesOn' => GoesOn)
  <2>1. AllSound'
    BY <1>1 DEF Faultless, AllSound, Done
  <2>2. CASE UNCHANGED vars
    <3>1. UNCHANGED <<pipeState, epoch, leaseAge, pc, token>>
      BY <2>2 DEF vars, storeVars, workRow, workerVars
    <3> QED BY <2>1, <3>1 DEF Faultless, Undisturbed, GoesOn, Running, expired
  <2>3. CASE WorkerStep(w)
    BY <2>1, <2>3, UndisturbedStays, WentOn DEF Faultless
  <2> QED BY <1>3, <2>2, <2>3
<1>5. ASSUME Untouched PROVE Untouched'
  <2>1. {v \in Workers \ {w} : Writing(v, Job(w))} = {}
    BY <1>2 DEF Writing
  <2>2. file' = [file EXCEPT ![Job(w)] = made[w]]
    BY <2>1 DEF CloseFile, WriteToTheEnd
  <2>3. \E spoiled \in SUBSET {v \in Workers \ {w} : Writing(v, Job(w))} :
          made' = [v \in Workers |-> IF v \in spoiled THEN "flawed"
                                     ELSE IF v = w THEN "sound" ELSE made[v]]
    BY DEF CloseFile, WriteToTheEnd
  <2>4. \A v \in Workers : made'[v] = "sound"
    BY <1>5, <2>1, <2>3 DEF Untouched
  <2>5. \A f \in Files : file[f] = "torn" => f = Job(w)
    BY <1>2, <1>5 DEF Untouched, Writing
  <2>6. \A f \in Files : file'[f] \notin {"flawed", "torn"}
    BY <1>1, <1>2, <1>5, <2>2, <2>5 DEF Untouched, FilesTypeOK
  <2> QED BY <2>4, <2>6 DEF Untouched
<1> QED BY <1>4, <1>5 DEF Faultless

LEMMA ChecksumIsHarmless ==
  ASSUME TypeOK, OrderInv, FilesInv, Faultless, NEW w \in Workers, TakeChecksum(w)
  PROVE  Faultless'
<1>1. CASE Raise(w) /\ Forget(w) /\ UNCHANGED <<calls, faultVars, file, published>>
  <2>1. pc[w] = "finish"
    BY DEF TakeChecksum, Publishes
  <2>2. StepRaises(w) /\ ~Renew(w)
    BY <1>1, <2>1, FilesMayRaise DEF Raise, StepRaises, Renew, In
  <2> QED BY <1>1, <2>2, LeavingIsHarmless
<1>2. CASE UNCHANGED <<vars, file, pen, made, done, published>>
  <2>1. UNCHANGED <<pipeState, epoch, leaseAge, pc, at, token, stage, file, pen, made, done,
                    published>>
    BY <1>2 DEF vars, storeVars, workRow, workerVars, resultRows
  <2>2. Untouched => Untouched'
    BY <2>1 DEF Untouched, Writing, Job
  <2> QED BY <2>1, <2>2 DEF Faultless, Undisturbed, AllSound, GoesOn, Running, expired, Done
<1> QED BY <1>1, <1>2 DEF TakeChecksum

\* What is published is complete and, with no file flawed, sound.
LEMMA PublishingIsHarmless ==
  ASSUME TypeOK, OrderInv, FilesInv, Faultless, NEW w \in Workers, Publish(w)
  PROVE  Faultless'
<1>1. /\ FinishStage(w) /\ Forget(w) /\ UNCHANGED file /\ FilesTypeOK /\ pc[w] = "finish"
      /\ Publishes(w) => checksum[w] # "none"
      /\ published' = IF artifacts' = artifacts THEN published
                      ELSE [published EXCEPT ![at[w][1]] = checksum[w]]
  BY DEF Publish, FilesInv, FinishStage, In
<1>2. WorkerStep(w) /\ OthersStay(w) /\ pen[w] = "up"
  BY <1>1, OthersStand DEF WorkerStep, FilesTypeOK
<1>3. Undisturbed'
  BY <1>2, UndisturbedStays DEF Faultless
<1>4. ASSUME GoesOn' PROVE Untouched'
  BY <1>1, <1>2, <1>4, WentOn, UntouchedStays DEF Faultless
<1>5. AllSound'
  <2>1. CASE UNCHANGED storeVars
    BY <1>1, <2>1 DEF storeVars, resultRows, Faultless, AllSound, Done
  <2>2. CASE /\ stage' = [stage EXCEPT ![at[w]] = "completed"]
             /\ (\A s \in Scopes : at[w] # Pub(s)) /\ UNCHANGED artifacts
    <3>1. \A s \in Scopes : Done(Pub(s))' => Done(Pub(s))
      BY <2>2, PubTypes DEF Done, TypeOK, StoreTypeOK
    <3> QED BY <1>1, <2>2, <3>1 DEF Faultless, AllSound
  <2>3. ASSUME NEW s \in Scopes, at[w] = Pub(s), Fence(token[w]),
               stage' = [stage EXCEPT ![at[w]] = "completed"],
               artifacts' = [artifacts EXCEPT ![s] = @ + 1]
        PROVE  AllSound'
    <3>1. GoesOn
      <4>1. pipeState = "leased"
        BY <2>3 DEF Fence, CanRenew, LeaseHeld
      <4>2. \A v \in Workers : Running(v) => v = w
        BY <1>1, SoleWorker DEF Faultless, Running
      <4> QED BY <1>1, <4>1, <4>2 DEF GoesOn, Running
    <3>2. checksum[w] = file[Encoded(s)] /\ file[Encoded(s)] \in Whole
      <4>1. Publishes(w)
        BY <1>1, <2>3 DEF Publishes, Pub, Mixing
      <4>2. ~deleted /\ Handled(w, s)
        BY <2>3 DEF Fence, FilesInv
      <4> QED BY <1>1, <4>1, <4>2 DEF Handled, Compressed
    <3>3. checksum[w] = "sound"
      BY <3>1, <3>2, FileNames DEF Faultless, Untouched, Whole
    <3>4. published' = [published EXCEPT ![s] = "sound"]
      <4>1. artifacts'[s] = artifacts[s] + 1 /\ artifacts[s] \in Nat
        BY <2>3 DEF TypeOK, StoreTypeOK
      <4>2. artifacts' # artifacts
        BY <4>1
      <4> QED BY <1>1, <2>3, <3>3, <4>2, PubTypes
    <3>5. \A r \in Scopes \ {s} : Done(Pub(r))' => Done(Pub(r))
      BY <2>3, PubTypes DEF Done, TypeOK, StoreTypeOK
    <3>6. published'[s] = "sound" /\ \A r \in Scopes \ {s} : published'[r] = published[r]
      BY <1>1, <3>4 DEF FilesTypeOK
    <3> QED BY <3>5, <3>6 DEF Faultless, AllSound
  <2> QED BY <1>1, <2>1, <2>2, <2>3, FinishingDoes
<1> QED BY <1>3, <1>4, <1>5 DEF Faultless

LEMMA OutsideIsHarmless ==
  ASSUME TypeOK, OrderInv, Faultless, UNCHANGED <<workerVars, fileVars>>,
         \/ OrphanedLeaseExpires \/ ClientCancels \/ ClientDeletes \/ UNCHANGED storeVars
  PROVE  Faultless'
<1>1. UNCHANGED <<pc, at, token, file, pen, made, done, published>>
  BY DEF workerVars, fileVars, makingVars
<1>2. Untouched => Untouched'
  BY <1>1 DEF Untouched, Writing, Job
<1>3. CASE OrphanedLeaseExpires
  <2>1. ~HolderRuns /\ UNCHANGED <<pipeState, epoch, stage>>
    BY <1>3 DEF OrphanedLeaseExpires, LeaseExpires, resultRows
  <2>2. \A w \in Workers : ~Running(w)
    BY <2>1 DEF Faultless, Undisturbed, HolderRuns
  <2> QED BY <1>1, <1>2, <2>1, <2>2 DEF Faultless, Undisturbed, AllSound, GoesOn, Running, Done
<1>4. CASE ClientCancels \/ UNCHANGED storeVars
  <2>1. UNCHANGED <<pipeState, epoch, leaseAge, stage>>
    BY <1>4 DEF ClientCancels, RequestCancellation, storeVars, workRow, resultRows
  <2> QED BY <1>1, <1>2, <2>1 DEF Faultless, Undisturbed, AllSound, GoesOn, Running, expired, Done
<1>5. CASE ClientDeletes
  <2>1. /\ pipeState' = "absent" /\ UNCHANGED <<epoch, leaseAge>>
        /\ stage' = [k \in Stages |-> "absent"]
    BY <1>5 DEF ClientDeletes, DeleteProject
  <2>2. \A s \in Scopes : ~Done(Pub(s))'
    BY <2>1, PubTypes DEF Done
  <2> QED BY <1>1, <2>1, <2>2 DEF Faultless, Undisturbed, AllSound, GoesOn, Running, expired
<1> QED BY <1>3, <1>4, <1>5

\* The faults are counted.
LEMMA FaultsAreCounted ==
  ASSUME TypeOK, [FilesNext]_filesVars, crashes' = 0, stalls' = 0
  PROVE  /\ crashes = 0 /\ stalls = 0
         /\ \A w \in Workers : ~Crash(w)
         /\ ~LeaseExpiresUnderHolder
<1>1. crashes \in Nat /\ stalls \in Nat
  BY DEF TypeOK
<1>2. \A w \in Workers : ~Crash(w)
  BY <1>1 DEF Crash
<1>3. ~LeaseExpiresUnderHolder
  BY <1>1 DEF LeaseExpiresUnderHolder
<1>4. CASE UNCHANGED filesVars
  BY <1>2, <1>3, <1>4 DEF filesVars, vars, faultVars
<1>5. CASE FilesNext
  <2>1. UNCHANGED vars \/ Next
    BY <1>5, FilesStep
  <2>2. ASSUME Next PROVE UNCHANGED faultVars
    <3>1. ASSUME NEW w \in Workers, WorkerStep(w) \/ StepRaises(w) \/ Claim(w)
          PROVE  UNCHANGED faultVars
      BY <3>1 DEF WorkerStep, Hydrate, Renew, CheckStage, StartStage, Reserve, Dispatch,
         CallProvider, CallReturned, AbandonAttempt, Complete, LocalAudio, FinishStage,
         Ready, Cancel, Failing, Fail, StepRaises, Claim, In
    <3>2. CASE OrphanedLeaseExpires \/ ClientCancels \/ ClientDeletes
      BY <3>2 DEF OrphanedLeaseExpires, ClientCancels, ClientDeletes
    <3> QED BY <1>2, <1>3, <2>2, <3>1, <3>2 DEF Next
  <2> QED BY <1>2, <1>3, <2>1, <2>2 DEF vars, faultVars
<1> QED BY <1>4, <1>5

LEMMA NoFaultsStep ==
  ASSUME TypeOK, OrderInv, StartedOnce, FilesInv, NoFaults, [FilesNext]_filesVars
  PROVE  NoFaults'
<1> SUFFICES ASSUME crashes' = 0, stalls' = 0
             PROVE  Faultless'
  BY DEF NoFaults
<1>0. /\ Faultless /\ ~LeaseExpiresUnderHolder
      /\ \A w \in Workers : ~Crash(w)
  BY FaultsAreCounted DEF NoFaults
<1>1. ASSUME NEW w \in Workers,
             WithoutFiles(w) \/ HeadOfSegment(w) \/ CannotRead(w)
      PROVE  Faultless'
  <2>1. Forget(w) /\ UNCHANGED <<file, published>>
    BY <1>1 DEF WithoutFiles, HeadOfSegment, CannotRead
  <2>2. CASE HeadOfSegment(w)
    <3>1. pen[w] = "up"
      BY <2>2 DEF HeadOfSegment, FilesInv, PenInPlace
    <3> QED BY <1>0, <2>1, <2>2, <3>1, LeavingIsHarmless DEF HeadOfSegment
  <2>3. CASE CannotRead(w)
    <3>1. pen[w] = "up"
      BY <2>3 DEF CannotRead
    <3> QED BY <1>0, <2>1, <2>3, <3>1, UnreadableRaises, LeavingIsHarmless
  <2>4. CASE WithoutFiles(w) /\ Claim(w)
    BY <1>0, <2>1, <2>4, ClaimIsHarmless
  <2>5. CASE WithoutFiles(w) /\ ~Claim(w)
    <3>1. \/ Hydrate(w) \/ CheckStage(w) \/ StartStage(w) \/ Reserve(w)
          \/ Dispatch(w) \/ CallProvider(w) \/ CallReturned(w) \/ AbandonAttempt(w)
          \/ Complete(w) \/ Ready(w) \/ Cancel(w) \/ Failing(w) \/ Fail(w)
          \/ StepRaises(w)
      BY <1>0, <2>5 DEF WithoutFiles
    <3>2. Renew(w) => pen[w] = "up"
      <4>1. CASE StepRaises(w)
        BY <4>1 DEF StepRaises, Renew, In, Goto, RaiseFenceLost, TypeOK, WorkerTypeOK
      <4>2. CASE ~StepRaises(w)
        BY <3>1, <4>2 DEF Hydrate, CheckStage, StartStage, Reserve, Dispatch, CallProvider,
           CallReturned, AbandonAttempt, Complete, Ready, Cancel, Failing, Fail, Renew, In
      <4> QED BY <4>1, <4>2
    <3> QED BY <1>0, <2>1, <3>1, <3>2, LeavingIsHarmless
  <2> QED BY <1>1, <2>2, <2>3, <2>4, <2>5
<1>2. ASSUME NEW w \in Workers,
             ReadInputs(w) \/ OpenFile(w) \/ CloseFile(w) \/ TakeChecksum(w) \/ Publish(w)
      PROVE  Faultless'
  BY <1>0, <1>2, FileWorkIsHarmless, ClosingIsHarmless, ChecksumIsHarmless, PublishingIsHarmless
<1>3. CASE /\ \/ OrphanedLeaseExpires \/ LeaseExpiresUnderHolder
              \/ ClientCancels \/ ClientDeletes
           /\ UNCHANGED fileVars
  BY <1>0, <1>3, OutsideIsHarmless DEF OrphanedLeaseExpires, ClientCancels, ClientDeletes
<1>4. CASE UNCHANGED filesVars
  BY <1>0, <1>4, OutsideIsHarmless DEF filesVars, vars
<1> QED BY <1>1, <1>2, <1>3, <1>4 DEF FilesNext

LEMMA NoFaultsInit == FilesInit => NoFaults
<1> SUFFICES ASSUME FilesInit PROVE Faultless
  BY DEF NoFaults
<1>1. /\ \A w \in Workers : pc[w] = "idle" /\ made[w] = "sound"
      /\ \A f \in Files : file[f] = "absent"
      /\ \A k \in Stages : stage[k] = "pending"
  BY DEF FilesInit, Init, StoreInit
<1> QED BY <1>1, PubTypes DEF Faultless, Undisturbed, Untouched, AllSound, Running, Done

\* What is published is sound where every publication is.
LEMMA FlawsHaveACause ==
  ASSUME TypeOK, OrderInv, FilesInv, NoFaults
  PROVE  FlawsComeFromFaults
<1>1. ASSUME NEW s \in Scopes, artifacts[s] > 0 PROVE ~deleted /\ Done(Pub(s))
  <2>1. ~deleted
    BY <1>1 DEF OrderInv, RowsInv, DeletedRows
  <2>2. CASE s = Project
    BY <1>1, <2>1, <2>2, PubTypes DEF OrderInv, RowsInv, KeptRows, FinalRows
  <2>3. CASE s \in Segments
    BY <1>1, <2>1, <2>3, PubTypes DEF OrderInv, RowsInv, KeptRows, SegmentRows
  <2> QED BY <2>1, <2>2, <2>3 DEF Scopes
<1>2. crashes = 0 /\ stalls = 0 =>
        \A s \in Scopes : artifacts[s] > 0 => published[s] = "sound"
  BY <1>1 DEF NoFaults, Faultless, AllSound
<1>3. ASSUME artifacts[Project] > 0
      PROVE  published[Project] = "sound" <=> \A s \in Segments : published[s] = "sound"
  <2>1. ~deleted /\ Done(Finalizing) /\ \A s \in Segments : Done(Mixing(s))
    BY <1>1, <1>3, PubTypes DEF OrderInv, RowsInv, KeptRows, FinalRows
  <2>2. \A s \in Scopes : Done(Pub(s))
    BY <2>1, PubTypes DEF Scopes
  <2>3. \A s \in Scopes : /\ Mixed(s)
                          /\ published[s] = "sound" <=> file[Mix(s)] = "sound"
    BY <2>1, <2>2 DEF FilesInv, Recorded, Compressed
  <2>4. file[Mix(Project)] = "sound" <=> AllMixesSound
    BY <2>3, PubTypes DEF Mixed
  <2>5. AllMixesSound <=> \A s \in Segments : published[s] = "sound"
    BY <2>3, PubTypes DEF AllMixesSound
  <2> QED BY <2>3, <2>4, <2>5, PubTypes
<1> QED BY <1>2, <1>3 DEF FlawsComeFromFaults

\* Exceptions, cancellation and deletion flaw nothing that is published, only a
\* crash or a lease that ran out under its worker does; and the episode of
\* _finalize is as sound as the segments it joins.
THEOREM FlawsAreExplained == FilesSpec => []FlawsComeFromFaults
<1>1. FilesSpec => [](TypeOK /\ OrderInv /\ StartedOnce)
  BY FilesImplementPipeline, TypeCorrect, OrderInvariant, PublicationsAreStartedOnce, PTL
  DEF ImplementsPipeline
<1>2. TypeOK /\ OrderInv /\ StartedOnce /\ FilesInv /\ NoFaults /\ [FilesNext]_filesVars => NoFaults'
  BY NoFaultsStep
<1>3. FilesSpec => []NoFaults
  BY <1>1, <1>2, FilesAreKept, NoFaultsInit, PTL DEF FilesSpec
<1> QED BY <1>1, <1>3, FilesAreKept, FlawsHaveACause, PTL
=============================================================================
