---------------------------- MODULE ArtifactFiles ----------------------------
(***************************************************************************)
(* The audio files of one project, under the workers of SegmentPipeline.   *)
(* The rows are fenced by the lease; the files are not.  Their names hold  *)
(* the project or the segment and no epoch, so a worker that stalled past  *)
(* its lease and its successor write under the same names, and a crash     *)
(* leaves what was being written under its final name.                     *)
(*                                                                         *)
(* A stage writes its files one after the other (Jobs).  A file is made in *)
(* three steps: read the inputs and compute, open the file - which         *)
(* truncates it - and write and close it; save_beat_to_wav, convert_to_wav, *)
(* build_podcast_audio and ffmpeg all work so, none through a staging file. *)
(* Before a publication the worker measures the MP3 it publishes, outside  *)
(* the transaction.                                                        *)
(*                                                                         *)
(* Contents are what the next reader can tell apart: "absent"; "torn",     *)
(* opened and not yet written to its end; "sound", made of sound inputs;   *)
(* "flawed", complete but made of something torn or flawed.  The MP3 of the *)
(* provider's speech is whole before its attempt row is completed, and is  *)
(* left out.                                                               *)
(***************************************************************************)
EXTENDS SegmentPipeline, Sequences

\* Reading a file that is not there raises.
ASSUME FilesMayRaise == MayRaise

Beat       == <<Project, "beat">>
Speech(s)  == <<s, "speech">>
Mix(s)     == <<s, "wav">>    \* mixed_<segment>.wav, or final_<project>.wav
Encoded(s) == <<s, "mp3">>    \* mixed_<segment>.mp3, or final_<project>.mp3

Files == {Beat, Mix(Project), Encoded(Project)}
           \cup (Segments \X {"speech", "wav", "mp3"})

Contents == {"absent", "torn", "sound", "flawed"}

VARIABLES
  file,       \* contents of each file
  pen,        \* "up", "ready" once the inputs are read, "down" while writing
  made,       \* what the file in the making will be
  done,       \* files of the stage this worker has finished
  checksum,   \* contents it measured for publication, "none" before
  published   \* contents recorded in each scope's artifact row

makingVars == <<pen, made, done, checksum>>
fileVars   == <<file, makingVars, published>>
filesVars  == <<vars, fileVars>>

\* Types, and that pens, files done and checksums belong to the stage at hand.
FilesTypeOK ==
  /\ file \in [Files -> Contents]
  /\ pen \in [Workers -> {"up", "ready", "down"}]
  /\ made \in [Workers -> {"sound", "flawed"}]
  /\ done \in [Workers -> 0 .. 1]
  /\ checksum \in [Workers -> Contents \cup {"none"}]
  /\ published \in [Scopes -> Contents \cup {"none"}]
  /\ \A w \in Workers :
       /\ pen[w] # "up" \/ done[w] # 0 => pc[w] \in {"audio", "renew"}
       /\ checksum[w] # "none" => pc[w] = "finish"

FilesInit ==
  /\ Init
  /\ file = [f \in Files |-> "absent"]
  /\ pen = [w \in Workers |-> "up"]
  /\ made = [w \in Workers |-> "sound"]
  /\ done = [w \in Workers |-> 0]
  /\ checksum = [w \in Workers |-> "none"]
  /\ published = [s \in Scopes |-> "none"]

-----------------------------------------------------------------------------
(***************************************************************************)
(* Making the files of a stage.                                            *)
(***************************************************************************)

\* The files a stage writes, in order.  The beat is written before the head of
\* the first segment.
Jobs(k) ==
  CASE k = <<1, "research">>                  -> <<Beat>>
    [] k[2] = "tts"                           -> <<Speech(k[1])>>
    [] k[2] = "mixing" \/ k = Finalizing      -> <<Mix(k[1]), Encoded(k[1])>>
    [] OTHER                                  -> <<>>

\* Mutant: the episode is joined from its last segment only.
InputsLast(f) ==
  CASE f \in {Mix(s) : s \in Segments}   -> {Speech(f[1]), Beat}
    [] f = Mix(Project)                  -> {Mix(NumSegments)}
    [] f \in {Encoded(s) : s \in Scopes} -> {Mix(f[1])}
    [] OTHER                             -> {}

Inputs(f) ==
  CASE f \in {Mix(s) : s \in Segments}   -> {Speech(f[1]), Beat}
    [] f = Mix(Project)                  -> {Mix(s) : s \in Segments}
    [] f \in {Encoded(s) : s \in Scopes} -> {Mix(f[1])}
    [] OTHER                             -> {}

\* The worker is where its stage's files are made, and which it makes next.
AtWork(w) == pc[w] = "audio" \/ (pc[w] = "renew" /\ at[w] = <<1, "research">>)
Job(w)    == Jobs(at[w])[done[w] + 1]

Writing(w, f) == pen[w] = "down" /\ Job(w) = f

\* A beat that exists, whole or not, is not made again.
Needed(w) == at[w] = <<1, "research">> => (file[Beat] = "absent" /\ done[w] = 0)

\* Mutant: the checksum of an earlier claim is kept.
ForgetNoChecksum(w) ==
  /\ pen' = [pen EXCEPT ![w] = "up"]
  /\ made' = [made EXCEPT ![w] = "sound"]
  /\ done' = [done EXCEPT ![w] = 0]
  /\ UNCHANGED checksum

\* The worker leaves the stage, or the thread ends: no pen and no checksum.
Forget(w) ==
  /\ pen' = [pen EXCEPT ![w] = "up"]
  /\ made' = [made EXCEPT ![w] = "sound"]
  /\ done' = [done EXCEPT ![w] = 0]
  /\ checksum' = [checksum EXCEPT ![w] = "none"]

\* Read the inputs.  The reader of a torn file may take what is there.
ReadInputs(w) ==
  /\ AtWork(w) /\ pen[w] = "up" /\ Needed(w)
  /\ \A f \in Inputs(Job(w)) : file[f] # "absent"
  /\ pen' = [pen EXCEPT ![w] = "ready"]
  /\ made' = [made EXCEPT ![w] =
                IF \A f \in Inputs(Job(w)) : file[f] = "sound"
                THEN "sound" ELSE "flawed"]
  /\ UNCHANGED <<vars, file, done, checksum, published>>

\* Or fail on it, as on an absent one.
CannotRead(w) ==
  /\ AtWork(w) /\ pen[w] = "up" /\ Needed(w)
  /\ \E f \in Inputs(Job(w)) : file[f] \in {"absent", "torn"}
  /\ Raise(w) /\ Forget(w)
  /\ UNCHANGED <<calls, faultVars, file, published>>

OpenFile(w) ==
  /\ AtWork(w) /\ pen[w] = "ready"
  /\ pen' = [pen EXCEPT ![w] = "down"]
  /\ file' = [file EXCEPT ![Job(w)] = "torn"]
  /\ UNCHANGED <<vars, made, done, checksum, published>>

\* While somebody else writes the same file it stays torn, and the other may
\* find what was written here among its own.
WriteToTheEnd(w) ==
  LET others == {v \in Workers \ {w} : Writing(v, Job(w))} IN
  /\ file' = [file EXCEPT ![Job(w)] = IF others = {} THEN made[w] ELSE "torn"]
  /\ \E spoiled \in SUBSET others :
       made' = [v \in Workers |-> IF v \in spoiled THEN "flawed"
                                  ELSE IF v = w THEN "sound" ELSE made[v]]
  /\ pen' = [pen EXCEPT ![w] = "up"]

\* The renewal of _blocking_audio_operation, with more to do in the stage.
\* final_<project>.wav is written outside of one.
RenewAndGoOn(w) ==
  /\ UNCHANGED <<storeVars, calls, faultVars>>
  /\ IF CanRenew(token[w]) \/ at[w] = Finalizing
     THEN UNCHANGED workerVars /\ done' = [done EXCEPT ![w] = 1]
     ELSE Goto(w, "cancel") /\ done' = [done EXCEPT ![w] = 0]

\* Mutant: the lease is renewed before the operation only.
CloseFileUnrenewed(w) ==
  /\ AtWork(w) /\ pen[w] = "down"
  /\ WriteToTheEnd(w)
  /\ IF Len(Jobs(at[w])) = done[w] + 1 /\ pc[w] = "audio"
     THEN /\ Goto(w, "finish") /\ UNCHANGED <<storeVars, calls, faultVars>>
          /\ done' = [done EXCEPT ![w] = 0]
     ELSE RenewAndGoOn(w)
  /\ UNCHANGED <<checksum, published>>

CloseFile(w) ==
  /\ AtWork(w) /\ pen[w] = "down"
  /\ WriteToTheEnd(w)
  /\ IF Len(Jobs(at[w])) = done[w] + 1 /\ pc[w] = "audio"
     THEN LocalAudio(w) /\ done' = [done EXCEPT ![w] = 0]
     ELSE RenewAndGoOn(w)
  /\ UNCHANGED <<checksum, published>>

-----------------------------------------------------------------------------
(***************************************************************************)
(* Publication, and the steps of the pipeline that touch no file.          *)
(***************************************************************************)

Publishes(w) == pc[w] = "finish" /\ (at[w][2] = "mixing" \/ at[w] = Finalizing)

\* _validated_published_audio_duration decodes the MP3 and _sha256_file hashes
\* it; only a torn one may be refused.
TakeChecksum(w) ==
  /\ Publishes(w) /\ checksum[w] = "none"
  /\ \/ /\ file[Encoded(at[w][1])] # "absent"
        /\ checksum' = [checksum EXCEPT ![w] = file[Encoded(at[w][1])]]
        /\ UNCHANGED <<vars, file, pen, made, done, published>>
     \/ /\ file[Encoded(at[w][1])] \in {"absent", "torn"}
        /\ Raise(w) /\ Forget(w)
        /\ UNCHANGED <<calls, faultVars, file, published>>

\* The checksum is part of the artifact row.
Publish(w) ==
  /\ Publishes(w) => checksum[w] # "none"
  /\ FinishStage(w)
  /\ published' = IF artifacts' = artifacts THEN published
                  ELSE [published EXCEPT ![at[w][1]] = checksum[w]]
  /\ Forget(w)
  /\ UNCHANGED file

HeadOfSegment(w) ==
  /\ Renew(w)
  /\ AtWork(w) => pen[w] = "up" /\ ~Needed(w)
  /\ Forget(w)
  /\ UNCHANGED <<file, published>>

\* A crash or an exception leaves the files as they are.
WithoutFiles(w) ==
  /\ \/ Hydrate(w) \/ CheckStage(w) \/ StartStage(w) \/ Reserve(w)
     \/ Dispatch(w) \/ CallProvider(w) \/ CallReturned(w) \/ AbandonAttempt(w)
     \/ Complete(w) \/ Ready(w) \/ Cancel(w) \/ Failing(w) \/ Fail(w)
     \/ StepRaises(w) \/ Claim(w) \/ Crash(w)
  /\ Forget(w)
  /\ UNCHANGED <<file, published>>

FilesNext ==
  \/ \E w \in Workers :
       \/ ReadInputs(w) \/ CannotRead(w) \/ OpenFile(w) \/ CloseFile(w)
       \/ TakeChecksum(w) \/ Publish(w) \/ HeadOfSegment(w) \/ WithoutFiles(w)
  \/ /\ \/ OrphanedLeaseExpires \/ LeaseExpiresUnderHolder
        \/ ClientCancels \/ ClientDeletes
     /\ UNCHANGED fileVars

FilesSpec == FilesInit /\ [][FilesNext]_filesVars

-----------------------------------------------------------------------------
(***************************************************************************)
(* Properties.                                                             *)
(***************************************************************************)

\* The checks of download_artifact, which serves a file only if its bytes are
\* those of the row.
Served(s) ==
  /\ artifacts[s] > 0 /\ ~deleted
  /\ file[Encoded(s)] # "absent"
  /\ file[Encoded(s)] = published[s]

\* What is published can be downloaded for as long as the project is kept:
\* nobody writes into a published file again, although the names carry no
\* epoch and writing asks for no lease.  It holds because a stage row that an
\* earlier worker left running is refused before any file is opened; and a
\* checksum is taken for the publication at hand (FilesTypeOK).
PublishedFilesAreIntact ==
  /\ FilesTypeOK
  /\ \A s \in Scopes :
       artifacts[s] > 0 /\ ~deleted => Served(s) /\ published[s] # "torn"

\* Only a crash or a stall flaws what is published - exceptions, cancellation
\* and deletion do not - and an episode is as sound as its segments are.
FlawsComeFromFaults ==
  /\ crashes = 0 /\ stalls = 0 =>
       \A s \in Scopes : artifacts[s] > 0 => published[s] = "sound"
  /\ artifacts[Project] > 0 =>
       (published[Project] = "sound" <=>
          \A s \in Segments : published[s] = "sound")

\* Working on files between two transactions is a stutter of the pipeline, so
\* what holds of SegmentPipeline holds here.
ImplementsPipeline == Spec
=============================================================================
