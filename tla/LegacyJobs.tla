------------------------------ MODULE LegacyJobs ------------------------------
(***************************************************************************)
(* The in-memory jobs of POST /api/services/generate (routers/jobs.py):    *)
(* one thread per job, a semaphore that bounds them, a table of records    *)
(* that requests read and that every request first sweeps of old entries   *)
(* (_evict_stale_jobs, main.py).  Nothing here survives the process.       *)
(*                                                                         *)
(* A step of a thread is one call that takes time (a model, a provider,    *)
(* ffmpeg, numpy); the assignments between two calls belong to it.  A      *)
(* request handler has no await before its answer and is one step.  Job    *)
(* ids are fresh, so a job is named by its request.                        *)
(***************************************************************************)
EXTENDS Integers, FiniteSets

CONSTANTS
  Jobs,          \* requests to generate
  Slots          \* settings.max_concurrent_generations

ASSUME JobsAssumption == Slots \in Nat \ {0} /\ IsFiniteSet(Jobs)

VARIABLES
  free,     \* the semaphore _generation_slots
  records,  \* state.jobs: the records that exist, by job
  at,       \* where the thread of each job is
  files,    \* the files written, <<job, kind>>
  old       \* jobs that ended longer than JOB_TTL_HOURS ago

vars == <<free, records, at, files, old>>

(* The calls of _run_full_generation, each with the one that follows it. *)
Calls == {"script", "speech", "wav", "beat", "mix", "mp3", "probe"}
After == [script |-> "speech", speech |-> "wav", wav |-> "beat", beat |-> "mix",
          mix |-> "mp3", mp3 |-> "probe", probe |-> "release"]
Written == [speech |-> {"speech"}, wav |-> {"speech_wav"}, beat |-> {"beat"},
            mix |-> {"podcast"}, script |-> {}, probe |-> {}]

Record(status, result) == [status |-> status, result |-> result]
Ended == {"completed", "failed"}

Init ==
  /\ free = Slots /\ records = [j \in {} |-> Record("pending", {})]
  /\ at = [j \in Jobs |-> "none"] /\ files = {} /\ old = {}

Holders == {j \in Jobs : at[j] \in Calls \union {"start", "release"}}
-----------------------------------------------------------------------------
(* Mutant: the answer of acquire is not looked at. *)
AdmitsWithoutSlot(j) ==
  /\ at[j] = "none"
  /\ free' = free - 1
  /\ records' = [k \in DOMAIN records \union {j} |->
                   IF k = j THEN Record("pending", {}) ELSE records[k]]
  /\ at' = [at EXCEPT ![j] = "start"]
  /\ UNCHANGED <<files, old>>

(* generate_podcast: no slot, no job.  The record is stored before the     *)
(* thread starts; if Thread.start raises, slot and record stay.            *)
GeneratePodcast(j) ==
  /\ at[j] = "none" /\ free > 0
  /\ free' = free - 1
  /\ records' = [k \in DOMAIN records \union {j} |->
                   IF k = j THEN Record("pending", {}) ELSE records[k]]
  /\ \/ at' = [at EXCEPT ![j] = "start"]
     \/ at' = [at EXCEPT ![j] = "never"]
  /\ UNCHANGED <<files, old>>

(* The first line of the thread, before its try. *)
StartGeneration(j) ==
  /\ at[j] = "start" /\ j \in DOMAIN records
  /\ records' = [records EXCEPT ![j].status = "running"]
  /\ at' = [at EXCEPT ![j] = "script"]
  /\ UNCHANGED <<free, files, old>>

(* Mutant: the paths are published when the speech is there. *)
CompletesEarly(j) ==
  /\ at[j] \in Calls
  /\ at' = [at EXCEPT ![j] = After[at[j]]]
  /\ files' = files \union ({j} \X (IF at[j] = "mp3" THEN {} ELSE Written[at[j]]))
  /\ records' = IF at[j] = "beat" /\ j \in DOMAIN records
                THEN [records EXCEPT ![j] = Record("completed", {"podcast"})]
                ELSE records
  /\ UNCHANGED <<free, old>>

(* One call returns.  The mp3 conversion may fail and the wav is used      *)
(* instead; ffprobe only refines the duration.  After the last one the     *)
(* record is completed with the paths.                                     *)
CallReturns(j) ==
  /\ at[j] \in Calls
  /\ at' = [at EXCEPT ![j] = After[at[j]]]
  /\ IF at[j] = "mp3"
     THEN \E converted \in BOOLEAN :
            files' = IF converted THEN files \union {<<j, "mp3">>} ELSE files
     ELSE files' = files \union ({j} \X Written[at[j]])
  /\ records' =
       IF at[j] = "probe" /\ j \in DOMAIN records
       THEN [records EXCEPT ![j] = Record("completed",
               {"podcast"} \union (IF <<j, "mp3">> \in files THEN {"mp3"} ELSE {}))]
       ELSE records
  /\ UNCHANGED <<free, old>>

(* Mutant: an error is not recorded. *)
ErrorIsSwallowed(j) ==
  /\ at[j] \in Calls \ {"mp3", "probe"}
  /\ at' = [at EXCEPT ![j] = "release"]
  /\ UNCHANGED <<free, records, files, old>>

(* Mutant: an error leaves the thread without its finally. *)
ErrorKeepsSlot(j) ==
  /\ at[j] \in Calls \ {"mp3", "probe"} /\ j \in DOMAIN records
  /\ records' = [records EXCEPT ![j] = Record("failed", {})]
  /\ at' = [at EXCEPT ![j] = "over"]
  /\ UNCHANGED <<free, files, old>>

(* One call raises. *)
CallRaises(j) ==
  /\ at[j] \in Calls \ {"mp3", "probe"} /\ j \in DOMAIN records
  /\ records' = [records EXCEPT ![j] = Record("failed", {})]
  /\ at' = [at EXCEPT ![j] = "release"]
  /\ UNCHANGED <<free, files, old>>

(* The finally *)
ReleaseSlot(j) ==
  /\ at[j] = "release"
  /\ free' = free + 1 /\ at' = [at EXCEPT ![j] = "over"]
  /\ UNCHANGED <<records, files, old>>

(* JOB_TTL_HOURS pass after completed_at. *)
Ages(j) ==
  /\ j \in DOMAIN records /\ records[j].status \in Ended /\ j \notin old
  /\ old' = old \union {j}
  /\ UNCHANGED <<free, records, at, files>>

(* Mutant: any record may be swept, whether its job has ended or not. *)
EvictsTheUnfinished ==
  \E j \in DOMAIN records :
    /\ records' = [k \in DOMAIN records \ {j} |-> records[k]]
    /\ UNCHANGED <<free, at, files, old>>

(* _evict_stale_jobs, before every request; the files of a job stay. *)
EvictStaleJobs ==
  /\ DOMAIN records \intersect old # {}
  /\ records' = [k \in DOMAIN records \ old |-> records[k]]
  /\ UNCHANGED <<free, at, files, old>>

ThreadStep(j) ==
  StartGeneration(j) \/ CallReturns(j) \/ CallRaises(j) \/ ReleaseSlot(j)

Next ==
  \/ \E j \in Jobs : GeneratePodcast(j) \/ ThreadStep(j) \/ Ages(j)
  \/ EvictStaleJobs

Spec == Init /\ [][Next]_vars

(* A started thread runs and each of its calls ends. *)
FairSpec == Spec /\ \A j \in Jobs : WF_vars(ThreadStep(j))
-----------------------------------------------------------------------------
(* download_result: the file a request is sent, when its job is completed. *)
Download(j) == IF "mp3" \in records[j].result THEN <<j, "mp3">> ELSE <<j, "podcast">>

TypeOK ==
  /\ free \in 0 .. Slots
  /\ DOMAIN records \subseteq Jobs /\ old \subseteq Jobs
  /\ \A j \in DOMAIN records :
       /\ records[j].status \in {"pending", "running"} \union Ended
       /\ records[j].result \subseteq {"podcast", "mp3"}
  /\ at \in [Jobs -> Calls \union {"none", "start", "never", "release", "over"}]
  /\ files \subseteq Jobs \X {"speech", "speech_wav", "beat", "podcast", "mp3"}

(* A slot is out exactly while a thread holds it, on every way out of      *)
(* _run_full_generation: nothing is returned twice and nothing leaks, but  *)
(* for a thread that could not be started, which keeps its slot for good.  *)
SlotsAreReturned ==
  free + Cardinality(Holders) + Cardinality({j \in Jobs : at[j] = "never"}) = Slots

(* The table tells the truth: the sweep of one request never takes the     *)
(* record another job's thread is about to write (without it the thread    *)
(* would die on a KeyError outside its try, and the client poll a job that *)
(* never was), and a job reported as completed has the file its download   *)
(* names.                                                                  *)
JobsAreTrue ==
  /\ TypeOK
  /\ \A j \in Jobs : at[j] \in Calls \union {"start"} => j \in DOMAIN records
  /\ \A j \in DOMAIN records :
       records[j].status = "completed" => Download(j) \in files

(* A job that was accepted is reported as completed or failed (or has been *)
(* swept since) and gives its slot back.                                   *)
EveryJobEnds ==
  \A j \in Jobs : (at[j] = "start") ~>
    (at[j] = "over" /\ (j \notin DOMAIN records \/ records[j].status \in Ended))
=============================================================================
