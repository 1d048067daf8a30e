---------------------------- MODULE TtsExecution ----------------------------
(***************************************************************************)
(* One execution of _execute_tts_plans (core/segment_pipeline.py): the     *)
(* dialogue of one segment is split into plans, the plans are rendered by  *)
(* a bounded thread pool, every request leaves rows in execution_attempts  *)
(* and episode_ledger_entries, and the clips are joined in plan order.     *)
(* The request itself is synthesize_elevenlabs_plan (core/tts_engine.py).  *)
(*                                                                         *)
(* A step of render is the code between two writes that another thread or  *)
(* a later reader can see: a row, the request, the renamed clip.  The      *)
(* provider is external: it may render and charge for a request and the    *)
(* answer still be lost.  Rows, texts and audio are reduced to which row   *)
(* of which attempt says what.                                             *)
(*                                                                         *)
(* Nothing in this code looks at the lease or at the project.  Around it,  *)
(* any row may fail to be written, the project may be deleted - which      *)
(* takes the rows of plans and attempts and leaves the ledger - and the    *)
(* process may stop; a later claim does not execute these plans again.     *)
(***************************************************************************)
EXTENDS Integers, FiniteSets, Sequences

CONSTANTS
  NumPlans,        \* plans of the segment, in order
  MaxAttempts,     \* snapshot.max_attempts
  MaxConcurrent,   \* snapshot.max_concurrent_requests
  MaxFaults        \* bound: writes that raise, and the deletion

ASSUME TtsAssumption ==
  /\ NumPlans \in Nat \ {0} /\ MaxAttempts \in Nat \ {0}
  /\ MaxConcurrent \in Nat \ {0} /\ MaxFaults \in Nat

Plans    == 1 .. NumPlans
Attempts == 1 .. MaxAttempts

VARIABLES
  main,      \* the pipeline thread inside _execute_tts_plans
  future,    \* state of each submitted plan
  collected, \* rendered_by_plan: its plans, in the order in which they came
  assembly,  \* the clips joined, by plan; empty until then
  at,        \* where the render of each plan is
  number,    \* attempt_number of each render, from one
  answer,    \* what the request of each render came to
  outcome,   \* execution_attempts.outcome of each plan's attempts
  ledger,    \* states of the ledger entries of each plan's attempts
  clip,      \* plans whose clip is renamed into place
  charged,   \* attempts the provider rendered (external)
  faults,    \* writes that have raised, and the deletion
  deleted    \* the project is deleted

joining  == <<collected, assembly>>
pool     == <<main, future, joining>>
rows     == <<outcome, ledger>>
world    == <<faults, deleted>>
vars     == <<pool, at, number, answer, rows, clip, charged, world>>

Answers  == {"none", "audio", "retryable", "refused", "lost"}
Outcomes == {"none", "pre_send", "dispatched", "published", "retryable",
             "terminal", "unknown_outcome"}
Entries  == {"reserved", "actual", "released"}

TypeOK ==
  /\ main \in {"planning", "waiting", "cancelling",
               "assembled", "raised", "stopped"}
  /\ future \in [Plans -> {"none", "queued", "running", "returned", "raised",
                           "cancelled"}]
  /\ collected \in Seq(Plans) /\ assembly \in Seq(Plans)
  /\ at \in [Plans -> {"idle", "reserve", "record", "dispatch", "send",
                       "answered", "publish", "charge", "release", "end"}]
  /\ number \in [Plans -> Attempts]
  /\ answer \in [Plans -> Answers]
  /\ outcome \in [Plans -> [Attempts -> Outcomes]]
  /\ ledger \in [Plans -> [Attempts -> SUBSET Entries]]
  /\ clip \subseteq Plans
  /\ charged \subseteq Plans \X Attempts
  /\ faults \in 0 .. MaxFaults /\ deleted \in BOOLEAN

Init ==
  /\ main = "planning"
  /\ future = [p \in Plans |-> "none"]
  /\ collected = <<>> /\ assembly = <<>>
  /\ at = [p \in Plans |-> "idle"]
  /\ number = [p \in Plans |-> 1]
  /\ answer = [p \in Plans |-> "none"]
  /\ outcome = [p \in Plans |-> [n \in Attempts |-> "none"]]
  /\ ledger = [p \in Plans |-> [n \in Attempts |-> {}]]
  /\ clip = {} /\ charged = {}
  /\ faults = 0 /\ deleted = FALSE

-----------------------------------------------------------------------------
(***************************************************************************)
(* render.                                                                 *)
(***************************************************************************)

Goto(p, place) == at' = [at EXCEPT ![p] = place]

\* _append_tts_ledger_entry and _persist_tts_attempt, for the attempt under way.
Enter(p, entry)  == ledger' = [ledger EXCEPT ![p][number[p]] = @ \cup {entry}]
Record(p, value) == outcome' = [outcome EXCEPT ![p][number[p]] = value]

Reserve(p) ==
  /\ at[p] = "reserve"
  /\ Enter(p, "reserved") /\ Goto(p, "record")
  /\ UNCHANGED <<pool, number, answer, outcome, clip, charged, world>>

RecordPreSend(p) ==
  /\ at[p] = "record"
  /\ Record(p, "pre_send") /\ Goto(p, "dispatch")
  /\ UNCHANGED <<pool, number, answer, ledger, clip, charged, world>>

RecordDispatched(p) ==
  /\ at[p] = "dispatch"
  /\ Record(p, "dispatched") /\ Goto(p, "send")
  /\ UNCHANGED <<pool, number, answer, ledger, clip, charged, world>>

\* synthesize_elevenlabs_plan: a clip already in place answers without a
\* request; else the provider renders or not, and the answer arrives or not.
Send(p) ==
  /\ at[p] = "send"
  /\ Goto(p, "answered")
  /\ IF p \in clip
     THEN answer' = [answer EXCEPT ![p] = "audio"] /\ UNCHANGED charged
     ELSE \/ \E a \in {"audio", "lost"} :
               /\ answer' = [answer EXCEPT ![p] = a]
               /\ charged' = charged \cup {<<p, number[p]>>}
          \/ \E a \in {"retryable", "refused", "lost"} :
               /\ answer' = [answer EXCEPT ![p] = a]
               /\ UNCHANGED charged
  /\ UNCHANGED <<pool, number, rows, clip, world>>

\* The stream is staged, flushed and renamed; it may break off before the
\* rename, or the directory fail to sync after it.
StoreClip(p) ==
  /\ at[p] = "answered" /\ answer[p] = "audio"
  /\ \/ /\ clip' = clip \cup {p}
        /\ Goto(p, "publish") /\ UNCHANGED answer
     \/ /\ clip' \in {clip, clip \cup {p}}
        /\ answer' = [answer EXCEPT ![p] = "lost"] /\ UNCHANGED at
  /\ UNCHANGED <<pool, number, rows, charged, world>>

RecordPublished(p) ==
  /\ at[p] = "publish"
  /\ Record(p, "published") /\ Goto(p, "charge")
  /\ UNCHANGED <<pool, number, answer, ledger, clip, charged, world>>

EnterActual(p) ==
  /\ at[p] = "charge"
  /\ Enter(p, "actual") /\ Goto(p, "release")
  /\ UNCHANGED <<pool, number, answer, outcome, clip, charged, world>>

\* Mutant: a request without an answer counts as retryable.
AttemptOutcomeBroad(a) ==
  IF a \in {"audio", "refused"} THEN "unknown_outcome" ELSE "retryable"

\* classify_tts_failure on the status code, then _tts_attempt_outcome on the
\* error code raised for it: 429, 500 and 503 become tts_retryable, any other
\* status tts_http_N, which _tts_attempt_outcome does not know.
AttemptOutcome(a) == IF a = "retryable" THEN "retryable" ELSE "unknown_outcome"

RecordFailure(p) ==
  /\ at[p] = "answered" /\ answer[p] \in {"retryable", "refused", "lost"}
  /\ Record(p, AttemptOutcome(answer[p])) /\ Goto(p, "release")
  /\ UNCHANGED <<pool, number, answer, ledger, clip, charged, world>>

\* The reservation of the attempt is released, whatever came of it.
Release(p) ==
  /\ at[p] = "release"
  /\ Enter(p, "released") /\ Goto(p, "end")
  /\ UNCHANGED <<pool, number, answer, outcome, clip, charged, world>>

\* Mutant: every failed attempt is sent again.
MayRetryAny(p) == answer[p] # "audio" /\ number[p] < MaxAttempts

\* Mutant: one attempt too many.
MayRetryOnceMore(p) ==
  AttemptOutcome(answer[p]) = "retryable" /\ number[p] <= MaxAttempts

MayRetry(p) == AttemptOutcome(answer[p]) = "retryable" /\ number[p] < MaxAttempts

\* render goes round its loop, returns the clip or raises.
Retry(p) ==
  /\ at[p] = "end" /\ MayRetry(p)
  /\ number' = [number EXCEPT ![p] = @ + 1]
  /\ answer' = [answer EXCEPT ![p] = "none"]
  /\ Goto(p, "reserve")
  /\ UNCHANGED <<pool, rows, clip, charged, world>>

Finish(p) ==
  /\ at[p] = "end" /\ ~MayRetry(p)
  /\ future' = [future EXCEPT ![p] =
                  IF answer[p] = "audio" THEN "returned" ELSE "raised"]
  /\ answer' = [answer EXCEPT ![p] = "none"]
  /\ Goto(p, "idle")
  /\ UNCHANGED <<main, joining, number, rows, clip, charged, world>>

\* A row that cannot be written ends the render where it is, also inside its
\* handlers: the reservation stays open.
WriteRaises(p) ==
  /\ faults < MaxFaults
  /\ \/ at[p] \in {"reserve", "record", "dispatch", "publish", "charge", "release"}
     \/ at[p] = "answered" /\ answer[p] # "audio"
  /\ faults' = faults + 1
  /\ future' = [future EXCEPT ![p] = "raised"]
  /\ answer' = [answer EXCEPT ![p] = "none"]
  /\ Goto(p, "idle")
  /\ UNCHANGED <<main, joining, number, rows, clip, charged, deleted>>

-----------------------------------------------------------------------------
(***************************************************************************)
(* The pool and the thread that waits for it.                              *)
(***************************************************************************)

Running == {p \in Plans : future[p] = "running"}

\* The plans are stored and submitted in order.
Submit ==
  /\ main = "planning" /\ ~deleted
  /\ main' = "waiting"
  /\ future' = [p \in Plans |-> "queued"]
  /\ UNCHANGED <<joining, at, number, answer, rows, clip, charged, world>>

\* min(len(plans), max_concurrent_requests) pool threads.
WorkerFree == Cardinality(Running) < MaxConcurrent

\* A pool thread takes the first future of the queue.
StartRender(p) ==
  /\ future[p] = "queued" /\ WorkerFree
  /\ \A q \in Plans : q < p => future[q] # "queued"
  /\ future' = [future EXCEPT ![p] = "running"]
  /\ Goto(p, "reserve")
  /\ UNCHANGED <<main, joining, number, answer, rows, clip, charged, world>>

Collected == {collected[i] : i \in DOMAIN collected}

\* as_completed hands over the finished futures in any order.
Collect(p) ==
  /\ main = "waiting" /\ future[p] = "returned" /\ p \notin Collected
  /\ collected' = Append(collected, p)
  /\ UNCHANGED <<main, future, assembly, at, number, answer, rows, clip, charged, world>>

\* The first failure ends the loop, and what was collected is dropped.
NoticeFailure(p) ==
  /\ main = "waiting" /\ future[p] = "raised"
  /\ main' = "cancelling" /\ collected' = <<>>
  /\ UNCHANGED <<future, assembly, at, number, answer, rows, clip, charged, world>>

\* future.cancel() on each future in turn; one that runs or is done stays, and a
\* pool thread may take the next before its turn.
CancelQueued(p) ==
  /\ main = "cancelling" /\ future[p] = "queued"
  /\ \A q \in Plans : q < p => future[q] # "queued"
  /\ future' = [future EXCEPT ![p] = "cancelled"]
  /\ UNCHANGED <<main, joining, at, number, answer, rows, clip, charged, world>>

\* Mutants: the pool is shut down without waiting; a cancelled future is waited
\* for.
PoolAbandoned        == TRUE
PoolDoneNotCancelled == \A p \in Plans : future[p] \in {"returned", "raised"}

\* Leaving the with block waits for the pool.
PoolDone == \A p \in Plans : future[p] \notin {"queued", "running"}

JoinPool ==
  /\ main = "cancelling" /\ PoolDone
  /\ main' = "raised"
  /\ UNCHANGED <<future, joining, at, number, answer, rows, clip, charged, world>>

\* The loop of as_completed is over and has a clip of each plan.
AllCollected == Collected = Plans

\* Mutant: the clips are joined as they came (rendered_by_plan.values()).
JoinedAsTheyCame == collected

\* The clips are looked up in rendered_by_plan plan by plan.
Joined ==
  [p \in Plans |-> collected[CHOOSE i \in DOMAIN collected : collected[i] = p]]

\* The clips are joined and the assembly row is written, which names the
\* project and the segment.
Assemble ==
  /\ main = "waiting" /\ AllCollected /\ ~deleted
  /\ main' = "assembled" /\ assembly' = Joined
  /\ UNCHANGED <<future, collected, at, number, answer, rows, clip, charged, world>>

\* The rows of plans and of the assembly name the segment, which must exist.
MainRaises ==
  /\ main = "planning" \/ (main = "waiting" /\ AllCollected)
  /\ main' = "raised"
  /\ IF deleted THEN UNCHANGED faults ELSE faults < MaxFaults /\ faults' = faults + 1
  /\ UNCHANGED <<future, joining, at, number, answer, rows, clip, charged, deleted>>

-----------------------------------------------------------------------------
(***************************************************************************)
(* What happens around the call.                                           *)
(***************************************************************************)

Ended == main \in {"assembled", "raised"}

\* _delete_project: the rows of attempts go, the ledger stays; a render goes on
\* and writes its attempt's row anew.
DeleteProject ==
  /\ ~Ended /\ ~deleted /\ faults < MaxFaults
  /\ deleted' = TRUE /\ faults' = faults + 1
  /\ outcome' = [p \in Plans |-> [n \in Attempts |-> "none"]]
  /\ UNCHANGED <<pool, at, number, answer, ledger, clip, charged>>

\* The process ends with everything in its memory; its rows stay.
Stop ==
  /\ ~Ended /\ main # "stopped"
  /\ main' = "stopped" /\ collected' = <<>>
  /\ future' = [p \in Plans |-> "cancelled"]
  /\ at' = [p \in Plans |-> "idle"]
  /\ answer' = [p \in Plans |-> "none"]
  /\ UNCHANGED <<assembly, number, rows, clip, charged, world>>

-----------------------------------------------------------------------------

RenderStep(p) ==
  \/ Reserve(p) \/ RecordPreSend(p) \/ RecordDispatched(p) \/ Send(p)
  \/ StoreClip(p) \/ RecordPublished(p) \/ EnterActual(p) \/ RecordFailure(p)
  \/ Release(p) \/ Retry(p) \/ Finish(p) \/ WriteRaises(p)

MainStep ==
  \/ Submit \/ JoinPool \/ Assemble \/ MainRaises
  \/ \E p \in Plans : Collect(p) \/ NoticeFailure(p) \/ CancelQueued(p)

CallStep == MainStep \/ \E p \in Plans : StartRender(p) \/ RenderStep(p)

Next == CallStep \/ DeleteProject \/ Stop

\* Some thread that can go on does, and a request returns within its timeout.
Fairness == WF_vars(CallStep)

Spec == Init /\ [][Next]_vars /\ Fairness

-----------------------------------------------------------------------------
(***************************************************************************)
(* Properties.                                                             *)
(***************************************************************************)

\* The provider renders, and charges for, a plan at most once: a request whose
\* answer was lost is never sent again, whatever max_attempts allows.
ChargedAtMostOnce ==
  \A p \in Plans, m, n \in Attempts :
    <<p, m>> \in charged /\ <<p, n>> \in charged => m = n

\* What one attempt's rows say of the request: its use is entered, its reservation
\* is still open, or its outcome is unknown.
Accounted(p, n) ==
  \/ "actual" \in ledger[p][n]
  \/ "reserved" \in ledger[p][n] /\ "released" \notin ledger[p][n]
  \/ outcome[p][n] = "unknown_outcome"

\* A rendering that was charged is never filed as one that may be repeated or
\* that the provider refused, and the books show it at every moment: also when
\* the process stops in the middle or a row cannot be written.  Only a deletion
\* takes the row that says an outcome is unknown.
ChargesAreNotMisfiled ==
  \A p \in Plans, n \in Attempts :
    <<p, n>> \in charged =>
      /\ outcome[p][n] \in {"dispatched", "published", "unknown_outcome"}
           \/ (deleted /\ outcome[p][n] = "none")
      /\ Accounted(p, n) \/ deleted

NoWriteRaised == faults = IF deleted THEN 1 ELSE 0

\* When the call ends, by return or by exception, nothing of it still runs.  Unless
\* a row could not be written each reservation has been released, also when the
\* project was deleted, whose ledger stays; and unless it was deleted, which takes
\* the rows of its attempts, exactly what was published was entered as actual use.
\* All this also for the plans that were in flight when another plan failed.
BooksAreClosed ==
  Ended =>
    /\ \A p \in Plans : future[p] \notin {"queued", "running"}
    /\ \A p \in Plans, n \in Attempts :
         /\ NoWriteRaised =>
              ("reserved" \in ledger[p][n] <=> "released" \in ledger[p][n])
         /\ NoWriteRaised /\ ~deleted =>
              /\ "actual" \in ledger[p][n] <=> outcome[p][n] = "published"
              /\ outcome[p][n] \notin {"pre_send", "dispatched"}

\* An assembly has the clips of all plans in the order of the dialogue, whatever
\* order their threads finished in; each clip is in place and its actual use
\* entered; and it is never written for a project that is gone.
AssemblyIsComplete ==
  main = "assembled" =>
    /\ ~deleted
    /\ clip = Plans
    /\ assembly = [p \in Plans |-> p]
    /\ \A p \in Plans : \E n \in Attempts : "actual" \in ledger[p][n]

\* The call ends, unless the process does.
ExecutionEnds == <>(Ended \/ main = "stopped")
=============================================================================
