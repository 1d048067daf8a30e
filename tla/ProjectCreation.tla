--------------------------- MODULE ProjectCreation ---------------------------
(***************************************************************************)
(* From a preview to a project: POST /projects/outline-preview and POST    *)
(* /projects (routers/v1_projects.py) over the transactions they run       *)
(* (core/persistence.py).  A preview is written by two transactions, first *)
(* its binding, on the single thread of the SQLite executor, then the      *)
(* durable preview with its snapshots and ledger, on the event loop; a     *)
(* project is written by one, on the executor again.                       *)
(*                                                                         *)
(* The creating transaction is taken statement by statement: `pending' is  *)
(* what its connection would see, `db' what is committed, so that a fault  *)
(* or a crash between two statements is a step of the model.  Topic, bpm   *)
(* and duration of a request are its duration; the LLM and TTS profiles    *)
(* are one profile; an outline is its wording and its number of sections.  *)
(* Identifiers are fresh (uuid4), so a preview and a project are named by  *)
(* the request that makes them.                                            *)
(***************************************************************************)
EXTENDS Integers, FiniteSetsExt

CONSTANTS
  Previews, Projects,   \* requests of either kind, by the id they would make
  Owners, Durations, Profiles, Wordings,
  Revisions,            \* routing revisions a deployment may come with
  NoProject, NoSnapshot,
  MaxFaults,            \* bound on statements that raise
  MaxRestarts           \* bound on restarts of the process

ASSUME CreationAssumption ==
  /\ Durations \subseteq 1 .. 30
  /\ NoProject \notin Projects
  /\ MaxFaults \in Nat /\ MaxRestarts \in Nat

VARIABLES
  db,        \* the committed rows
  pending,   \* the rows as the open creating transaction sees them, if any
  asked,     \* the preview requests
  create,    \* the project requests
  expired,   \* previews whose expires_at has passed
  revision,  \* the routing revision of the running deployment
  faults, restarts

vars == <<db, pending, asked, create, expired, revision, faults, restarts>>

(* min(max((duration + 1) // 2, 1), 12) *)
PlannedSegments(d) == Min({Max({(d + 1) \div 2, 1}), 12})

Outlines  == [wording : Wordings, sections : {PlannedSegments(d) : d \in Durations}]
Snapshots == [profile : Profiles, revision : Revisions]

(* One function per table, defined on the keys that have a row.  The       *)
(* generation row, the segments, the stages and the work row of a project  *)
(* are tables of their own; segments and stages are counted.               *)
NoRows  == [k \in {} |-> 0]
Insert(key, row, table) ==
  [k \in DOMAIN table \union {key} |-> IF k = key THEN row ELSE table[k]]
EmptyDb == [bindings |-> NoRows, previews |-> NoRows, ledgers |-> NoRows,
            projects |-> NoRows, segments |-> NoRows, generation |-> NoRows,
            stages |-> NoRows, work |-> NoRows]

ProjectTables == {"projects", "segments", "generation", "stages", "work"}

(* research of the project and of each segment, four stages a segment,     *)
(* finalizing                                                              *)
StageRows(n) == 2 + 5 * n

NoTransaction == [by |-> NoProject, rows |-> EmptyDb]

Init ==
  /\ db = EmptyDb /\ pending = NoTransaction
  /\ asked = [p \in Previews |->
                [pc |-> "none", owner |-> CHOOSE o \in Owners : TRUE,
                 duration |-> CHOOSE d \in Durations : TRUE,
                 snapshot |-> NoSnapshot, wording |-> CHOOSE w \in Wordings : TRUE]]
  /\ create = [q \in Projects |->
                [pc |-> "none", owner |-> CHOOSE o \in Owners : TRUE,
                 duration |-> CHOOSE d \in Durations : TRUE,
                 profile |-> CHOOSE f \in Profiles : TRUE,
                 outline |-> CHOOSE l \in Outlines : TRUE,
                 preview |-> CHOOSE p \in Previews : TRUE,
                 snapshot |-> NoSnapshot, late |-> FALSE]]
  /\ expired = {} /\ revision \in Revisions
  /\ faults = 0 /\ restarts = 0

InTransaction == {"project", "segments", "generation", "stages", "work", "commit"}
OnExecutor    == {"begin"} \union InTransaction

(* The executor has one thread, and SQLite one writer at a time. *)
ExecutorIdle == \A q \in Projects : create[q].pc \notin OnExecutor
LockFree     == pending = NoTransaction

AskedGoes(p, pc)  == asked' = [asked EXCEPT ![p].pc = pc]
CreateGoes(q, pc) == create' = [create EXCEPT ![q].pc = pc]
-----------------------------------------------------------------------------
(* preview_project_outline up to its await: the profile is resolved, the   *)
(* outline generated and validated (an LLM failure ends the request and    *)
(* leaves nothing).                                                        *)
PreviewProjectOutline(p, o, d, f, w) ==
  /\ asked[p].pc = "none"
  /\ asked' = [asked EXCEPT ![p] =
                 [pc |-> "outlined", owner |-> o, duration |-> d, wording |-> w,
                  snapshot |-> [profile |-> f, revision |-> revision]]]
  /\ UNCHANGED <<db, pending, create, expired, revision, faults, restarts>>

OutlineOf(p) == [wording |-> asked[p].wording,
                 sections |-> PlannedSegments(asked[p].duration)]

(* create_outline_preview_binding on the executor *)
CreateOutlinePreviewBinding(p) ==
  /\ asked[p].pc = "outlined" /\ ExecutorIdle /\ LockFree
  /\ db' = [db EXCEPT !.bindings = Insert(p,
              [owner |-> asked[p].owner, duration |-> asked[p].duration,
               outline |-> OutlineOf(p), profile |-> asked[p].snapshot.profile,
               consumed |-> NoProject], @)]
  /\ AskedGoes(p, "bound")
  /\ UNCHANGED <<pending, create, expired, revision, faults, restarts>>

(* Mutant: the ledger of the preview is not written. *)
PreviewWithoutLedger(p) ==
  /\ asked[p].pc = "bound" /\ LockFree
  /\ db' = [db EXCEPT !.previews = Insert(p,
              [owner |-> asked[p].owner, snapshot |-> asked[p].snapshot,
               project |-> NoProject], @)]
  /\ AskedGoes(p, "stored")
  /\ UNCHANGED <<pending, create, expired, revision, faults, restarts>>

(* _create_preview_binding on the event loop: snapshots are stored once    *)
(* under the digest of their contents, so a snapshot is its own id.        *)
CreatePreviewBinding(p) ==
  /\ asked[p].pc = "bound" /\ LockFree
  /\ db' = [db EXCEPT
              !.ledgers = Insert(p,
                [snapshot |-> asked[p].snapshot, project |-> NoProject], @),
              !.previews = Insert(p,
                [owner |-> asked[p].owner, snapshot |-> asked[p].snapshot,
                 project |-> NoProject], @)]
  /\ AskedGoes(p, "stored")
  /\ UNCHANGED <<pending, create, expired, revision, faults, restarts>>

AnswerPreview(p) ==
  /\ asked[p].pc = "stored" /\ AskedGoes(p, "answered")
  /\ UNCHANGED <<db, pending, create, expired, revision, faults, restarts>>

(* Either transaction of a preview raises; the other one is not undone. *)
FailPreview(p) ==
  /\ asked[p].pc \in {"outlined", "bound"} /\ faults < MaxFaults
  /\ faults' = faults + 1 /\ AskedGoes(p, "failed")
  /\ UNCHANGED <<db, pending, create, expired, revision, restarts>>
-----------------------------------------------------------------------------
(* create_project up to its await.  The request names a preview by the id  *)
(* it was given; its model has checked the number of sections.  The        *)
(* snapshots are the ones the stored preview names.                        *)
SubmitProject(q, p, o, d, f, l) ==
  /\ create[q].pc = "none" /\ asked[p].pc # "none"
  /\ l.sections = PlannedSegments(d)
  /\ LET found == p \in DOMAIN db.previews /\ db.previews[p].owner = o
     IN create' = [create EXCEPT ![q] =
          [pc |-> IF found THEN "queued" ELSE "preview_binding_not_found",
           owner |-> o, duration |-> d, profile |-> f, outline |-> l,
           preview |-> p, late |-> FALSE,
           snapshot |-> IF found THEN db.previews[p].snapshot ELSE NoSnapshot]]
  /\ UNCHANGED <<db, pending, asked, expired, revision, faults, restarts>>

(* _create_progress_project reads the clock, and then waits for the lock. *)
ReadClock(q) ==
  /\ create[q].pc = "queued" /\ ExecutorIdle
  /\ create' = [create EXCEPT ![q].pc = "begin",
                              ![q].late = create[q].preview \in expired]
  /\ UNCHANGED <<db, pending, asked, expired, revision, faults, restarts>>

(* Mutant: the checks forget that a preview is consumed. *)
ConsumedIsIgnored(q) ==
  LET b == db.bindings[create[q].preview] IN
  IF create[q].late THEN "preview_binding_expired"
  ELSE IF b.owner = create[q].owner /\ b.outline = create[q].outline
       THEN "accepted" ELSE "preview_binding_mismatch"

(* Mutant: the outline of the request is not compared with the bound one. *)
OutlineIsNotCompared(q) ==
  LET b == db.bindings[create[q].preview] IN
  IF b.consumed # NoProject THEN "preview_binding_consumed"
  ELSE IF b.owner = create[q].owner /\ b.duration = create[q].duration /\ ~create[q].late
       THEN "accepted" ELSE "preview_binding_mismatch"

(* What the checks inside the transaction say, in their order. *)
Refusal(q) ==
  LET r == create[q] IN
  IF r.preview \notin DOMAIN db.bindings THEN "preview_binding_not_found"
  ELSE LET b == db.bindings[r.preview] IN
    CASE b.owner # r.owner -> "preview_binding_not_found"
      [] b.owner = r.owner /\ b.consumed # NoProject -> "preview_binding_consumed"
      [] b.owner = r.owner /\ b.consumed = NoProject /\ r.late ->
           "preview_binding_expired"
      [] OTHER ->
           IF /\ b.duration = r.duration /\ b.outline = r.outline
              /\ b.profile = r.snapshot.profile
              /\ r.preview \in DOMAIN db.previews
              /\ db.previews[r.preview].owner = r.owner
              /\ db.previews[r.preview].project = NoProject
              /\ db.previews[r.preview].snapshot = r.snapshot
           THEN "accepted" ELSE "preview_binding_mismatch"

RefuseProject(q) ==
  /\ create[q].pc = "begin" /\ LockFree
  /\ Refusal(q) # "accepted" /\ CreateGoes(q, Refusal(q))
  /\ UNCHANGED <<db, pending, asked, expired, revision, faults, restarts>>

(* The binding is spent as soon as the checks pass. *)
ConsumeBinding(q) ==
  /\ create[q].pc = "begin" /\ LockFree /\ Refusal(q) = "accepted"
  /\ pending' = [by |-> q,
                 rows |-> [db EXCEPT !.bindings[create[q].preview].consumed = q]]
  /\ CreateGoes(q, "project")
  /\ UNCHANGED <<db, asked, expired, revision, faults, restarts>>

(* One statement (or loop of statements) of the open transaction. *)
Statement(q, here, there, rows) ==
  /\ create[q].pc = here
  /\ pending' = [pending EXCEPT !.rows = rows]
  /\ CreateGoes(q, there)
  /\ UNCHANGED <<db, asked, expired, revision, faults, restarts>>

(* Mutant: the durable preview is not marked as spent. *)
PreviewIsNotSpent(q) ==
  Statement(q, "project", "segments",
    [pending.rows EXCEPT
       !.projects = Insert(q,
         [owner |-> create[q].owner, duration |-> create[q].duration], @),
       !.ledgers[create[q].preview].project = q])

InsertProject(q) ==
  Statement(q, "project", "segments",
    [pending.rows EXCEPT
       !.projects = Insert(q,
         [owner |-> create[q].owner, duration |-> create[q].duration], @),
       !.previews[create[q].preview].project = q,
       !.ledgers[create[q].preview].project = q])

InsertSegments(q) ==
  Statement(q, "segments", "generation",
    [pending.rows EXCEPT !.segments = Insert(q, create[q].outline.sections, @)])

InsertGeneration(q) ==
  Statement(q, "generation", "stages",
    [pending.rows EXCEPT !.generation = Insert(q,
       [outline |-> create[q].outline, snapshot |-> create[q].snapshot,
        planned |-> PlannedSegments(create[q].duration)], @)])

InsertStages(q) ==
  Statement(q, "stages", "work",
    [pending.rows EXCEPT !.stages = Insert(q, StageRows(create[q].outline.sections), @)])

InsertWork(q) ==
  Statement(q, "work", "commit",
    [pending.rows EXCEPT !.work = Insert(q, "pending", @)])

CommitProject(q) ==
  /\ create[q].pc = "commit"
  /\ db' = pending.rows /\ pending' = NoTransaction
  /\ CreateGoes(q, "committed")
  /\ UNCHANGED <<asked, expired, revision, faults, restarts>>

(* Mutant: no rollback.  The statements already run stay in the open       *)
(* transaction of the executor's connection, and its next commit writes    *)
(* them.                                                                   *)
FailWithoutRollback(q) ==
  /\ create[q].pc \in OnExecutor /\ faults < MaxFaults
  /\ faults' = faults + 1
  /\ pending' = NoTransaction
  /\ db' = IF pending.by = q THEN pending.rows ELSE db
  /\ CreateGoes(q, "error")
  /\ UNCHANGED <<asked, expired, revision, restarts>>

(* A statement raises: the transaction is rolled back and the error goes   *)
(* to the client.  BEGIN itself may raise when the lock is not had in      *)
(* time.                                                                   *)
FailProject(q) ==
  /\ create[q].pc \in OnExecutor /\ faults < MaxFaults
  /\ faults' = faults + 1
  /\ pending' = IF pending.by = q THEN NoTransaction ELSE pending
  /\ CreateGoes(q, "error")
  /\ UNCHANGED <<db, asked, expired, revision, restarts>>

(* The work is handed to the scheduler and the answer sent. *)
AnswerProject(q) ==
  /\ create[q].pc = "committed" /\ CreateGoes(q, "accepted")
  /\ UNCHANGED <<db, pending, asked, expired, revision, faults, restarts>>
-----------------------------------------------------------------------------
Expire(p) ==
  /\ asked[p].pc # "none" /\ p \notin expired
  /\ expired' = expired \union {p}
  /\ UNCHANGED <<db, pending, asked, create, revision, faults, restarts>>

(* The process dies with the requests it was serving and comes back,       *)
(* perhaps with another routing configuration.  What is committed stays.   *)
Restart(r) ==
  /\ restarts < MaxRestarts /\ restarts' = restarts + 1
  /\ revision' = r /\ pending' = NoTransaction
  /\ asked' = [p \in Previews |->
       IF asked[p].pc \in {"outlined", "bound", "stored"}
       THEN [asked[p] EXCEPT !.pc = "failed"] ELSE asked[p]]
  /\ create' = [q \in Projects |->
       IF create[q].pc \in OnExecutor \union {"queued", "committed"}
       THEN [create[q] EXCEPT !.pc = "lost"] ELSE create[q]]
  /\ UNCHANGED <<db, expired, faults>>

PreviewStep(p) ==
  \/ CreateOutlinePreviewBinding(p) \/ CreatePreviewBinding(p)
  \/ AnswerPreview(p) \/ FailPreview(p) \/ Expire(p)

ProjectStep(q) ==
  \/ ReadClock(q) \/ RefuseProject(q) \/ ConsumeBinding(q) \/ InsertProject(q)
  \/ InsertSegments(q) \/ InsertGeneration(q) \/ InsertStages(q) \/ InsertWork(q)
  \/ CommitProject(q) \/ FailProject(q) \/ AnswerProject(q)

Next ==
  \/ \E p \in Previews : PreviewStep(p)
  \/ \E q \in Projects : ProjectStep(q)
  \/ \E p \in Previews, o \in Owners, d \in Durations, f \in Profiles, w \in Wordings :
       PreviewProjectOutline(p, o, d, f, w)
  \/ \E q \in Projects, p \in Previews, o \in Owners, d \in Durations, f \in Profiles :
       \E l \in Outlines : SubmitProject(q, p, o, d, f, l)
  \/ \E r \in Revisions : Restart(r)

Spec == Init /\ [][Next]_vars
-----------------------------------------------------------------------------
(* Type correctness of the requests and of the rows that carry links. *)
TypeOK ==
  /\ pending.by \in Projects \union {NoProject}
  /\ \A r \in {db, pending.rows} :
       /\ DOMAIN r.bindings \subseteq Previews /\ DOMAIN r.previews \subseteq Previews
       /\ DOMAIN r.ledgers = DOMAIN r.previews
       /\ \A p \in DOMAIN r.bindings :
            r.bindings[p].consumed \in Projects \union {NoProject}
       /\ \A t \in ProjectTables : DOMAIN r[t] \subseteq Projects
  /\ \A p \in Previews : asked[p].snapshot \in Snapshots \union {NoSnapshot}
  /\ \A q \in Projects : create[q].snapshot \in Snapshots \union {NoSnapshot}
  /\ expired \subseteq Previews /\ revision \in Revisions
  /\ faults \in 0 .. MaxFaults /\ restarts \in 0 .. MaxRestarts

(* A preview becomes at most one project, whoever asks, however often a    *)
(* client repeats a request whose answer it never saw, and whichever       *)
(* request holds the executor first (persistence.py:579-612).              *)
OneProjectPerPreview ==
  \A q, r \in DOMAIN db.projects : create[q].preview = create[r].preview => q = r

(* A committed project, and every project a client was told of, has its    *)
(* planned segments, its generation, all its stages and its pending work:  *)
(* no fault or crash between two statements leaves a part of it            *)
(* (_create_progress_project's "atomically materialize").                  *)
ProjectsAreWhole ==
  \A q \in Projects :
    LET n == PlannedSegments(create[q].duration)
    IN \/ /\ create[q].pc \notin {"committed", "accepted"}
          /\ \A t \in ProjectTables : q \notin DOMAIN db[t]
       \/ /\ \A t \in ProjectTables : q \in DOMAIN db[t]
          /\ db.segments[q] = n /\ db.stages[q] = StageRows(n)
          /\ db.generation[q].planned = n /\ db.work[q] = "pending"

(* The three records of a preview agree on whether it is spent, and on     *)
(* which project: it is never consumed without a project to show for it,   *)
(* nor charged to another one through its ledger, nor spent when only the  *)
(* first of its two transactions was committed.                            *)
PreviewRecordsAgree ==
  \A p \in DOMAIN db.bindings :
    LET q == db.bindings[p].consumed IN
    /\ q # NoProject => q \in DOMAIN db.projects /\ p \in DOMAIN db.previews
    /\ p \in DOMAIN db.previews =>
         db.previews[p].project = q /\ db.ledgers[p].project = q

(* Creation commits whole projects only, and spends its preview with them. *)
CreationIsWhole == ProjectsAreWhole /\ PreviewRecordsAgree

(* A project runs the outline its owner was shown, with the snapshots that *)
(* were resolved for that preview, whatever has been deployed or asked for *)
(* since, and its ledger is kept under the same snapshots.                 *)
RunsAsPreviewed ==
  \A q \in DOMAIN db.generation : \E p \in DOMAIN db.bindings :
    /\ db.bindings[p].consumed = q
    /\ db.bindings[p].owner = db.projects[q].owner
    /\ db.bindings[p].outline = db.generation[q].outline
    /\ db.generation[q].snapshot = asked[p].snapshot
    /\ db.ledgers[p].snapshot = asked[p].snapshot
=============================================================================
