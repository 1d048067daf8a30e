------------------------ MODULE ProjectCreationProofs ------------------------
(***************************************************************************)
(* Proofs about ProjectCreation for every number of previews, requests,    *)
(* faults and restarts.                                                    *)
(*                                                                         *)
(* A preview becomes at most one project.  The argument: a project's row   *)
(* and the mark on its binding are committed together, the mark names the  *)
(* project, and the transaction that makes it found the binding unmarked   *)
(* and keeps every other writer out until it ends (IInv).                  *)
(*                                                                         *)
(* A project is whole or not there, and it is what was previewed.  The     *)
(* second invariant (WholeInv) follows the open transaction statement by   *)
(* statement: what its connection would see is the committed rows and as   *)
(* much of one project as the request's phase says.                        *)
(***************************************************************************)
EXTENDS ProjectCreation, TLAPS

-----------------------------------------------------------------------------
(***************************************************************************)
(* The shapes of rows and requests, as far as the argument needs them.     *)
(***************************************************************************)

IsBinding(b) ==
  b = [owner |-> b.owner, duration |-> b.duration, outline |-> b.outline,
       profile |-> b.profile, consumed |-> b.consumed]

IsDb(r) ==
  /\ r = [bindings |-> r.bindings, previews |-> r.previews, ledgers |-> r.ledgers,
          projects |-> r.projects, segments |-> r.segments,
          generation |-> r.generation, stages |-> r.stages, work |-> r.work]
  /\ r.bindings = [p \in DOMAIN r.bindings |-> r.bindings[p]]
  /\ \A p \in DOMAIN r.bindings : IsBinding(r.bindings[p])

IsAsked(a) ==
  a = [pc |-> a.pc, owner |-> a.owner, duration |-> a.duration,
       snapshot |-> a.snapshot, wording |-> a.wording]

IsCreate(c) ==
  c = [pc |-> c.pc, owner |-> c.owner, duration |-> c.duration,
       profile |-> c.profile, outline |-> c.outline, preview |-> c.preview,
       snapshot |-> c.snapshot, late |-> c.late]

Shapes ==
  /\ IsDb(db) /\ IsDb(pending.rows)
  /\ pending = [by |-> pending.by, rows |-> pending.rows]
  /\ asked = [p \in Previews |-> asked[p]] /\ \A p \in Previews : IsAsked(asked[p])
  /\ create = [q \in Projects |-> create[q]]
  /\ \A q \in Projects : IsCreate(create[q])

-----------------------------------------------------------------------------
(***************************************************************************)
(* The inductive invariant.                                                *)
(***************************************************************************)

\* A binding has its row once, from the request that made it.
BindingsAreFresh ==
  \A p \in DOMAIN db.bindings :
    p \in Previews /\ asked[p].pc \notin {"none", "outlined"}

\* The binding of a committed project names it.
Names(q) ==
  /\ create[q].preview \in DOMAIN db.bindings
  /\ db.bindings[create[q].preview].consumed = q

ProjectsAreNamed ==
  \A q \in DOMAIN db.projects :
    /\ q \in Projects /\ create[q].pc \in {"committed", "accepted", "lost"}
    /\ Names(q)

\* The open transaction differs from what is committed by its own marks.
Opens(q) ==
  /\ create[q].preview \in DOMAIN db.bindings
  /\ db.bindings[create[q].preview].consumed = NoProject
  /\ pending.rows.bindings =
       [db.bindings EXCEPT ![create[q].preview].consumed = q]
  /\ DOMAIN pending.rows.projects \subseteq DOMAIN db.projects \union {q}

OneTransaction ==
  /\ pending.by \in Projects \union {NoProject}
  /\ \A q \in Projects : create[q].pc \in InTransaction <=> pending.by = q
  /\ \A q \in Projects : pending.by = q => Opens(q)

IInv == Shapes /\ BindingsAreFresh /\ ProjectsAreNamed /\ OneTransaction

-----------------------------------------------------------------------------

\* Nothing is stored at the start.
LEMMA IInvInit == Init => IInv
<1> SUFFICES ASSUME Init PROVE IInv
  OBVIOUS
<1> USE CreationAssumption
<1>1. Shapes
  BY DEF Init, Shapes, IsDb, IsBinding, IsAsked, IsCreate, EmptyDb, NoRows, NoTransaction
<1>2. BindingsAreFresh /\ ProjectsAreNamed
  BY DEF Init, BindingsAreFresh, ProjectsAreNamed, EmptyDb, NoRows
<1>3. OneTransaction
  BY DEF Init, OneTransaction, NoTransaction, InTransaction
<1> QED BY <1>1, <1>2, <1>3 DEF IInv

\* A step of a preview request marks nothing and makes no project; it waits
\* for the lock before it writes.
LEMMA PreviewKeeps ==
  ASSUME IInv, NEW p \in Previews,
         \/ PreviewStep(p)
         \/ \E o \in Owners, d \in Durations, f \in Profiles, w \in Wordings :
              PreviewProjectOutline(p, o, d, f, w)
  PROVE  IInv'
<1> USE CreationAssumption
<1>1. CASE CreateOutlinePreviewBinding(p)
  <2>1. UNCHANGED <<pending, create>> /\ pending = NoTransaction
    BY <1>1 DEF CreateOutlinePreviewBinding, LockFree
  <2>2. asked' = [asked EXCEPT ![p].pc = "bound"] /\ asked[p].pc = "outlined"
    BY <1>1 DEF CreateOutlinePreviewBinding, AskedGoes
  <2>3. p \notin DOMAIN db.bindings
    BY <2>2 DEF IInv, BindingsAreFresh
  <2> DEFINE row == [owner |-> asked[p].owner, duration |-> asked[p].duration,
                     outline |-> OutlineOf(p), profile |-> asked[p].snapshot.profile,
                     consumed |-> NoProject]
  <2>4. db' = [db EXCEPT !.bindings = Insert(p, row, db.bindings)]
    BY <1>1 DEF CreateOutlinePreviewBinding
  <2>5. IsBinding(row)
    BY DEF IsBinding
  <2> HIDE DEF row
  <2>6. /\ IsDb(db') /\ db'.bindings = Insert(p, row, db.bindings)
        /\ db'.projects = db.projects
    BY <2>4, <2>5 DEF IInv, Shapes, IsDb, Insert
  <2>7. DOMAIN db'.bindings = DOMAIN db.bindings \union {p}
    BY <2>6 DEF Insert
  <2>8. \A k \in DOMAIN db.bindings : db'.bindings[k] = db.bindings[k]
    BY <2>3, <2>6 DEF Insert
  <2>9. Shapes'
    BY <2>1, <2>2, <2>6 DEF IInv, Shapes, IsAsked
  <2>10. BindingsAreFresh'
    <3>1. asked'[p].pc = "bound" /\ \A k \in Previews \ {p} : asked'[k] = asked[k]
      BY <2>2 DEF IInv, Shapes, IsAsked
    <3>2. \A k \in DOMAIN db.bindings :
            k \in Previews /\ asked[k].pc \notin {"none", "outlined"}
      BY DEF IInv, BindingsAreFresh
    <3> QED BY <2>7, <3>1, <3>2 DEF BindingsAreFresh
  <2>11. ProjectsAreNamed'
    BY <2>1, <2>6, <2>7, <2>8 DEF IInv, ProjectsAreNamed, Names
  <2>12. OneTransaction'
    BY <2>1 DEF IInv, OneTransaction, NoTransaction
  <2> QED BY <2>9, <2>10, <2>11, <2>12 DEF IInv
<1>2. CASE CreatePreviewBinding(p)
  <2>1. UNCHANGED <<pending, create>> /\ pending = NoTransaction
    BY <1>2 DEF CreatePreviewBinding, LockFree
  <2>2. asked' = [asked EXCEPT ![p].pc = "stored"]
    BY <1>2 DEF CreatePreviewBinding, AskedGoes
  <2>3. /\ IsDb(db') /\ db'.bindings = db.bindings
        /\ db'.projects = db.projects
    BY <1>2 DEF CreatePreviewBinding, IInv, Shapes, IsDb
  <2>4. Shapes'
    BY <2>1, <2>2, <2>3 DEF IInv, Shapes, IsAsked
  <2>5. BindingsAreFresh'
    BY <2>2, <2>3 DEF IInv, Shapes, IsAsked, BindingsAreFresh
  <2>6. ProjectsAreNamed'
    BY <2>1, <2>3 DEF IInv, ProjectsAreNamed, Names
  <2>7. OneTransaction'
    BY <2>1 DEF IInv, OneTransaction, NoTransaction
  <2> QED BY <2>4, <2>5, <2>6, <2>7 DEF IInv
<1>3. ASSUME UNCHANGED <<db, pending, create>>,
             asked' = [asked EXCEPT ![p].pc = "answered"]
               \/ asked' = [asked EXCEPT ![p].pc = "failed"]
               \/ asked' = asked
      PROVE  IInv'
  <2>1. Shapes'
    BY <1>3 DEF IInv, Shapes, IsAsked
  <2>2. BindingsAreFresh'
    BY <1>3 DEF IInv, Shapes, IsAsked, BindingsAreFresh
  <2>3. ProjectsAreNamed' /\ OneTransaction'
    BY <1>3 DEF IInv, ProjectsAreNamed, Names, OneTransaction, Opens
  <2> QED BY <2>1, <2>2, <2>3 DEF IInv
<1>4. CASE AnswerPreview(p) \/ FailPreview(p) \/ Expire(p)
  BY <1>3, <1>4 DEF AnswerPreview, FailPreview, Expire, AskedGoes
<1>5. ASSUME NEW o \in Owners, NEW d \in Durations, NEW f \in Profiles,
             NEW w \in Wordings, PreviewProjectOutline(p, o, d, f, w)
      PROVE  IInv'
  <2>1. Shapes'
    BY <1>5 DEF PreviewProjectOutline, IInv, Shapes, IsAsked
  <2>2. BindingsAreFresh'
    BY <1>5 DEF PreviewProjectOutline, IInv, Shapes, BindingsAreFresh
  <2>3. ProjectsAreNamed' /\ OneTransaction'
    BY <1>5 DEF PreviewProjectOutline, IInv, ProjectsAreNamed, Names,
                OneTransaction, Opens
  <2> QED BY <2>1, <2>2, <2>3 DEF IInv
<1> QED BY <1>1, <1>2, <1>4, <1>5 DEF PreviewStep

-----------------------------------------------------------------------------


\* A step of a project request outside its transaction leaves what is stored
\* and what is open alone.
LEMMA OutsideKeeps ==
  ASSUME IInv, NEW q \in Projects, UNCHANGED <<db, pending, asked>>,
         IsCreate(create'[q]), create' = [create EXCEPT ![q] = create'[q]],
         create[q].pc \notin InTransaction, create'[q].pc \notin InTransaction,
         q \in DOMAIN db.projects =>
           /\ create'[q].pc \in {"committed", "accepted", "lost"}
           /\ create'[q].preview = create[q].preview
  PROVE  IInv'
<1> USE CreationAssumption
<1>1. \A k \in Projects \ {q} : create'[k] = create[k]
  BY DEF IInv, Shapes
<1>2. Shapes'
  BY DEF IInv, Shapes
<1>3. BindingsAreFresh'
  BY DEF IInv, BindingsAreFresh
<1>4. ProjectsAreNamed'
  BY <1>1 DEF IInv, ProjectsAreNamed, Names
<1>5. OneTransaction'
  <2>1. pending.by # q
    BY DEF IInv, OneTransaction
  <2> QED BY <1>1, <2>1 DEF IInv, OneTransaction, Opens
<1> QED BY <1>2, <1>3, <1>4, <1>5 DEF IInv

\* A statement of the open transaction, which leaves the bindings alone and
\* makes no project but its own, keeps the transaction the only one.
LEMMA StatementKeeps ==
  ASSUME IInv, NEW q \in Projects, NEW here \in InTransaction,
         NEW there \in InTransaction, NEW rows,
         Statement(q, here, there, rows), IsDb(rows),
         rows.bindings = pending.rows.bindings,
         DOMAIN rows.projects \subseteq DOMAIN pending.rows.projects \union {q}
  PROVE  IInv'
<1> USE CreationAssumption
<1>1. UNCHANGED <<db, asked>> /\ create[q].pc = here
  BY DEF Statement
<1>2. create' = [create EXCEPT ![q].pc = there]
  BY DEF Statement, CreateGoes
<1>3. pending' = [pending EXCEPT !.rows = rows]
  BY DEF Statement
<1>4. pending'.by = pending.by /\ pending'.rows = rows /\ pending.by = q
  BY <1>1, <1>3 DEF IInv, Shapes, OneTransaction
<1>5. /\ \A k \in Projects \ {q} : create'[k] = create[k]
      /\ create'[q].pc = there /\ create'[q].preview = create[q].preview
      /\ IsCreate(create'[q])
  BY <1>2 DEF IInv, Shapes, IsCreate
<1>6. Shapes'
  <2>1. pending' = [by |-> pending'.by, rows |-> pending'.rows]
    BY <1>3, <1>4 DEF IInv, Shapes
  <2> QED BY <1>1, <1>2, <1>4, <1>5, <2>1 DEF IInv, Shapes
<1>7. BindingsAreFresh'
  BY <1>1 DEF IInv, BindingsAreFresh
<1>8. ProjectsAreNamed'
  <2>1. q \notin DOMAIN db.projects
    BY <1>1 DEF IInv, ProjectsAreNamed, InTransaction
  <2> QED BY <1>1, <1>5, <2>1 DEF IInv, ProjectsAreNamed, Names
<1>9. OneTransaction'
  <2>1. Opens(q)
    BY <1>4 DEF IInv, OneTransaction
  <2>2. Opens(q)'
    BY <1>1, <1>4, <1>5, <2>1 DEF Opens
  <2> QED BY <1>1, <1>4, <1>5, <2>2 DEF IInv, OneTransaction
<1> QED BY <1>6, <1>7, <1>8, <1>9 DEF IInv
-----------------------------------------------------------------------------

\* The transaction opens on a binding that nobody has spent, when no other is
\* open, and its first statement marks that binding.
LEMMA OpeningKeeps ==
  ASSUME IInv, NEW q \in Projects, ConsumeBinding(q)
  PROVE  IInv'
<1> USE CreationAssumption
<1> DEFINE p == create[q].preview
           rows == [db EXCEPT !.bindings[p].consumed = q]
<1>1. UNCHANGED <<db, asked>> /\ create' = [create EXCEPT ![q].pc = "project"]
  BY DEF ConsumeBinding, CreateGoes
<1>2. pending' = [by |-> q, rows |-> rows] /\ pending = NoTransaction
  BY DEF ConsumeBinding, LockFree
<1>3. p \in DOMAIN db.bindings /\ db.bindings[p].consumed = NoProject
  <2>1. Refusal(q) = "accepted" BY DEF ConsumeBinding
  <2>2. p \in DOMAIN db.bindings BY <2>1 DEF Refusal
  <2>3. CASE db.bindings[p].consumed # NoProject
    BY <2>1, <2>2, <2>3 DEF Refusal
  <2> QED BY <2>2, <2>3
<1>4. /\ IsDb(rows) /\ rows.projects = db.projects
      /\ rows.bindings = [db.bindings EXCEPT ![p].consumed = q]
  <2>1. rows.projects = db.projects
    BY DEF IInv, Shapes, IsDb
  <2>2. rows.bindings = [db.bindings EXCEPT ![p].consumed = q]
    BY DEF IInv, Shapes, IsDb
  <2>3. \A k \in DOMAIN db.bindings : IsBinding(rows.bindings[k])
    BY <1>3, <2>2 DEF IInv, Shapes, IsDb, IsBinding
  <2>4. DOMAIN rows.bindings = DOMAIN db.bindings
    BY <2>2
  <2>5. rows.bindings = [k \in DOMAIN rows.bindings |-> rows.bindings[k]]
    BY <2>2
  <2>6. rows = [bindings |-> rows.bindings, previews |-> rows.previews,
          ledgers |-> rows.ledgers, projects |-> rows.projects,
          segments |-> rows.segments, generation |-> rows.generation,
          stages |-> rows.stages, work |-> rows.work]
    BY DEF IInv, Shapes, IsDb
  <2> QED BY <2>1, <2>2, <2>3, <2>4, <2>5, <2>6 DEF IsDb
<1> HIDE DEF rows
<1>5. /\ \A k \in Projects \ {q} : create'[k] = create[k]
      /\ create'[q].pc = "project" /\ create'[q].preview = p
      /\ IsCreate(create'[q]) /\ create[q].pc = "begin"
  BY <1>1 DEF IInv, Shapes, IsCreate, ConsumeBinding
<1>6. Shapes'
  BY <1>1, <1>2, <1>4, <1>5 DEF IInv, Shapes
<1>7. BindingsAreFresh'
  BY <1>1 DEF IInv, BindingsAreFresh
<1>8. ProjectsAreNamed'
  BY <1>1, <1>5 DEF IInv, ProjectsAreNamed, Names
<1>9. OneTransaction'
  <2>1. \A k \in Projects : create[k].pc \notin InTransaction
    BY <1>2 DEF IInv, OneTransaction, NoTransaction
  <2>2. Opens(q)'
    BY <1>1, <1>2, <1>3, <1>4, <1>5 DEF Opens
  <2> QED BY <1>2, <1>5, <2>1, <2>2 DEF OneTransaction, InTransaction
<1> QED BY <1>6, <1>7, <1>8, <1>9 DEF IInv

\* The commit names its project on a binding no committed project is named on.
LEMMA CommitKeeps ==
  ASSUME IInv, NEW q \in Projects, CommitProject(q)
  PROVE  IInv'
<1> USE CreationAssumption
<1> DEFINE p == create[q].preview
<1>1. /\ db' = pending.rows /\ pending' = NoTransaction /\ UNCHANGED asked
      /\ create' = [create EXCEPT ![q].pc = "committed"]
      /\ create[q].pc = "commit"
  BY DEF CommitProject, CreateGoes
<1>2. pending.by = q /\ Opens(q)
  BY <1>1 DEF IInv, OneTransaction, InTransaction
<1>3. /\ \A k \in Projects \ {q} : create'[k] = create[k]
      /\ create'[q].pc = "committed" /\ create'[q].preview = p
      /\ IsCreate(create'[q])
  BY <1>1 DEF IInv, Shapes, IsCreate
<1>4. /\ DOMAIN db'.bindings = DOMAIN db.bindings
      /\ \A k \in DOMAIN db.bindings \ {p} : db'.bindings[k] = db.bindings[k]
      /\ p \in DOMAIN db.bindings /\ db'.bindings[p].consumed = q
      /\ db.bindings[p].consumed = NoProject
  BY <1>1, <1>2 DEF Opens, IInv, Shapes, IsDb, IsBinding
<1>5. Shapes'
  <2>1. IsDb(db') /\ IsDb(EmptyDb)
    BY <1>1 DEF IInv, Shapes, IsDb, EmptyDb, NoRows
  <2> QED BY <1>1, <1>3, <2>1 DEF IInv, Shapes, NoTransaction
<1>6. BindingsAreFresh'
  BY <1>1, <1>4 DEF IInv, BindingsAreFresh
<1>7. ProjectsAreNamed'
  <2>1. ASSUME NEW k \in DOMAIN db'.projects
        PROVE  /\ k \in Projects /\ create'[k].pc \in {"committed", "accepted", "lost"}
               /\ Names(k)'
    <3>1. CASE k = q
      BY <1>3, <1>4, <3>1 DEF Names
    <3>2. CASE k # q
      <4>1. k \in DOMAIN db.projects
        BY <1>1, <1>2, <3>2 DEF Opens
      <4>2. k \in Projects /\ create'[k] = create[k] /\ Names(k) /\ k # NoProject
        BY <1>3, <3>2, <4>1 DEF IInv, ProjectsAreNamed
      <4>3. create[k].preview # p
        BY <1>4, <4>2 DEF Names
      <4> QED BY <1>4, <4>1, <4>2, <4>3 DEF Names, IInv, ProjectsAreNamed
    <3> QED BY <3>1, <3>2
  <2> QED BY <2>1 DEF ProjectsAreNamed
<1>8. OneTransaction'
  BY <1>1, <1>2, <1>3 DEF IInv, OneTransaction, NoTransaction, InTransaction
<1> QED BY <1>5, <1>6, <1>7, <1>8 DEF IInv

\* A transaction that ends without a commit, by a statement that raises or by
\* a restart, leaves nothing open.
LEMMA AbandonKeeps ==
  ASSUME IInv, UNCHANGED db, pending' = NoTransaction,
         create' = [q \in Projects |-> create'[q]],
         asked' = [p \in Previews |-> asked'[p]],
         \A p \in Previews : IsAsked(asked'[p])
           /\ (asked[p].pc \notin {"none", "outlined"} =>
                 asked'[p].pc \notin {"none", "outlined"}),
         \A q \in Projects :
           /\ IsCreate(create'[q]) /\ create'[q].preview = create[q].preview
           /\ create'[q].pc \notin InTransaction
           /\ create[q].pc \in {"committed", "accepted", "lost"} =>
                create'[q].pc \in {"committed", "accepted", "lost"}
  PROVE  IInv'
<1> USE CreationAssumption
<1>1. Shapes'
  BY DEF IInv, Shapes, NoTransaction, EmptyDb, NoRows, IsDb
<1>2. BindingsAreFresh'
  BY DEF IInv, BindingsAreFresh
<1>3. ProjectsAreNamed'
  BY DEF IInv, ProjectsAreNamed, Names
<1>4. OneTransaction'
  BY DEF OneTransaction, NoTransaction
<1> QED BY <1>1, <1>2, <1>3, <1>4 DEF IInv
-----------------------------------------------------------------------------

\* The statements between the first and the commit.
LEMMA StatementsKeep ==
  ASSUME IInv, NEW q \in Projects,
         \/ InsertProject(q) \/ InsertSegments(q) \/ InsertGeneration(q)
         \/ InsertStages(q) \/ InsertWork(q)
  PROVE  IInv'
<1> USE DEF InTransaction
<1>1. CASE InsertProject(q)
  <2> DEFINE made == Insert(q, [owner    |-> create[q].owner,
                                duration |-> create[q].duration],
                            pending.rows.projects)
             spent == [pending.rows.previews EXCEPT ![create[q].preview].project = q]
             charged == [pending.rows.ledgers EXCEPT ![create[q].preview].project = q]
             first == [pending.rows EXCEPT !.projects = made]
             second == [first EXCEPT !.previews = spent]
             rows == [second EXCEPT !.ledgers = charged]
  <2>1. Statement(q, "project", "segments", rows)
    BY <1>1 DEF InsertProject
  <2>2. DOMAIN made \subseteq DOMAIN pending.rows.projects \union {q}
    BY DEF Insert
  <2> HIDE DEF made, spent, charged
  <2>3. /\ IsDb(rows) /\ rows.bindings = pending.rows.bindings
        /\ rows.projects = made
    <3>1. /\ IsDb(first) /\ first.bindings = pending.rows.bindings
          /\ first.projects = made
      BY DEF IInv, Shapes, IsDb
    <3> HIDE DEF first
    <3>2. /\ IsDb(second) /\ second.bindings = first.bindings
          /\ second.projects = first.projects
      BY <3>1 DEF IsDb
    <3> HIDE DEF second
    <3>3. /\ IsDb(rows) /\ rows.bindings = second.bindings
          /\ rows.projects = second.projects
      BY <3>2 DEF IsDb
    <3> QED BY <3>1, <3>2, <3>3
  <2> HIDE DEF rows
  <2> QED BY <2>1, <2>2, <2>3, StatementKeeps
<1>2. CASE InsertSegments(q)
  <2> DEFINE rows == [pending.rows EXCEPT
        !.segments = Insert(q, create[q].outline.sections, @)]
  <2>1. /\ IsDb(rows) /\ rows.bindings = pending.rows.bindings
        /\ rows.projects = pending.rows.projects
    BY DEF IInv, Shapes, IsDb
  <2>2. Statement(q, "segments", "generation", rows)
    BY <1>2 DEF InsertSegments
  <2> HIDE DEF rows
  <2> QED BY <2>1, <2>2, StatementKeeps
<1>3. CASE InsertGeneration(q)
  <2> DEFINE rows == [pending.rows EXCEPT !.generation = Insert(q,
        [outline |-> create[q].outline, snapshot |-> create[q].snapshot,
         planned |-> PlannedSegments(create[q].duration)], @)]
  <2>1. /\ IsDb(rows) /\ rows.bindings = pending.rows.bindings
        /\ rows.projects = pending.rows.projects
    BY DEF IInv, Shapes, IsDb
  <2>2. Statement(q, "generation", "stages", rows)
    BY <1>3 DEF InsertGeneration
  <2> HIDE DEF rows
  <2> QED BY <2>1, <2>2, StatementKeeps
<1>4. CASE InsertStages(q)
  <2> DEFINE rows == [pending.rows EXCEPT
        !.stages = Insert(q, StageRows(create[q].outline.sections), @)]
  <2>1. /\ IsDb(rows) /\ rows.bindings = pending.rows.bindings
        /\ rows.projects = pending.rows.projects
    BY DEF IInv, Shapes, IsDb
  <2>2. Statement(q, "stages", "work", rows)
    BY <1>4 DEF InsertStages
  <2> HIDE DEF rows
  <2> QED BY <2>1, <2>2, StatementKeeps
<1>5. CASE InsertWork(q)
  <2> DEFINE rows == [pending.rows EXCEPT !.work = Insert(q, "pending", @)]
  <2>1. /\ IsDb(rows) /\ rows.bindings = pending.rows.bindings
        /\ rows.projects = pending.rows.projects
    BY DEF IInv, Shapes, IsDb
  <2>2. Statement(q, "work", "commit", rows)
    BY <1>5 DEF InsertWork
  <2> HIDE DEF rows
  <2> QED BY <2>1, <2>2, StatementKeeps
<1> QED BY <1>1, <1>2, <1>3, <1>4, <1>5

\* What a request does before BEGIN and after COMMIT.
LEMMA OuterStepsKeep ==
  ASSUME IInv, NEW q \in Projects,
         \/ ReadClock(q) \/ RefuseProject(q) \/ AnswerProject(q)
         \/ \E p \in Previews, o \in Owners, d \in Durations, f \in Profiles :
              \E l \in Outlines : SubmitProject(q, p, o, d, f, l)
  PROVE  IInv'
<1> USE DEF InTransaction
<1>1. q \in DOMAIN db.projects => create[q].pc \in {"committed", "accepted", "lost"}
  BY DEF IInv, ProjectsAreNamed
<1>2. CASE ReadClock(q)
  <2>1. create'[q] = [create[q] EXCEPT !.pc = "begin",
                                       !.late = create[q].preview \in expired]
    BY <1>2 DEF ReadClock, IInv, Shapes
  <2>2. IsCreate(create'[q]) /\ create'[q].pc = "begin" /\ create[q].pc = "queued"
    BY <1>2, <2>1 DEF ReadClock, IInv, Shapes, IsCreate
  <2>3. create' = [create EXCEPT ![q] = create'[q]]
    BY <1>2, <2>1 DEF ReadClock
  <2>4. UNCHANGED <<db, pending, asked>>
    BY <1>2 DEF ReadClock
  <2> QED BY <1>1, <2>2, <2>3, <2>4, OutsideKeeps
<1>3. CASE RefuseProject(q)
  <2>1. create' = [create EXCEPT ![q].pc = Refusal(q)] /\ create[q].pc = "begin"
    BY <1>3 DEF RefuseProject, CreateGoes
  <2>2. Refusal(q) \notin InTransaction
    BY DEF Refusal
  <2> HIDE DEF InTransaction
  <2>3. /\ IsCreate(create'[q]) /\ create'[q].pc = Refusal(q)
        /\ create' = [create EXCEPT ![q] = create'[q]]
    BY <2>1 DEF IInv, Shapes, IsCreate
  <2>4. UNCHANGED <<db, pending, asked>>
    BY <1>3 DEF RefuseProject
  <2>5. create[q].pc \notin InTransaction
    BY <2>1 DEF InTransaction
  <2> QED BY <1>1, <2>1, <2>2, <2>3, <2>4, <2>5, OutsideKeeps
<1>4. CASE AnswerProject(q)
  <2>1. create' = [create EXCEPT ![q].pc = "accepted"] /\ create[q].pc = "committed"
    BY <1>4 DEF AnswerProject, CreateGoes
  <2>2. /\ IsCreate(create'[q]) /\ create'[q].pc = "accepted"
        /\ create'[q].preview = create[q].preview
        /\ create' = [create EXCEPT ![q] = create'[q]]
    BY <2>1 DEF IInv, Shapes, IsCreate
  <2>3. UNCHANGED <<db, pending, asked>>
    BY <1>4 DEF AnswerProject
  <2> QED BY <2>1, <2>2, <2>3, OutsideKeeps
<1>5. ASSUME NEW p \in Previews, NEW o \in Owners, NEW d \in Durations,
             NEW f \in Profiles, NEW l \in Outlines, SubmitProject(q, p, o, d, f, l)
      PROVE  IInv'
  <2>1. /\ create[q].pc = "none" /\ create' = [create EXCEPT ![q] = create'[q]]
        /\ IsCreate(create'[q])
        /\ create'[q].pc \in {"queued", "preview_binding_not_found"}
    BY <1>5 DEF SubmitProject, IInv, Shapes, IsCreate
  <2>2. UNCHANGED <<db, pending, asked>>
    BY <1>5 DEF SubmitProject
  <2> QED BY <1>1, <2>1, <2>2, OutsideKeeps
<1> QED BY <1>2, <1>3, <1>4, <1>5

\* A statement that raises, or BEGIN itself.
LEMMA FailKeeps ==
  ASSUME IInv, NEW q \in Projects, FailProject(q)
  PROVE  IInv'
<1>1. UNCHANGED <<db, asked>> /\ create' = [create EXCEPT ![q].pc = "error"]
  BY DEF FailProject, CreateGoes
<1>2. /\ create'[q].pc = "error" /\ IsCreate(create'[q])
      /\ create'[q].preview = create[q].preview
      /\ create' = [create EXCEPT ![q] = create'[q]]
      /\ \A k \in Projects \ {q} : create'[k] = create[k]
  BY <1>1 DEF IInv, Shapes, IsCreate
<1>3. create[q].pc \notin {"committed", "accepted", "lost"}
  BY DEF FailProject, OnExecutor, InTransaction
<1>4. CASE pending.by = q
  <2>1. pending' = NoTransaction
    BY <1>4 DEF FailProject
  <2>2. \A k \in Projects : create'[k].pc \notin InTransaction
    BY <1>2, <1>4 DEF IInv, OneTransaction, InTransaction
  <2>3. \A k \in Projects : IsCreate(create'[k]) /\ create'[k].preview = create[k].preview
    BY <1>2 DEF IInv, Shapes
  <2>4. create' = [k \in Projects |-> create'[k]]
    BY <1>1 DEF IInv, Shapes
  <2>5. \A k \in Projects : create[k].pc \in {"committed", "accepted", "lost"} =>
                              create'[k].pc \in {"committed", "accepted", "lost"}
    BY <1>2, <1>3
  <2>6. asked' = [p \in Previews |-> asked'[p]] /\ \A p \in Previews : IsAsked(asked'[p])
    BY <1>1 DEF IInv, Shapes
  <2> QED BY <1>1, <2>1, <2>2, <2>3, <2>4, <2>5, <2>6, AbandonKeeps
<1>5. CASE pending.by # q
  <2>1. UNCHANGED <<db, pending, asked>>
    BY <1>1, <1>5 DEF FailProject
  <2>2. create[q].pc \notin InTransaction
    BY <1>5 DEF IInv, OneTransaction
  <2>3. create'[q].pc \notin InTransaction
    BY <1>2 DEF InTransaction
  <2>4. q \notin DOMAIN db.projects
    BY <1>3 DEF IInv, ProjectsAreNamed
  <2> QED BY <1>2, <2>1, <2>2, <2>3, <2>4, OutsideKeeps
<1> QED BY <1>4, <1>5

\* The process comes back with what is committed and nothing open.
LEMMA RestartKeeps ==
  ASSUME IInv, NEW r \in Revisions, Restart(r)
  PROVE  IInv'
<1>1. UNCHANGED db /\ pending' = NoTransaction
  BY DEF Restart
<1>2. asked' = [p \in Previews |->
       IF asked[p].pc \in {"outlined", "bound", "stored"}
       THEN [asked[p] EXCEPT !.pc = "failed"] ELSE asked[p]]
  BY DEF Restart
<1>3. create' = [q \in Projects |->
       IF create[q].pc \in OnExecutor \union {"queued", "committed"}
       THEN [create[q] EXCEPT !.pc = "lost"] ELSE create[q]]
  BY DEF Restart
<1>4. asked' = [p \in Previews |-> asked'[p]] /\ create' = [q \in Projects |-> create'[q]]
  BY <1>2, <1>3
<1>5. \A p \in Previews :
        IsAsked(asked'[p]) /\ (asked[p].pc \notin {"none", "outlined"} =>
                                 asked'[p].pc \notin {"none", "outlined"})
  BY <1>2 DEF IInv, Shapes, IsAsked
<1>6. \A q \in Projects :
        /\ IsCreate(create'[q]) /\ create'[q].preview = create[q].preview
        /\ create'[q].pc = IF create[q].pc \in OnExecutor \union {"queued", "committed"}
                           THEN "lost" ELSE create[q].pc
  BY <1>3 DEF IInv, Shapes, IsCreate
<1>7. \A q \in Projects :
        /\ IsCreate(create'[q]) /\ create'[q].preview = create[q].preview
        /\ create'[q].pc \notin InTransaction
        /\ create[q].pc \in {"committed", "accepted", "lost"} =>
             create'[q].pc \in {"committed", "accepted", "lost"}
  BY <1>6 DEF OnExecutor, InTransaction
<1> QED BY <1>1, <1>4, <1>5, <1>7, AbandonKeeps

\* Every step keeps the inductive invariant.
LEMMA IInvNext == IInv /\ [Next]_vars => IInv'
<1> SUFFICES ASSUME IInv, [Next]_vars PROVE IInv'
  OBVIOUS
<1>1. ASSUME NEW p \in Previews, PreviewStep(p) PROVE IInv'
  BY <1>1, PreviewKeeps
<1>2. ASSUME NEW q \in Projects, ProjectStep(q) PROVE IInv'
  <2>1. CASE ReadClock(q) \/ RefuseProject(q) \/ AnswerProject(q)
    BY <2>1, OuterStepsKeep
  <2>2. CASE ConsumeBinding(q)
    BY <2>2, OpeningKeeps
  <2>3. CASE InsertProject(q) \/ InsertSegments(q) \/ InsertGeneration(q)
             \/ InsertStages(q) \/ InsertWork(q)
    BY <2>3, StatementsKeep
  <2>4. CASE CommitProject(q)
    BY <2>4, CommitKeeps
  <2>5. CASE FailProject(q)
    BY <2>5, FailKeeps
  <2> QED BY <1>2, <2>1, <2>2, <2>3, <2>4, <2>5 DEF ProjectStep
<1>3. ASSUME NEW p \in Previews, NEW o \in Owners, NEW d \in Durations,
             NEW f \in Profiles, NEW w \in Wordings,
             PreviewProjectOutline(p, o, d, f, w)
      PROVE  IInv'
  BY <1>3, PreviewKeeps
<1>4. ASSUME NEW q \in Projects, NEW p \in Previews, NEW o \in Owners,
             NEW d \in Durations, NEW f \in Profiles, NEW l \in Outlines,
             SubmitProject(q, p, o, d, f, l)
      PROVE  IInv'
  BY <1>4, OuterStepsKeep
<1>5. ASSUME NEW r \in Revisions, Restart(r) PROVE IInv'
  BY <1>5, RestartKeeps
<1>6. CASE UNCHANGED vars
  <2>1. UNCHANGED <<db, pending, asked, create>>
    BY <1>6 DEF vars
  <2>2. Shapes'
    BY <2>1 DEF IInv, Shapes
  <2>3. BindingsAreFresh' /\ ProjectsAreNamed'
    BY <2>1 DEF IInv, BindingsAreFresh, ProjectsAreNamed, Names
  <2>4. OneTransaction'
    BY <2>1 DEF IInv, OneTransaction, Opens
  <2> QED BY <2>2, <2>3, <2>4 DEF IInv
<1> QED BY <1>1, <1>2, <1>3, <1>4, <1>5, <1>6 DEF Next

\* A preview becomes at most one project (persistence.py:579-612): two projects
\* of one preview would both be named by its one binding.
THEOREM OnePerPreview == Spec => []OneProjectPerPreview
<1>1. IInv => OneProjectPerPreview
  BY DEF IInv, ProjectsAreNamed, Names, OneProjectPerPreview
<1> QED BY <1>1, IInvInit, IInvNext, PTL DEF Spec

-----------------------------------------------------------------------------
(***************************************************************************)
(* What is stored, and what the open transaction will make of it.  A       *)
(* project is whole because the rows that its transaction sees before the  *)
(* commit are those of the database and, table by table, its own; it runs  *)
(* as previewed because the checks compared it with rows that nobody may   *)
(* write until it ends.                                                    *)
(***************************************************************************)

\* What the connection sees after each of the statements, by the one that is
\* next: r is the request of project q.
AtProject(q, r) == [db EXCEPT !.bindings[r.preview].consumed = q]

AtSegments(q, r) ==
  [AtProject(q, r) EXCEPT
     !.projects = Insert(q, [owner |-> r.owner, duration |-> r.duration], @),
     !.previews[r.preview].project = q,
     !.ledgers[r.preview].project = q]

AtGeneration(q, r) ==
  [AtSegments(q, r) EXCEPT !.segments = Insert(q, r.outline.sections, @)]

AtStages(q, r) ==
  [AtGeneration(q, r) EXCEPT !.generation = Insert(q,
     [outline |-> r.outline, snapshot |-> r.snapshot,
      planned |-> PlannedSegments(r.duration)], @)]

AtWork(q, r) ==
  [AtStages(q, r) EXCEPT !.stages = Insert(q, StageRows(r.outline.sections), @)]

AtCommit(q, r) == [AtWork(q, r) EXCEPT !.work = Insert(q, "pending", @)]

\* The transaction of q has written its statements so far and no other's.
Written(q) ==
  LET r == create[q] IN
  /\ r.pc = "project"    => pending.rows = AtProject(q, r)
  /\ r.pc = "segments"   => pending.rows = AtSegments(q, r)
  /\ r.pc = "generation" => pending.rows = AtGeneration(q, r)
  /\ r.pc = "stages"     => pending.rows = AtStages(q, r)
  /\ r.pc = "work"       => pending.rows = AtWork(q, r)
  /\ r.pc = "commit"     => pending.rows = AtCommit(q, r)

\* The checks of q passed, and what they compared is still so.
Accepted(q) ==
  LET r == create[q] p == create[q].preview IN
  /\ p \in DOMAIN db.bindings /\ p \in DOMAIN db.previews
  /\ db.bindings[p].owner = r.owner /\ db.bindings[p].duration = r.duration
  /\ db.bindings[p].outline = r.outline
  /\ db.previews[p].snapshot = r.snapshot

Transaction ==
  /\ pending.by = NoProject => pending = NoTransaction
  /\ \A q \in Projects : pending.by = q => Accepted(q) /\ Written(q)

IsPreview(v) == v = [owner |-> v.owner, snapshot |-> v.snapshot, project |-> v.project]
IsLedger(l)  == l = [snapshot |-> l.snapshot, project |-> l.project]

DbTyped ==
  /\ DOMAIN db.bindings \subseteq Previews /\ DOMAIN db.previews \subseteq Previews
  /\ DOMAIN db.ledgers = DOMAIN db.previews
  /\ \A p \in DOMAIN db.bindings : db.bindings[p].consumed \in Projects \union {NoProject}
  /\ \A p \in DOMAIN db.previews : IsPreview(db.previews[p]) /\ IsLedger(db.ledgers[p])
  /\ /\ DOMAIN db.projects \subseteq Projects /\ DOMAIN db.segments \subseteq Projects
     /\ DOMAIN db.generation \subseteq Projects /\ DOMAIN db.stages \subseteq Projects
     /\ DOMAIN db.work \subseteq Projects

\* The rows of a preview say what was asked and resolved for it.
AsAsked ==
  /\ \A p \in DOMAIN db.bindings :
       /\ db.bindings[p].duration = asked[p].duration
       /\ db.bindings[p].outline = OutlineOf(p)
  /\ \A p \in DOMAIN db.previews :
       /\ asked[p].pc \notin {"none", "outlined", "bound"}
       /\ db.previews[p].snapshot = asked[p].snapshot
       /\ db.ledgers[p].snapshot = asked[p].snapshot

\* The rows of a project say what its preview says.
AsPreviewed ==
  \A q \in DOMAIN db.generation :
    LET p == create[q].preview IN
    /\ p \in DOMAIN db.bindings /\ db.bindings[p].consumed = q
    /\ p \in DOMAIN db.previews
    /\ db.bindings[p].owner = db.projects[q].owner
    /\ db.bindings[p].outline = db.generation[q].outline
    /\ db.generation[q].snapshot = asked[p].snapshot

Stored == DbTyped /\ ProjectsAreWhole /\ PreviewRecordsAgree /\ AsAsked /\ AsPreviewed

RequestsTyped ==
  /\ \A p \in Previews : asked[p].snapshot \in Snapshots \union {NoSnapshot}
  /\ \A q \in Projects : create[q].snapshot \in Snapshots \union {NoSnapshot}
  /\ expired \subseteq Previews /\ revision \in Revisions
  /\ faults \in 0 .. MaxFaults /\ restarts \in 0 .. MaxRestarts

WholeInv == IInv /\ Stored /\ Transaction /\ RequestsTyped
-----------------------------------------------------------------------------

HasRows(q) ==
  /\ q \in DOMAIN db.projects /\ q \in DOMAIN db.segments /\ q \in DOMAIN db.generation
  /\ q \in DOMAIN db.stages /\ q \in DOMAIN db.work

HasNoRow(q) ==
  /\ q \notin DOMAIN db.projects /\ q \notin DOMAIN db.segments
  /\ q \notin DOMAIN db.generation /\ q \notin DOMAIN db.stages
  /\ q \notin DOMAIN db.work

IsWhole(q) ==
  LET n == PlannedSegments(create[q].duration)
  IN \/ create[q].pc \notin {"committed", "accepted"} /\ HasNoRow(q)
     \/ /\ HasRows(q)
        /\ db.segments[q] = n /\ db.stages[q] = StageRows(n)
        /\ db.generation[q].planned = n /\ db.work[q] = "pending"

\* The tables of a project, one by one.
LEMMA WholeByTable ==
  /\ ProjectsAreWhole <=> \A q \in Projects : IsWhole(q)
  /\ ProjectsAreWhole' <=> \A q \in Projects : IsWhole(q)'
<1>1. \A q : (\A t \in ProjectTables : q \in DOMAIN db[t]) <=> HasRows(q)
  BY DEF ProjectTables, HasRows
<1>2. \A q : (\A t \in ProjectTables : q \notin DOMAIN db[t]) <=> HasNoRow(q)
  BY DEF ProjectTables, HasNoRow
<1>3. \A q : (\A t \in ProjectTables : q \in DOMAIN db'[t]) <=> HasRows(q)'
  BY DEF ProjectTables, HasRows
<1>4. \A q : (\A t \in ProjectTables : q \notin DOMAIN db'[t]) <=> HasNoRow(q)'
  BY DEF ProjectTables, HasNoRow
<1> QED BY <1>1, <1>2, <1>3, <1>4 DEF ProjectsAreWhole, IsWhole

\* A step that stores nothing, forgets nothing of a request that has stored
\* something and tells nobody of a project that is not there.
LEMMA StoredIsKept ==
  ASSUME IInv, Stored, UNCHANGED db,
         \A p \in Previews :
           /\ asked[p].pc \notin {"none", "outlined"} =>
                /\ asked'[p].duration = asked[p].duration
                /\ asked'[p].wording = asked[p].wording
                /\ asked'[p].snapshot = asked[p].snapshot
           /\ asked[p].pc \notin {"none", "outlined", "bound"} =>
                asked'[p].pc \notin {"none", "outlined", "bound"},
         \A q \in Projects :
           /\ q \in DOMAIN db.projects =>
                /\ create'[q].preview = create[q].preview
                /\ create'[q].duration = create[q].duration
           /\ create'[q].pc \in {"committed", "accepted"} =>
                create[q].pc \in {"committed", "accepted"}
  PROVE  Stored'
<1> USE DEF Stored
<1>1. DbTyped' /\ PreviewRecordsAgree'
  BY DEF DbTyped, PreviewRecordsAgree
<1>2. ProjectsAreWhole'
  <2> SUFFICES ASSUME NEW q \in Projects PROVE IsWhole(q)'
    BY WholeByTable
  <2>1. IsWhole(q)
    BY WholeByTable
  <2>2. (HasRows(q) <=> HasRows(q)') /\ (HasNoRow(q) <=> HasNoRow(q)')
    BY DEF HasRows, HasNoRow
  <2>3. CASE HasRows(q)
    <3>1. create'[q].duration = create[q].duration
      BY <2>3 DEF HasRows
    <3> QED BY <2>1, <2>2, <2>3, <3>1 DEF IsWhole, HasRows, HasNoRow
  <2>4. CASE ~HasRows(q)
    BY <2>1, <2>2, <2>4 DEF IsWhole
  <2> QED BY <2>3, <2>4
<1>3. AsAsked'
  BY DEF AsAsked, IInv, BindingsAreFresh, OutlineOf, DbTyped
<1>4. AsPreviewed'
  <2> SUFFICES ASSUME NEW q \in DOMAIN db.generation
               PROVE  LET p == create'[q].preview IN
                      /\ p \in DOMAIN db.bindings /\ db.bindings[p].consumed = q
                      /\ p \in DOMAIN db.previews
                      /\ db.bindings[p].owner = db.projects[q].owner
                      /\ db.bindings[p].outline = db.generation[q].outline
                      /\ db.generation[q].snapshot = asked'[p].snapshot
    BY DEF AsPreviewed
  <2>1. q \in Projects /\ q \in DOMAIN db.projects
    BY WholeByTable DEF DbTyped, IsWhole, HasRows, HasNoRow
  <2>2. create'[q].preview = create[q].preview
    BY <2>1
  <2>3. asked'[create[q].preview].snapshot = asked[create[q].preview].snapshot
    BY DEF AsPreviewed, AsAsked, DbTyped
  <2> QED BY <2>2, <2>3 DEF AsPreviewed
<1> QED BY <1>1, <1>2, <1>3, <1>4

\* The rows of the transaction depend on what is stored and on what was
\* submitted, not on where the request is.
LEMMA TransactionIsKept ==
  ASSUME NEW q \in Projects, Accepted(q), UNCHANGED db, create'[q] = create[q],
         Written(q), UNCHANGED pending
  PROVE  Accepted(q)' /\ Written(q)'
BY DEF Accepted, Written, AtProject, AtSegments, AtGeneration, AtStages, AtWork, AtCommit

\* While a transaction is open nobody else writes.
LEMMA NobodyElseWrites ==
  ASSUME Transaction, IInv, UNCHANGED <<db, pending>>,
         \A q \in Projects : pending.by = q => create'[q] = create[q]
  PROVE  Transaction'
BY TransactionIsKept DEF Transaction

\* A binding's row is new, and nothing else of its preview is stored yet.
LEMMA BindingIsStored ==
  ASSUME WholeInv, NEW p \in Previews, CreateOutlinePreviewBinding(p)
  PROVE  Stored' /\ Transaction'
<1> USE DEF WholeInv, Stored
<1> DEFINE row == [owner |-> asked[p].owner, duration |-> asked[p].duration,
                   outline |-> OutlineOf(p), profile |-> asked[p].snapshot.profile,
                   consumed |-> NoProject]
<1>1. /\ UNCHANGED <<pending, create>> /\ pending = NoTransaction
      /\ asked' = [asked EXCEPT ![p].pc = "bound"] /\ asked[p].pc = "outlined"
      /\ db' = [db EXCEPT !.bindings = Insert(p, row, db.bindings)]
  BY DEF CreateOutlinePreviewBinding, LockFree, AskedGoes
<1>2. p \notin DOMAIN db.bindings /\ p \notin DOMAIN db.previews
  BY <1>1 DEF IInv, BindingsAreFresh, AsAsked
<1>3. /\ row.consumed = NoProject /\ row.duration = asked[p].duration
      /\ row.outline = OutlineOf(p)
  OBVIOUS
<1> HIDE DEF row
<1>4. /\ db'.bindings = Insert(p, row, db.bindings)
      /\ db'.previews = db.previews /\ db'.ledgers = db.ledgers
      /\ db'.projects = db.projects /\ db'.segments = db.segments
      /\ db'.generation = db.generation /\ db'.stages = db.stages /\ db'.work = db.work
  BY <1>1 DEF IInv, Shapes, IsDb
<1>5. /\ DOMAIN db'.bindings = DOMAIN db.bindings \union {p}
      /\ \A k \in DOMAIN db.bindings : db'.bindings[k] = db.bindings[k]
      /\ db'.bindings[p] = row
  BY <1>2, <1>4 DEF Insert
<1>6. \A k \in Previews :
        /\ asked'[k].duration = asked[k].duration /\ asked'[k].wording = asked[k].wording
        /\ asked'[k].snapshot = asked[k].snapshot
        /\ asked[k].pc \notin {"none", "outlined", "bound"} => asked'[k].pc = asked[k].pc
  BY <1>1 DEF IInv, Shapes, IsAsked
<1>7. DbTyped'
  BY <1>3, <1>4, <1>5 DEF DbTyped
<1>8. ProjectsAreWhole'
  BY <1>1, <1>4, WholeByTable DEF IsWhole, HasRows, HasNoRow
<1>9. PreviewRecordsAgree'
  BY <1>2, <1>3, <1>4, <1>5 DEF PreviewRecordsAgree
<1>10. AsAsked'
  <2>1. \A k \in Previews : OutlineOf(k)' = OutlineOf(k)
    BY <1>6 DEF OutlineOf
  <2>2. \A k \in DOMAIN db'.bindings :
          /\ db'.bindings[k].duration = asked'[k].duration
          /\ db'.bindings[k].outline = OutlineOf(k)'
    <3>1. p \in Previews /\ DOMAIN db.bindings \subseteq Previews
      BY DEF DbTyped
    <3> QED BY <1>3, <1>5, <1>6, <2>1, <3>1 DEF AsAsked
  <2>3. \A k \in DOMAIN db'.previews :
          /\ asked'[k].pc \notin {"none", "outlined", "bound"}
          /\ db'.previews[k].snapshot = asked'[k].snapshot
          /\ db'.ledgers[k].snapshot = asked'[k].snapshot
    BY <1>4, <1>6 DEF AsAsked, DbTyped
  <2> QED BY <2>2, <2>3 DEF AsAsked
<1>11. AsPreviewed'
  <2>1. \A k \in DOMAIN db.previews : k \in Previews
    BY DEF DbTyped
  <2> QED BY <1>1, <1>4, <1>5, <1>6, <2>1 DEF AsPreviewed
<1>12. Transaction'
  <2>1. pending.by = NoProject
    BY <1>1 DEF NoTransaction
  <2> QED BY <1>1, <2>1, CreationAssumption DEF Transaction
<1> QED BY <1>7, <1>8, <1>9, <1>10, <1>11, <1>12

\* The durable preview and its ledger come together, unspent, under the
\* snapshots that were resolved.
LEMMA PreviewIsStored ==
  ASSUME WholeInv, NEW p \in Previews, CreatePreviewBinding(p)
  PROVE  Stored' /\ Transaction'
<1> USE DEF WholeInv, Stored
<1> DEFINE ledger == [snapshot |-> asked[p].snapshot, project |-> NoProject]
           row == [owner |-> asked[p].owner, snapshot |-> asked[p].snapshot,
                   project |-> NoProject]
           first == [db EXCEPT !.ledgers = Insert(p, ledger, db.ledgers)]
<1>1. /\ UNCHANGED <<pending, create>> /\ pending = NoTransaction
      /\ asked' = [asked EXCEPT ![p].pc = "stored"] /\ asked[p].pc = "bound"
      /\ db' = [first EXCEPT !.previews = Insert(p, row, first.previews)]
  BY DEF CreatePreviewBinding, LockFree, AskedGoes
<1>2. p \notin DOMAIN db.previews
  BY <1>1 DEF AsAsked
<1>3. /\ IsPreview(row) /\ row.project = NoProject /\ row.snapshot = asked[p].snapshot
      /\ IsLedger(ledger) /\ ledger.project = NoProject
      /\ ledger.snapshot = asked[p].snapshot
  BY DEF IsPreview, IsLedger
<1> HIDE DEF row, ledger
<1>4. /\ IsDb(first) /\ first.ledgers = Insert(p, ledger, db.ledgers)
      /\ first.bindings = db.bindings /\ first.previews = db.previews
      /\ first.projects = db.projects /\ first.segments = db.segments
      /\ first.generation = db.generation /\ first.stages = db.stages
      /\ first.work = db.work
  BY DEF IInv, Shapes, IsDb
<1> HIDE DEF first
<1>5. /\ db'.previews = Insert(p, row, db.previews)
      /\ db'.ledgers = Insert(p, ledger, db.ledgers) /\ db'.bindings = db.bindings
      /\ db'.projects = db.projects /\ db'.segments = db.segments
      /\ db'.generation = db.generation /\ db'.stages = db.stages /\ db'.work = db.work
  BY <1>1, <1>4 DEF IsDb
<1>6. /\ DOMAIN db'.previews = DOMAIN db.previews \union {p}
      /\ DOMAIN db'.ledgers = DOMAIN db'.previews
      /\ \A k \in DOMAIN db.previews :
           db'.previews[k] = db.previews[k] /\ db'.ledgers[k] = db.ledgers[k]
      /\ db'.previews[p] = row /\ db'.ledgers[p] = ledger
  BY <1>2, <1>5 DEF Insert, DbTyped
<1>7. \A k \in Previews :
        /\ asked'[k].duration = asked[k].duration /\ asked'[k].wording = asked[k].wording
        /\ asked'[k].snapshot = asked[k].snapshot
        /\ asked'[k].pc = IF k = p THEN "stored" ELSE asked[k].pc
  BY <1>1 DEF IInv, Shapes, IsAsked
<1>8. DbTyped'
  BY <1>3, <1>5, <1>6 DEF DbTyped
<1>9. ProjectsAreWhole'
  BY <1>1, <1>5, WholeByTable DEF IsWhole, HasRows, HasNoRow
<1>10. PreviewRecordsAgree'
  <2>1. p \in DOMAIN db.bindings => db.bindings[p].consumed = NoProject
    BY <1>2 DEF PreviewRecordsAgree
  <2> QED BY <1>3, <1>5, <1>6, <2>1 DEF PreviewRecordsAgree
<1>11. AsAsked'
  <2>1. \A k \in Previews : OutlineOf(k)' = OutlineOf(k)
    BY <1>7 DEF OutlineOf
  <2>2. \A k \in DOMAIN db'.bindings :
          /\ db'.bindings[k].duration = asked'[k].duration
          /\ db'.bindings[k].outline = OutlineOf(k)'
    BY <1>5, <1>7, <2>1 DEF AsAsked, DbTyped
  <2>3. \A k \in DOMAIN db'.previews :
          /\ asked'[k].pc \notin {"none", "outlined", "bound"}
          /\ db'.previews[k].snapshot = asked'[k].snapshot
          /\ db'.ledgers[k].snapshot = asked'[k].snapshot
    <3>1. p \in Previews /\ DOMAIN db.previews \subseteq Previews
      BY DEF DbTyped
    <3> QED BY <1>3, <1>6, <1>7, <3>1 DEF AsAsked
  <2> QED BY <2>2, <2>3 DEF AsAsked
<1>12. AsPreviewed'
  <2>1. \A k \in DOMAIN db.previews : k \in Previews
    BY DEF DbTyped
  <2> QED BY <1>1, <1>5, <1>6, <1>7, <2>1 DEF AsPreviewed
<1>13. Transaction'
  <2>1. pending.by = NoProject
    BY <1>1 DEF NoTransaction
  <2> QED BY <1>1, <2>1, CreationAssumption DEF Transaction
<1> QED BY <1>8, <1>9, <1>10, <1>11, <1>12, <1>13
-----------------------------------------------------------------------------

\* Steps that store nothing and are in no transaction.
LEMMA OutsideStores ==
  ASSUME WholeInv, NEW q \in Projects, UNCHANGED <<db, pending, asked>>,
         \A k \in Projects \ {q} : create'[k] = create[k],
         create[q].pc \notin InTransaction,
         create'[q].pc \in {"committed", "accepted"} =>
           create[q].pc \in {"committed", "accepted"},
         q \in DOMAIN db.projects =>
           /\ create'[q].preview = create[q].preview
           /\ create'[q].duration = create[q].duration
  PROVE  Stored' /\ Transaction'
<1>1. pending.by # q
  BY DEF WholeInv, IInv, OneTransaction
<1>2. Transaction'
  BY <1>1, NobodyElseWrites DEF WholeInv
<1>3. Stored'
  BY StoredIsKept DEF WholeInv
<1> QED BY <1>2, <1>3

LEMMA OuterStepsStore ==
  ASSUME WholeInv, NEW q \in Projects,
         \/ ReadClock(q) \/ RefuseProject(q) \/ AnswerProject(q)
         \/ \E p \in Previews, o \in Owners, d \in Durations, f \in Profiles :
              \E l \in Outlines : SubmitProject(q, p, o, d, f, l)
  PROVE  Stored' /\ Transaction'
<1> USE DEF InTransaction
<1>1. q \in DOMAIN db.projects => create[q].pc \in {"committed", "accepted", "lost"}
  BY DEF WholeInv, IInv, ProjectsAreNamed
<1>2. /\ IsCreate(create[q]) /\ create = [k \in Projects |-> create[k]]
  BY DEF WholeInv, IInv, Shapes
<1>3. CASE ReadClock(q)
  <2>1. create[q].pc = "queued" /\ UNCHANGED <<db, pending, asked>>
    BY <1>3 DEF ReadClock
  <2>2. /\ create'[q] = [create[q] EXCEPT !.pc = "begin",
                                          !.late = create[q].preview \in expired]
        /\ \A k \in Projects \ {q} : create'[k] = create[k]
    BY <1>2, <1>3 DEF ReadClock
  <2>3. create'[q].pc = "begin"
    BY <1>2, <2>2 DEF IsCreate
  <2> QED BY <1>1, <2>1, <2>2, <2>3, OutsideStores
<1>4. CASE RefuseProject(q)
  <2>1. create' = [create EXCEPT ![q].pc = Refusal(q)] /\ create[q].pc = "begin"
        /\ UNCHANGED <<db, pending, asked>>
    BY <1>4 DEF RefuseProject, CreateGoes
  <2>2. Refusal(q) \notin {"committed", "accepted"}
    <3>1. Refusal(q) \in {"preview_binding_not_found", "preview_binding_consumed",
                          "preview_binding_expired", "preview_binding_mismatch", "accepted"}
      BY DEF Refusal
    <3> QED BY <1>4, <3>1 DEF RefuseProject
  <2>3. /\ create'[q].pc = Refusal(q)
        /\ \A k \in Projects \ {q} : create'[k] = create[k]
    BY <1>2, <2>1 DEF IsCreate
  <2> QED BY <1>1, <2>1, <2>2, <2>3, OutsideStores
<1>5. CASE AnswerProject(q)
  <2>1. create' = [create EXCEPT ![q].pc = "accepted"] /\ create[q].pc = "committed"
        /\ UNCHANGED <<db, pending, asked>>
    BY <1>5 DEF AnswerProject, CreateGoes
  <2>2. /\ create'[q].preview = create[q].preview
        /\ create'[q].duration = create[q].duration
        /\ \A k \in Projects \ {q} : create'[k] = create[k]
    BY <1>2, <2>1 DEF IsCreate
  <2> QED BY <2>1, <2>2, OutsideStores
<1>6. ASSUME NEW p \in Previews, NEW o \in Owners, NEW d \in Durations,
             NEW f \in Profiles, NEW l \in Outlines, SubmitProject(q, p, o, d, f, l)
      PROVE  Stored' /\ Transaction'
  <2>1. /\ create[q].pc = "none" /\ UNCHANGED <<db, pending, asked>>
        /\ create'[q].pc \in {"queued", "preview_binding_not_found"}
        /\ \A k \in Projects \ {q} : create'[k] = create[k]
    BY <1>2, <1>6 DEF SubmitProject
  <2> QED BY <1>1, <2>1, OutsideStores
<1> QED BY <1>3, <1>4, <1>5, <1>6

LEMMA PreviewsStore ==
  ASSUME WholeInv, NEW p \in Previews,
         \/ PreviewStep(p)
         \/ \E o \in Owners, d \in Durations, f \in Profiles, w \in Wordings :
              PreviewProjectOutline(p, o, d, f, w)
  PROVE  Stored' /\ Transaction'
<1>1. CASE CreateOutlinePreviewBinding(p) \/ CreatePreviewBinding(p)
  BY <1>1, BindingIsStored, PreviewIsStored
<1>2. /\ asked = [k \in Previews |-> asked[k]] /\ IsAsked(asked[p])
  BY DEF WholeInv, IInv, Shapes
<1>3. ASSUME UNCHANGED <<db, pending, create>>,
             \A k \in Previews \ {p} : asked'[k] = asked[k],
             \/ asked[p].pc \in {"none", "outlined", "bound"}
             \/ asked'[p].pc \notin {"none", "outlined", "bound"},
             \/ asked[p].pc \in {"none", "outlined"}
             \/ /\ asked'[p].duration = asked[p].duration
                /\ asked'[p].wording = asked[p].wording
                /\ asked'[p].snapshot = asked[p].snapshot
      PROVE  Stored' /\ Transaction'
  <2>1. Stored'
    BY <1>3, StoredIsKept DEF WholeInv
  <2>2. Transaction'
    BY <1>3, NobodyElseWrites DEF WholeInv
  <2> QED BY <2>1, <2>2
<1>4. ASSUME NEW pc \in {"answered", "failed"}, asked' = [asked EXCEPT ![p].pc = pc],
             UNCHANGED <<db, pending, create>>
      PROVE  Stored' /\ Transaction'
  <2>1. /\ asked'[p].pc = pc /\ asked'[p].duration = asked[p].duration
        /\ asked'[p].wording = asked[p].wording
        /\ asked'[p].snapshot = asked[p].snapshot
        /\ \A k \in Previews \ {p} : asked'[k] = asked[k]
    BY <1>2, <1>4 DEF IsAsked
  <2> QED BY <1>3, <1>4, <2>1
<1>5. CASE AnswerPreview(p) \/ FailPreview(p)
  BY <1>4, <1>5 DEF AnswerPreview, FailPreview, AskedGoes
<1>6. CASE Expire(p)
  BY <1>3, <1>6 DEF Expire
<1>7. ASSUME NEW o \in Owners, NEW d \in Durations, NEW f \in Profiles,
             NEW w \in Wordings, PreviewProjectOutline(p, o, d, f, w)
      PROVE  Stored' /\ Transaction'
  BY <1>2, <1>3, <1>7 DEF PreviewProjectOutline
<1> QED BY <1>1, <1>5, <1>6, <1>7 DEF PreviewStep
-----------------------------------------------------------------------------

\* What a request says of its project does not change with its place.
SameRequest(r, s) ==
  /\ s.preview = r.preview /\ s.owner = r.owner /\ s.duration = r.duration
  /\ s.outline = r.outline /\ s.snapshot = r.snapshot

LEMMA RowsOfTheRequest ==
  ASSUME NEW q \in Projects, UNCHANGED db, SameRequest(create[q], create'[q])
  PROVE  /\ AtProject(q, create[q])' = AtProject(q, create[q])
         /\ AtSegments(q, create[q])' = AtSegments(q, create[q])
         /\ AtGeneration(q, create[q])' = AtGeneration(q, create[q])
         /\ AtStages(q, create[q])' = AtStages(q, create[q])
         /\ AtWork(q, create[q])' = AtWork(q, create[q])
         /\ AtCommit(q, create[q])' = AtCommit(q, create[q])
         /\ Accepted(q) => Accepted(q)'
<1> USE DEF SameRequest
<1>1. AtProject(q, create[q])' = AtProject(q, create[q])
  BY DEF AtProject
<1>2. AtSegments(q, create[q])' = AtSegments(q, create[q])
  BY <1>1 DEF AtSegments
<1>3. AtGeneration(q, create[q])' = AtGeneration(q, create[q])
  BY <1>2 DEF AtGeneration
<1>4. AtStages(q, create[q])' = AtStages(q, create[q])
  BY <1>3 DEF AtStages
<1>5. AtWork(q, create[q])' = AtWork(q, create[q])
  BY <1>4 DEF AtWork
<1>6. AtCommit(q, create[q])' = AtCommit(q, create[q])
  BY <1>5 DEF AtCommit
<1>7. Accepted(q) => Accepted(q)'
  BY DEF Accepted
<1> QED BY <1>1, <1>2, <1>3, <1>4, <1>5, <1>6, <1>7

LEMMA PlaceMoves ==
  ASSUME IInv, NEW q \in Projects, NEW pc, create' = [create EXCEPT ![q].pc = pc]
  PROVE  /\ create'[q].pc = pc /\ SameRequest(create[q], create'[q])
         /\ \A k \in Projects \ {q} : create'[k] = create[k]
BY DEF IInv, Shapes, IsCreate, SameRequest

\* The checks look at what is stored.
LEMMA OpeningStores ==
  ASSUME WholeInv, NEW q \in Projects, ConsumeBinding(q)
  PROVE  Stored' /\ Transaction'
<1> USE DEF WholeInv
<1>1. /\ UNCHANGED <<db, asked>> /\ create' = [create EXCEPT ![q].pc = "project"]
      /\ pending' = [by |-> q, rows |-> AtProject(q, create[q])]
      /\ Refusal(q) = "accepted"
  BY DEF ConsumeBinding, CreateGoes, AtProject
<1>2. /\ create'[q].pc = "project" /\ SameRequest(create[q], create'[q])
      /\ \A k \in Projects \ {q} : create'[k] = create[k]
  BY <1>1, PlaceMoves
<1>3. Accepted(q)
  <2>1. create[q].preview \in DOMAIN db.bindings
    BY <1>1 DEF Refusal
  <2>2. CASE db.bindings[create[q].preview].owner # create[q].owner
    BY <1>1, <2>1, <2>2 DEF Refusal
  <2>3. CASE /\ db.bindings[create[q].preview].owner = create[q].owner
             /\ db.bindings[create[q].preview].consumed # NoProject
    BY <1>1, <2>1, <2>3 DEF Refusal
  <2>4. CASE /\ db.bindings[create[q].preview].owner = create[q].owner
             /\ db.bindings[create[q].preview].consumed = NoProject
    <3>1. CASE create[q].late
      BY <1>1, <2>1, <2>4, <3>1 DEF Refusal
    <3>2. CASE ~create[q].late
      BY <1>1, <2>1, <2>4, <3>2 DEF Refusal, Accepted
    <3> QED BY <3>1, <3>2
  <2> QED BY <2>2, <2>3, <2>4
<1>4. Stored'
  BY <1>1, <1>2, StoredIsKept DEF SameRequest
<1>5. Transaction'
  <2>1. pending'.by = q /\ pending'.rows = AtProject(q, create[q])'
    BY <1>1, <1>2, RowsOfTheRequest
  <2>2. Accepted(q)' /\ Written(q)'
    BY <1>1, <1>2, <1>3, <2>1, RowsOfTheRequest DEF Written
  <2> QED BY <2>1, <2>2, CreationAssumption DEF Transaction
<1> QED BY <1>4, <1>5

\* A statement adds its rows to those that are there.
LEMMA StatementsStore ==
  ASSUME WholeInv, NEW q \in Projects,
         \/ InsertProject(q) \/ InsertSegments(q) \/ InsertGeneration(q)
         \/ InsertStages(q) \/ InsertWork(q)
  PROVE  Stored' /\ Transaction'
<1> USE DEF WholeInv
<1>1. ASSUME NEW here \in InTransaction, NEW there \in InTransaction, NEW rows,
             Statement(q, here, there, rows),
             Written(q) =>
               \/ there = "segments" /\ rows = AtSegments(q, create[q])
               \/ there = "generation" /\ rows = AtGeneration(q, create[q])
               \/ there = "stages" /\ rows = AtStages(q, create[q])
               \/ there = "work" /\ rows = AtWork(q, create[q])
               \/ there = "commit" /\ rows = AtCommit(q, create[q])
      PROVE  Stored' /\ Transaction'
  <2>1. /\ UNCHANGED <<db, asked>> /\ create' = [create EXCEPT ![q].pc = there]
        /\ create[q].pc = here /\ pending' = [pending EXCEPT !.rows = rows]
    BY <1>1 DEF Statement, CreateGoes
  <2>2. /\ create'[q].pc = there /\ SameRequest(create[q], create'[q])
        /\ \A k \in Projects \ {q} : create'[k] = create[k]
    BY <2>1, PlaceMoves
  <2>3. pending.by = q
    BY <2>1, <1>1 DEF IInv, OneTransaction
  <2>4. pending'.by = q /\ pending'.rows = rows
    BY <2>1, <2>3 DEF IInv, Shapes
  <2>5. Accepted(q) /\ Written(q)
    BY <2>3 DEF Transaction
  <2>6. Accepted(q)'
    BY <2>1, <2>2, <2>5, RowsOfTheRequest
  <2>7. Written(q)'
    BY <1>1, <2>1, <2>2, <2>4, <2>5, RowsOfTheRequest DEF Written
  <2>8. Transaction'
    BY <2>4, <2>6, <2>7, CreationAssumption DEF Transaction
  <2>9. Stored'
    BY <2>1, <2>2, StoredIsKept DEF SameRequest, InTransaction
  <2> QED BY <2>8, <2>9
<1>2. /\ {"project", "segments", "generation", "stages", "work", "commit"}
           = InTransaction
  BY DEF InTransaction
<1>3. CASE InsertProject(q)
  <2> DEFINE rows == [pending.rows EXCEPT
       !.projects = Insert(q,
         [owner |-> create[q].owner, duration |-> create[q].duration], @),
       !.previews[create[q].preview].project = q,
       !.ledgers[create[q].preview].project = q]
  <2>1. Statement(q, "project", "segments", rows)
    BY <1>3 DEF InsertProject
  <2>2. Written(q) => rows = AtSegments(q, create[q])
    BY <2>1 DEF Written, Statement, AtSegments
  <2> HIDE DEF rows
  <2> QED BY <1>1, <1>2, <2>1, <2>2
<1>4. CASE InsertSegments(q)
  <2> DEFINE rows == [pending.rows EXCEPT
        !.segments = Insert(q, create[q].outline.sections, @)]
  <2>1. Statement(q, "segments", "generation", rows)
    BY <1>4 DEF InsertSegments
  <2>2. Written(q) => rows = AtGeneration(q, create[q])
    BY <2>1 DEF Written, Statement, AtGeneration
  <2> HIDE DEF rows
  <2> QED BY <1>1, <1>2, <2>1, <2>2
<1>5. CASE InsertGeneration(q)
  <2> DEFINE rows == [pending.rows EXCEPT !.generation = Insert(q,
        [outline |-> create[q].outline, snapshot |-> create[q].snapshot,
         planned |-> PlannedSegments(create[q].duration)], @)]
  <2>1. Statement(q, "generation", "stages", rows)
    BY <1>5 DEF InsertGeneration
  <2>2. Written(q) => rows = AtStages(q, create[q])
    BY <2>1 DEF Written, Statement, AtStages
  <2> HIDE DEF rows
  <2> QED BY <1>1, <1>2, <2>1, <2>2
<1>6. CASE InsertStages(q)
  <2> DEFINE rows == [pending.rows EXCEPT
        !.stages = Insert(q, StageRows(create[q].outline.sections), @)]
  <2>1. Statement(q, "stages", "work", rows)
    BY <1>6 DEF InsertStages
  <2>2. Written(q) => rows = AtWork(q, create[q])
    BY <2>1 DEF Written, Statement, AtWork
  <2> HIDE DEF rows
  <2> QED BY <1>1, <1>2, <2>1, <2>2
<1>7. CASE InsertWork(q)
  <2> DEFINE rows == [pending.rows EXCEPT !.work = Insert(q, "pending", @)]
  <2>1. Statement(q, "work", "commit", rows)
    BY <1>7 DEF InsertWork
  <2>2. Written(q) => rows = AtCommit(q, create[q])
    BY <2>1 DEF Written, Statement, AtCommit
  <2> HIDE DEF rows
  <2> QED BY <1>1, <1>2, <2>1, <2>2
<1> QED BY <1>3, <1>4, <1>5, <1>6, <1>7
-----------------------------------------------------------------------------

\* What the commit writes, table by table.
LEMMA CommittedRows ==
  ASSUME IInv, NEW q \in Projects
  PROVE  LET r == create[q] p == create[q].preview rows == AtCommit(q, create[q]) IN
         /\ rows.bindings = [db.bindings EXCEPT ![p].consumed = q]
         /\ rows.previews = [db.previews EXCEPT ![p].project = q]
         /\ rows.ledgers = [db.ledgers EXCEPT ![p].project = q]
         /\ rows.projects = Insert(q, [owner |-> r.owner, duration |-> r.duration], db.projects)
         /\ rows.segments = Insert(q, r.outline.sections, db.segments)
         /\ rows.generation = Insert(q, [outline |-> r.outline, snapshot |-> r.snapshot,
                                        planned |-> PlannedSegments(r.duration)], db.generation)
         /\ rows.stages = Insert(q, StageRows(r.outline.sections), db.stages)
         /\ rows.work = Insert(q, "pending", db.work)
<1> DEFINE r == create[q]
           p == create[q].preview
           marked == [db.bindings EXCEPT ![p].consumed = q]
           made == Insert(q, [owner |-> r.owner, duration |-> r.duration], db.projects)
           spent == [db.previews EXCEPT ![p].project = q]
           charged == [db.ledgers EXCEPT ![p].project = q]
           segments == Insert(q, r.outline.sections, db.segments)
           generation == Insert(q, [outline |-> r.outline, snapshot |-> r.snapshot,
                                    planned |-> PlannedSegments(r.duration)], db.generation)
           stages == Insert(q, StageRows(r.outline.sections), db.stages)
           work == Insert(q, "pending", db.work)
           Holds(rows, b, pj, pv, lg, sg, gn, st, wk) ==
             rows = [bindings |-> b, previews |-> pv, ledgers |-> lg, projects |-> pj,
                     segments |-> sg, generation |-> gn, stages |-> st, work |-> wk]
<1>1. Holds(db, db.bindings, db.projects, db.previews, db.ledgers, db.segments,
            db.generation, db.stages, db.work)
  BY DEF IInv, Shapes, IsDb
<1>2. Holds(AtProject(q, r), marked, db.projects, db.previews, db.ledgers, db.segments,
            db.generation, db.stages, db.work)
  <2>1. AtProject(q, r) = [db EXCEPT !.bindings = marked]
    BY DEF AtProject
  <2> HIDE DEF marked
  <2> QED BY <1>1, <2>1
<1>3. Holds(AtSegments(q, r), marked, made, spent, charged, db.segments,
            db.generation, db.stages, db.work)
  <2> DEFINE first == [AtProject(q, r) EXCEPT !.projects = made]
             second == [first EXCEPT !.previews = spent]
  <2>1. AtSegments(q, r) = [second EXCEPT !.ledgers = charged]
    <3>1. /\ AtProject(q, r).projects = db.projects
          /\ AtProject(q, r).previews = db.previews
          /\ AtProject(q, r).ledgers = db.ledgers
      BY <1>2
    <3> QED BY <3>1, <1>2 DEF AtSegments
  <2> HIDE DEF made, spent, charged, marked
  <2>2. Holds(first, marked, made, db.previews, db.ledgers, db.segments,
              db.generation, db.stages, db.work)
    BY <1>2
  <2> HIDE DEF first
  <2>3. Holds(second, marked, made, spent, db.ledgers, db.segments,
              db.generation, db.stages, db.work)
    BY <2>2
  <2> HIDE DEF second
  <2> QED BY <2>1, <2>3
<1> HIDE DEF made, spent, charged, marked
<1>4. Holds(AtGeneration(q, r), marked, made, spent, charged, segments,
            db.generation, db.stages, db.work)
  <2>1. AtGeneration(q, r) = [AtSegments(q, r) EXCEPT !.segments = segments]
    BY <1>3 DEF AtGeneration
  <2> HIDE DEF segments
  <2> QED BY <1>3, <2>1
<1> HIDE DEF segments
<1>5. Holds(AtStages(q, r), marked, made, spent, charged, segments, generation,
            db.stages, db.work)
  <2>1. AtStages(q, r) = [AtGeneration(q, r) EXCEPT !.generation = generation]
    BY <1>4 DEF AtStages
  <2> HIDE DEF generation
  <2> QED BY <1>4, <2>1
<1> HIDE DEF generation
<1>6. Holds(AtWork(q, r), marked, made, spent, charged, segments, generation, stages, db.work)
  <2>1. AtWork(q, r) = [AtStages(q, r) EXCEPT !.stages = stages]
    BY <1>5 DEF AtWork
  <2> HIDE DEF stages
  <2> QED BY <1>5, <2>1
<1> HIDE DEF stages
<1>7. Holds(AtCommit(q, r), marked, made, spent, charged, segments, generation, stages, work)
  <2>1. AtCommit(q, r) = [AtWork(q, r) EXCEPT !.work = work]
    BY <1>6 DEF AtCommit
  <2> HIDE DEF work
  <2> QED BY <1>6, <2>1
<1> HIDE DEF work
<1>8. LET rows == AtCommit(q, create[q]) IN
      /\ rows.bindings = marked /\ rows.previews = spent /\ rows.ledgers = charged
      /\ rows.projects = made /\ rows.segments = segments /\ rows.generation = generation
      /\ rows.stages = stages /\ rows.work = work
  BY <1>7
<1> QED BY <1>8 DEF marked, spent, charged, made, segments, generation, stages, work

\* The commit adds one whole project and spends its preview.
LEMMA CommitStores ==
  ASSUME WholeInv, NEW q \in Projects, CommitProject(q)
  PROVE  Stored' /\ Transaction'
<1> USE DEF WholeInv, Stored
<1> DEFINE r == create[q]
           p == create[q].preview
<1>1. /\ db' = pending.rows /\ pending' = NoTransaction /\ UNCHANGED asked
      /\ create' = [create EXCEPT ![q].pc = "committed"] /\ r.pc = "commit"
  BY DEF CommitProject, CreateGoes
<1>2. pending.by = q
  BY <1>1 DEF IInv, OneTransaction, InTransaction
<1>3. /\ create'[q].pc = "committed" /\ SameRequest(create[q], create'[q])
      /\ \A k \in Projects \ {q} : create'[k] = create[k]
  BY <1>1, PlaceMoves
<1>4. Accepted(q) /\ db' = AtCommit(q, create[q])
  BY <1>1, <1>2 DEF Transaction, Written
<1>5. HasNoRow(q)
  <2>1. q \notin DOMAIN db.projects
    BY <1>1 DEF IInv, ProjectsAreNamed
  <2> QED BY <2>1, WholeByTable DEF IsWhole, HasRows
<1>6. db.bindings[p].consumed = NoProject
  BY <1>2 DEF IInv, OneTransaction, Opens
<1>7. /\ DOMAIN db'.bindings = DOMAIN db.bindings
      /\ \A k \in DOMAIN db.bindings \ {p} : db'.bindings[k] = db.bindings[k]
      /\ db'.bindings[p].consumed = q /\ db'.bindings[p].owner = db.bindings[p].owner
      /\ db'.bindings[p].duration = db.bindings[p].duration
      /\ db'.bindings[p].outline = db.bindings[p].outline
  <2>1. db'.bindings = [db.bindings EXCEPT ![p].consumed = q]
    BY <1>4, CommittedRows
  <2>2. IsBinding(db.bindings[p]) /\ p \in DOMAIN db.bindings
    BY <1>4 DEF IInv, Shapes, IsDb, Accepted
  <2> QED BY <2>1, <2>2 DEF IsBinding
<1>8. /\ DOMAIN db'.previews = DOMAIN db.previews
      /\ \A k \in DOMAIN db.previews \ {p} : db'.previews[k] = db.previews[k]
      /\ IsPreview(db'.previews[p]) /\ db'.previews[p].project = q
      /\ db'.previews[p].snapshot = db.previews[p].snapshot
  <2>1. db'.previews = [db.previews EXCEPT ![p].project = q]
    BY <1>4, CommittedRows
  <2>2. IsPreview(db.previews[p]) /\ p \in DOMAIN db.previews
    BY <1>4 DEF DbTyped, Accepted
  <2> QED BY <2>1, <2>2 DEF IsPreview
<1>9. /\ DOMAIN db'.ledgers = DOMAIN db.previews
      /\ \A k \in DOMAIN db.previews \ {p} : db'.ledgers[k] = db.ledgers[k]
      /\ IsLedger(db'.ledgers[p]) /\ db'.ledgers[p].project = q
      /\ db'.ledgers[p].snapshot = db.ledgers[p].snapshot
  <2>1. db'.ledgers = [db.ledgers EXCEPT ![p].project = q]
    BY <1>4, CommittedRows
  <2>2. /\ IsLedger(db.ledgers[p]) /\ p \in DOMAIN db.ledgers
        /\ DOMAIN db.ledgers = DOMAIN db.previews
    BY <1>4 DEF DbTyped, Accepted
  <2> QED BY <2>1, <2>2 DEF IsLedger
<1>10. /\ DOMAIN db'.projects = DOMAIN db.projects \union {q}
       /\ \A k \in DOMAIN db.projects : db'.projects[k] = db.projects[k]
       /\ db'.projects[q].owner = r.owner
  <2>1. db'.projects = Insert(q, [owner |-> r.owner, duration |-> r.duration], db.projects)
    BY <1>4, CommittedRows
  <2> QED BY <1>5, <2>1 DEF Insert, HasNoRow
<1>11. /\ DOMAIN db'.generation = DOMAIN db.generation \union {q}
       /\ \A k \in DOMAIN db.generation : db'.generation[k] = db.generation[k]
       /\ db'.generation[q].outline = r.outline /\ db'.generation[q].snapshot = r.snapshot
       /\ db'.generation[q].planned = PlannedSegments(r.duration)
  <2>1. db'.generation = Insert(q, [outline |-> r.outline, snapshot |-> r.snapshot,
                                    planned |-> PlannedSegments(r.duration)], db.generation)
    BY <1>4, CommittedRows
  <2> QED BY <1>5, <2>1 DEF Insert, HasNoRow
<1>12. /\ DOMAIN db'.segments = DOMAIN db.segments \union {q}
       /\ \A k \in DOMAIN db.segments : db'.segments[k] = db.segments[k]
       /\ db'.segments[q] = r.outline.sections
       /\ DOMAIN db'.stages = DOMAIN db.stages \union {q}
       /\ \A k \in DOMAIN db.stages : db'.stages[k] = db.stages[k]
       /\ db'.stages[q] = StageRows(r.outline.sections)
       /\ DOMAIN db'.work = DOMAIN db.work \union {q}
       /\ \A k \in DOMAIN db.work : db'.work[k] = db.work[k]
       /\ db'.work[q] = "pending"
  <2>1. /\ db'.segments = Insert(q, r.outline.sections, db.segments)
        /\ db'.stages = Insert(q, StageRows(r.outline.sections), db.stages)
        /\ db'.work = Insert(q, "pending", db.work)
    BY <1>4, CommittedRows
  <2> QED BY <1>5, <2>1 DEF Insert, HasNoRow
<1>13. r.outline.sections = PlannedSegments(r.duration)
  <2>1. r.outline = OutlineOf(p) /\ r.duration = asked[p].duration
    BY <1>4 DEF AsAsked, Accepted
  <2> QED BY <2>1 DEF OutlineOf
<1>14. DbTyped'
  <2>1. /\ DOMAIN db'.bindings \subseteq Previews /\ DOMAIN db'.previews \subseteq Previews
        /\ DOMAIN db'.ledgers = DOMAIN db'.previews
    BY <1>7, <1>8, <1>9 DEF DbTyped
  <2>2. \A k \in DOMAIN db'.bindings : db'.bindings[k].consumed \in Projects \union {NoProject}
    BY <1>7 DEF DbTyped
  <2>3. \A k \in DOMAIN db'.previews : IsPreview(db'.previews[k]) /\ IsLedger(db'.ledgers[k])
    <3> SUFFICES ASSUME NEW k \in DOMAIN db'.previews
                 PROVE  IsPreview(db'.previews[k]) /\ IsLedger(db'.ledgers[k])
      OBVIOUS
    <3>1. CASE k = p
      BY <1>8, <1>9, <3>1
    <3>2. CASE k # p
      <4>1. db'.previews[k] = db.previews[k] /\ db'.ledgers[k] = db.ledgers[k]
        BY <1>8, <1>9, <3>2
      <4>2. IsPreview(db.previews[k]) /\ IsLedger(db.ledgers[k])
        BY <1>8 DEF DbTyped
      <4> QED BY <4>1, <4>2
    <3> QED BY <3>1, <3>2
  <2>4. /\ DOMAIN db'.projects \subseteq Projects /\ DOMAIN db'.segments \subseteq Projects
        /\ DOMAIN db'.generation \subseteq Projects /\ DOMAIN db'.stages \subseteq Projects
        /\ DOMAIN db'.work \subseteq Projects
    BY <1>10, <1>11, <1>12 DEF DbTyped
  <2> QED BY <2>1, <2>2, <2>3, <2>4 DEF DbTyped
<1>15. ProjectsAreWhole'
  <2> SUFFICES ASSUME NEW k \in Projects PROVE IsWhole(k)'
    BY WholeByTable
  <2>1. CASE k = q
    <3>1. HasRows(q)'
      BY <1>10, <1>11, <1>12 DEF HasRows
    <3> QED BY <1>3, <1>11, <1>12, <1>13, <2>1, <3>1 DEF IsWhole, SameRequest
  <2>2. CASE k # q
    <3>1. IsWhole(k) /\ create'[k] = create[k]
      BY <1>3, <2>2, WholeByTable
    <3>2. (HasRows(k) => HasRows(k)') /\ (HasNoRow(k) => HasNoRow(k)')
      BY <1>10, <1>11, <1>12, <2>2 DEF HasRows, HasNoRow
    <3> QED BY <1>11, <1>12, <3>1, <3>2 DEF IsWhole, HasRows
  <2> QED BY <2>1, <2>2
<1>16. PreviewRecordsAgree'
  <2> SUFFICES ASSUME NEW k \in DOMAIN db'.bindings
               PROVE  LET c == db'.bindings[k].consumed IN
                      /\ c # NoProject => c \in DOMAIN db'.projects /\ k \in DOMAIN db'.previews
                      /\ k \in DOMAIN db'.previews =>
                           db'.previews[k].project = c /\ db'.ledgers[k].project = c
    BY DEF PreviewRecordsAgree
  <2>1. CASE k = p
    BY <1>4, <1>7, <1>8, <1>9, <1>10, <2>1 DEF Accepted
  <2>2. CASE k # p
    BY <1>7, <1>8, <1>9, <1>10, <2>2 DEF PreviewRecordsAgree
  <2> QED BY <2>1, <2>2
<1>17. AsAsked'
  <2>1. \A k : OutlineOf(k)' = OutlineOf(k)
    BY <1>1 DEF OutlineOf
  <2>2. \A k \in DOMAIN db'.bindings :
          /\ db'.bindings[k].duration = asked'[k].duration
          /\ db'.bindings[k].outline = OutlineOf(k)'
    BY <1>1, <1>7, <2>1 DEF AsAsked
  <2>3. \A k \in DOMAIN db'.previews :
          /\ asked'[k].pc \notin {"none", "outlined", "bound"}
          /\ db'.previews[k].snapshot = asked'[k].snapshot
          /\ db'.ledgers[k].snapshot = asked'[k].snapshot
    BY <1>1, <1>8, <1>9 DEF AsAsked
  <2> QED BY <2>2, <2>3 DEF AsAsked
<1>18. AsPreviewed'
  <2> SUFFICES ASSUME NEW k \in DOMAIN db'.generation
               PROVE  LET v == create'[k].preview IN
                      /\ v \in DOMAIN db'.bindings /\ db'.bindings[v].consumed = k
                      /\ v \in DOMAIN db'.previews
                      /\ db'.bindings[v].owner = db'.projects[k].owner
                      /\ db'.bindings[v].outline = db'.generation[k].outline
                      /\ db'.generation[k].snapshot = asked'[v].snapshot
    BY DEF AsPreviewed
  <2>1. CASE k = q
    <3>1. create'[q].preview = p
      BY <1>3 DEF SameRequest
    <3>2. r.snapshot = asked[p].snapshot
      BY <1>4 DEF AsAsked, Accepted
    <3> QED BY <1>1, <1>4, <1>7, <1>8, <1>10, <1>11, <2>1, <3>1, <3>2 DEF Accepted
  <2>2. CASE k # q
    <3>1. k \in DOMAIN db.generation /\ k \in Projects /\ k # NoProject
      BY <1>11, <2>2, CreationAssumption DEF DbTyped
    <3>2. create'[k] = create[k] /\ k \in DOMAIN db.projects
      BY <1>3, <2>2, <3>1, WholeByTable DEF IsWhole, HasRows, HasNoRow
    <3>3. create[k].preview # p
      BY <1>6, <3>1 DEF AsPreviewed
    <3> DEFINE v == create[k].preview
    <3>4. /\ v \in DOMAIN db.bindings /\ db.bindings[v].consumed = k
          /\ v \in DOMAIN db.previews
          /\ db.bindings[v].owner = db.projects[k].owner
          /\ db.bindings[v].outline = db.generation[k].outline
          /\ db.generation[k].snapshot = asked[v].snapshot
      BY <3>1 DEF AsPreviewed
    <3>5. /\ db'.bindings[v] = db.bindings[v] /\ v \in DOMAIN db'.bindings
          /\ v \in DOMAIN db'.previews
      BY <1>7, <1>8, <3>3, <3>4
    <3>6. db'.projects[k] = db.projects[k] /\ db'.generation[k] = db.generation[k]
      BY <1>10, <1>11, <3>1, <3>2
    <3> HIDE DEF v
    <3>7. create'[k].preview = v
      BY <3>2 DEF v
    <3> QED BY <1>1, <3>4, <3>5, <3>6, <3>7
  <2> QED BY <2>1, <2>2
<1>19. Transaction'
  BY <1>1, CreationAssumption DEF Transaction, NoTransaction
<1> QED BY <1>14, <1>15, <1>16, <1>17, <1>18, <1>19
-----------------------------------------------------------------------------

\* A statement that raises takes the whole transaction with it.
LEMMA FailStores ==
  ASSUME WholeInv, NEW q \in Projects, FailProject(q)
  PROVE  Stored' /\ Transaction'
<1> USE DEF WholeInv
<1>1. UNCHANGED <<db, asked>> /\ create' = [create EXCEPT ![q].pc = "error"]
  BY DEF FailProject, CreateGoes
<1>2. /\ create'[q].pc = "error" /\ SameRequest(create[q], create'[q])
      /\ \A k \in Projects \ {q} : create'[k] = create[k]
  BY <1>1, PlaceMoves
<1>3. Stored'
  BY <1>1, <1>2, StoredIsKept DEF SameRequest
<1>4. CASE pending.by = q
  <2>1. pending' = NoTransaction
    BY <1>4 DEF FailProject
  <2> QED BY <1>3, <2>1, CreationAssumption DEF Transaction, NoTransaction
<1>5. CASE pending.by # q
  <2>1. UNCHANGED pending
    BY <1>5 DEF FailProject
  <2> QED BY <1>1, <1>2, <1>3, <1>5, <2>1, NobodyElseWrites
<1> QED BY <1>4, <1>5

\* A restart takes the open transaction and leaves what is stored.
LEMMA RestartStores ==
  ASSUME WholeInv, NEW r \in Revisions, Restart(r)
  PROVE  Stored' /\ Transaction'
<1> USE DEF WholeInv
<1>1. UNCHANGED db /\ pending' = NoTransaction
  BY DEF Restart
<1>2. \A p \in Previews :
        /\ asked'[p].duration = asked[p].duration /\ asked'[p].wording = asked[p].wording
        /\ asked'[p].snapshot = asked[p].snapshot
        /\ asked'[p].pc = IF asked[p].pc \in {"outlined", "bound", "stored"}
                          THEN "failed" ELSE asked[p].pc
  BY DEF Restart, IInv, Shapes, IsAsked
<1>3. \A q \in Projects :
        /\ create'[q].preview = create[q].preview
        /\ create'[q].duration = create[q].duration
        /\ create'[q].pc = IF create[q].pc \in OnExecutor \union {"queued", "committed"}
                           THEN "lost" ELSE create[q].pc
  BY DEF Restart, IInv, Shapes, IsCreate
<1>4. Stored'
  BY <1>1, <1>2, <1>3, StoredIsKept
<1>5. Transaction'
  BY <1>1, CreationAssumption DEF Transaction, NoTransaction
<1> QED BY <1>4, <1>5

\* A request keeps the snapshots it was given: those of the deployment that
\* resolved them, or those of the preview it found.
LEMMA RequestsKeepTypes ==
  ASSUME WholeInv, Next
  PROVE  RequestsTyped'
<1> USE DEF WholeInv, RequestsTyped
<1>1. /\ asked = [p \in Previews |-> asked[p]] /\ \A p \in Previews : IsAsked(asked[p])
      /\ create = [q \in Projects |-> create[q]]
      /\ \A q \in Projects : IsCreate(create[q])
  BY DEF IInv, Shapes
<1>2. ASSUME NEW p \in Previews, NEW pc, AskedGoes(p, pc)
      PROVE  \A k \in Previews : asked'[k].snapshot = asked[k].snapshot
  BY <1>1, <1>2 DEF AskedGoes, IsAsked
<1>3. ASSUME NEW q \in Projects, NEW pc, CreateGoes(q, pc)
      PROVE  \A k \in Projects : create'[k].snapshot = create[k].snapshot
  BY <1>1, <1>3 DEF CreateGoes, IsCreate
<1>4. \A n \in 0 .. MaxFaults : n < MaxFaults => n + 1 \in 0 .. MaxFaults
  BY CreationAssumption
<1>5. ASSUME NEW p \in Previews, PreviewStep(p) PROVE RequestsTyped'
  <2>1. CASE CreateOutlinePreviewBinding(p) \/ CreatePreviewBinding(p) \/ AnswerPreview(p)
    BY <1>2, <2>1 DEF CreateOutlinePreviewBinding, CreatePreviewBinding, AnswerPreview
  <2>2. CASE FailPreview(p)
    BY <1>2, <1>4, <2>2 DEF FailPreview
  <2>3. CASE Expire(p)
    BY <2>3 DEF Expire
  <2> QED BY <1>5, <2>1, <2>2, <2>3 DEF PreviewStep
<1>6. ASSUME NEW q \in Projects, ProjectStep(q) PROVE RequestsTyped'
  <2>1. CASE ReadClock(q)
    <3>1. \A k \in Projects : create'[k].snapshot = create[k].snapshot
      BY <1>1, <2>1 DEF ReadClock, IsCreate
    <3> QED BY <2>1, <3>1 DEF ReadClock
  <2>2. CASE FailProject(q)
    BY <1>3, <1>4, <2>2 DEF FailProject
  <2>3. CASE RefuseProject(q) \/ ConsumeBinding(q) \/ CommitProject(q) \/ AnswerProject(q)
    BY <1>3, <2>3 DEF RefuseProject, ConsumeBinding, CommitProject, AnswerProject
  <2>4. ASSUME NEW here, NEW there, NEW rows, Statement(q, here, there, rows)
        PROVE  RequestsTyped'
    BY <1>3, <2>4 DEF Statement
  <2>5. CASE InsertProject(q) \/ InsertSegments(q) \/ InsertGeneration(q)
             \/ InsertStages(q) \/ InsertWork(q)
    BY <2>4, <2>5 DEF InsertProject, InsertSegments, InsertGeneration, InsertStages, InsertWork
  <2> QED BY <1>6, <2>1, <2>2, <2>3, <2>5 DEF ProjectStep
<1>7. ASSUME NEW p \in Previews, NEW o \in Owners, NEW d \in Durations,
             NEW f \in Profiles, NEW w \in Wordings, PreviewProjectOutline(p, o, d, f, w)
      PROVE  RequestsTyped'
  <2>1. [profile |-> f, revision |-> revision] \in Snapshots
    BY DEF Snapshots
  <2>2. \A k \in Previews : asked'[k].snapshot \in Snapshots \union {NoSnapshot}
    BY <1>1, <1>7, <2>1 DEF PreviewProjectOutline
  <2> QED BY <1>7, <2>2 DEF PreviewProjectOutline
<1>8. ASSUME NEW q \in Projects, NEW p \in Previews, NEW o \in Owners,
             NEW d \in Durations, NEW f \in Profiles, NEW l \in Outlines,
             SubmitProject(q, p, o, d, f, l)
      PROVE  RequestsTyped'
  <2>1. p \in DOMAIN db.previews => db.previews[p].snapshot \in Snapshots \union {NoSnapshot}
    BY DEF Stored, AsAsked
  <2>2. create'[q].snapshot \in Snapshots \union {NoSnapshot}
    BY <1>1, <1>8, <2>1 DEF SubmitProject
  <2>3. \A k \in Projects \ {q} : create'[k] = create[k]
    BY <1>1, <1>8 DEF SubmitProject
  <2> QED BY <1>8, <2>2, <2>3 DEF SubmitProject
<1>9. ASSUME NEW r \in Revisions, Restart(r) PROVE RequestsTyped'
  <2>1. /\ \A p \in Previews : asked'[p].snapshot = asked[p].snapshot
        /\ \A q \in Projects : create'[q].snapshot = create[q].snapshot
    BY <1>1, <1>9 DEF Restart, IsAsked, IsCreate
  <2> QED BY <1>9, <2>1, CreationAssumption DEF Restart
<1> QED BY <1>5, <1>6, <1>7, <1>8, <1>9 DEF Next
-----------------------------------------------------------------------------

\* The part of the type invariant that is about one set of tables.
RowsTyped(r) ==
  /\ r = [bindings |-> r.bindings, previews |-> r.previews, ledgers |-> r.ledgers,
          projects |-> r.projects, segments |-> r.segments,
          generation |-> r.generation, stages |-> r.stages, work |-> r.work]
  /\ DOMAIN r.bindings \subseteq Previews /\ DOMAIN r.previews \subseteq Previews
  /\ DOMAIN r.ledgers = DOMAIN r.previews
  /\ \A p \in DOMAIN r.bindings :
       IsBinding(r.bindings[p]) /\ r.bindings[p].consumed \in Projects \union {NoProject}
  /\ DOMAIN r.projects \subseteq Projects /\ DOMAIN r.segments \subseteq Projects
  /\ DOMAIN r.generation \subseteq Projects /\ DOMAIN r.stages \subseteq Projects
  /\ DOMAIN r.work \subseteq Projects

LEMMA InsertsAreTyped ==
  ASSUME NEW q \in Projects, NEW r, RowsTyped(r), NEW row
  PROVE  /\ RowsTyped([r EXCEPT !.projects = Insert(q, row, r.projects)])
         /\ RowsTyped([r EXCEPT !.segments = Insert(q, row, r.segments)])
         /\ RowsTyped([r EXCEPT !.generation = Insert(q, row, r.generation)])
         /\ RowsTyped([r EXCEPT !.stages = Insert(q, row, r.stages)])
         /\ RowsTyped([r EXCEPT !.work = Insert(q, row, r.work)])
<1>1. \A table : DOMAIN table \subseteq Projects =>
                  DOMAIN Insert(q, row, table) \subseteq Projects
  BY DEF Insert
<1>2. RowsTyped([r EXCEPT !.projects = Insert(q, row, r.projects)])
  BY <1>1 DEF RowsTyped
<1>3. RowsTyped([r EXCEPT !.segments = Insert(q, row, r.segments)])
  BY <1>1 DEF RowsTyped
<1>4. RowsTyped([r EXCEPT !.generation = Insert(q, row, r.generation)])
  BY <1>1 DEF RowsTyped
<1>5. RowsTyped([r EXCEPT !.stages = Insert(q, row, r.stages)])
  BY <1>1 DEF RowsTyped
<1>6. RowsTyped([r EXCEPT !.work = Insert(q, row, r.work)])
  BY <1>1 DEF RowsTyped
<1> QED BY <1>2, <1>3, <1>4, <1>5, <1>6

\* Whatever the statement, the open transaction sees typed rows.
LEMMA OpenRowsAreTyped ==
  ASSUME NEW q \in Projects, RowsTyped(db)
  PROVE  LET r == create[q] IN
         /\ RowsTyped(AtProject(q, r)) /\ RowsTyped(AtSegments(q, r))
         /\ RowsTyped(AtGeneration(q, r)) /\ RowsTyped(AtStages(q, r))
         /\ RowsTyped(AtWork(q, r)) /\ RowsTyped(AtCommit(q, r))
<1> DEFINE r == create[q]
           p == r.preview
<1>1. RowsTyped(AtProject(q, r))
  <2> DEFINE marked == [db.bindings EXCEPT ![p].consumed = q]
  <2>1. /\ DOMAIN marked = DOMAIN db.bindings
        /\ \A k \in DOMAIN marked :
             IsBinding(marked[k]) /\ marked[k].consumed \in Projects \union {NoProject}
    BY DEF RowsTyped, IsBinding
  <2>2. AtProject(q, r) = [db EXCEPT !.bindings = marked]
    BY DEF AtProject
  <2> HIDE DEF marked
  <2> QED BY <2>1, <2>2 DEF RowsTyped
<1>2. RowsTyped(AtSegments(q, r))
  <2> DEFINE rows == AtProject(q, r)
             made == Insert(q, [owner |-> r.owner, duration |-> r.duration], rows.projects)
             first == [rows EXCEPT !.projects = made]
             spent == [rows.previews EXCEPT ![p].project = q]
             charged == [rows.ledgers EXCEPT ![p].project = q]
             second == [first EXCEPT !.previews = spent]
             third == [second EXCEPT !.ledgers = charged]
  <2>1. AtSegments(q, r) = third
    BY <1>1 DEF RowsTyped, AtSegments
  <2>2. DOMAIN spent = DOMAIN rows.previews /\ DOMAIN charged = DOMAIN rows.ledgers
    OBVIOUS
  <2>3. /\ RowsTyped(first) /\ first.previews = rows.previews
        /\ first.ledgers = rows.ledgers
    <3>1. RowsTyped(first)
      BY <1>1, InsertsAreTyped
    <3> HIDE DEF made
    <3> QED BY <1>1, <3>1 DEF RowsTyped
  <2> HIDE DEF first, spent, charged, rows
  <2>4. /\ second = [bindings |-> first.bindings, previews |-> spent,
                     ledgers |-> first.ledgers, projects |-> first.projects,
                     segments |-> first.segments, generation |-> first.generation,
                     stages |-> first.stages, work |-> first.work]
    BY <2>3 DEF RowsTyped
  <2> HIDE DEF second
  <2>5. /\ third = [bindings |-> first.bindings, previews |-> spent,
                    ledgers |-> charged, projects |-> first.projects,
                    segments |-> first.segments, generation |-> first.generation,
                    stages |-> first.stages, work |-> first.work]
    BY <2>4
  <2> HIDE DEF third
  <2>6. RowsTyped(third)
    BY <2>2, <2>3, <2>5 DEF RowsTyped
  <2> QED BY <2>1, <2>6
<1>3. RowsTyped(AtGeneration(q, r))
  BY <1>2, InsertsAreTyped DEF AtGeneration
<1>4. RowsTyped(AtStages(q, r))
  BY <1>3, InsertsAreTyped DEF AtStages
<1>5. RowsTyped(AtWork(q, r))
  BY <1>4, InsertsAreTyped DEF AtWork
<1>6. RowsTyped(AtCommit(q, r))
  BY <1>5, InsertsAreTyped DEF AtCommit
<1> QED BY <1>1, <1>2, <1>3, <1>4, <1>5, <1>6

LEMMA WholeInvIsTyped == WholeInv => TypeOK
<1> SUFFICES ASSUME WholeInv PROVE TypeOK
  OBVIOUS
<1> USE DEF WholeInv
<1>1. RowsTyped(db)
  BY DEF RowsTyped, Stored, DbTyped, IInv, Shapes, IsDb
<1>2. pending.by \in Projects \union {NoProject}
  BY DEF IInv, OneTransaction
<1>3. RowsTyped(pending.rows)
  <2>1. CASE pending.by = NoProject
    BY <2>1 DEF Transaction, NoTransaction, EmptyDb, NoRows, RowsTyped
  <2>2. ASSUME NEW q \in Projects, pending.by = q PROVE RowsTyped(pending.rows)
    <3>1. Written(q) /\ create[q].pc \in InTransaction
      BY <2>2 DEF Transaction, IInv, OneTransaction
    <3> QED BY <1>1, <3>1, OpenRowsAreTyped DEF Written, InTransaction
  <2> QED BY <1>2, <2>1, <2>2
<1>4. ASSUME NEW r, RowsTyped(r)
      PROVE  /\ DOMAIN r.bindings \subseteq Previews /\ DOMAIN r.previews \subseteq Previews
             /\ DOMAIN r.ledgers = DOMAIN r.previews
             /\ \A p \in DOMAIN r.bindings :
                  r.bindings[p].consumed \in Projects \union {NoProject}
             /\ \A t \in ProjectTables : DOMAIN r[t] \subseteq Projects
  BY <1>4 DEF RowsTyped, ProjectTables
<1> QED BY <1>1, <1>2, <1>3, <1>4 DEF TypeOK, RequestsTyped

LEMMA WholeInvInit == Init => WholeInv
<1> SUFFICES ASSUME Init PROVE WholeInv
  OBVIOUS
<1>1. IInv
  BY IInvInit
<1>2. /\ DOMAIN db.bindings = {} /\ DOMAIN db.previews = {} /\ DOMAIN db.ledgers = {}
      /\ DOMAIN db.projects = {} /\ DOMAIN db.segments = {} /\ DOMAIN db.generation = {}
      /\ DOMAIN db.stages = {} /\ DOMAIN db.work = {}
  BY DEF Init, EmptyDb, NoRows
<1>3. /\ \A p \in Previews : asked[p].snapshot = NoSnapshot
      /\ \A q \in Projects : create[q].snapshot = NoSnapshot /\ create[q].pc = "none"
  BY DEF Init
<1>4. DbTyped /\ PreviewRecordsAgree /\ AsAsked /\ AsPreviewed
  BY <1>2 DEF DbTyped, PreviewRecordsAgree, AsAsked, AsPreviewed
<1>5. ProjectsAreWhole
  BY <1>2, <1>3, WholeByTable DEF IsWhole, HasNoRow
<1>6. Transaction
  BY CreationAssumption DEF Init, Transaction, NoTransaction
<1>7. RequestsTyped
  <2>1. /\ expired = {} /\ revision \in Revisions /\ faults = 0 /\ restarts = 0
    BY DEF Init
  <2> QED BY <1>3, <2>1, CreationAssumption DEF RequestsTyped
<1> QED BY <1>1, <1>4, <1>5, <1>6, <1>7 DEF WholeInv, Stored

LEMMA WholeInvNext == WholeInv /\ [Next]_vars => WholeInv'
<1> SUFFICES ASSUME WholeInv, [Next]_vars PROVE WholeInv'
  OBVIOUS
<1>1. IInv'
  BY IInvNext DEF WholeInv
<1>2. CASE Next
  <2>1. ASSUME NEW p \in Previews, PreviewStep(p) PROVE Stored' /\ Transaction'
    BY <2>1, PreviewsStore
  <2>2. ASSUME NEW q \in Projects, ProjectStep(q) PROVE Stored' /\ Transaction'
    <3>1. CASE ReadClock(q) \/ RefuseProject(q) \/ AnswerProject(q)
      BY <3>1, OuterStepsStore
    <3>2. CASE ConsumeBinding(q)
      BY <3>2, OpeningStores
    <3>3. CASE InsertProject(q) \/ InsertSegments(q) \/ InsertGeneration(q)
               \/ InsertStages(q) \/ InsertWork(q)
      BY <3>3, StatementsStore
    <3>4. CASE CommitProject(q)
      BY <3>4, CommitStores
    <3>5. CASE FailProject(q)
      BY <3>5, FailStores
    <3> QED BY <2>2, <3>1, <3>2, <3>3, <3>4, <3>5 DEF ProjectStep
  <2>3. ASSUME NEW p \in Previews, NEW o \in Owners, NEW d \in Durations,
               NEW f \in Profiles, NEW w \in Wordings,
               PreviewProjectOutline(p, o, d, f, w)
        PROVE  Stored' /\ Transaction'
    BY <2>3, PreviewsStore
  <2>4. ASSUME NEW q \in Projects, NEW p \in Previews, NEW o \in Owners,
               NEW d \in Durations, NEW f \in Profiles, NEW l \in Outlines,
               SubmitProject(q, p, o, d, f, l)
        PROVE  Stored' /\ Transaction'
    BY <2>4, OuterStepsStore
  <2>5. ASSUME NEW r \in Revisions, Restart(r) PROVE Stored' /\ Transaction'
    BY <2>5, RestartStores
  <2>6. Stored' /\ Transaction'
    BY <1>2, <2>1, <2>2, <2>3, <2>4, <2>5 DEF Next
  <2> QED BY <1>1, <1>2, <2>6, RequestsKeepTypes DEF WholeInv
<1>3. CASE UNCHANGED vars
  <2>1. /\ UNCHANGED <<db, pending, asked, create>>
        /\ UNCHANGED <<expired, revision, faults, restarts>>
    BY <1>3 DEF vars
  <2>2. Stored'
    BY <2>1, StoredIsKept DEF WholeInv
  <2>3. Transaction'
    BY <2>1, NobodyElseWrites DEF WholeInv
  <2>4. RequestsTyped'
    BY <2>1 DEF WholeInv, RequestsTyped
  <2> QED BY <1>1, <2>2, <2>3, <2>4 DEF WholeInv
<1> QED BY <1>2, <1>3

LEMMA WholeInvHolds == Spec => []WholeInv
BY WholeInvInit, WholeInvNext, PTL DEF Spec

\* The rows and the requests hold values of their types, whatever the statement
\* the open transaction has reached (_create_progress_project).
THEOREM CreationTypes == Spec => []TypeOK
BY WholeInvHolds, WholeInvIsTyped, PTL

\* No fault and no crash between two statements leaves a part of a project,
\* or a preview that is spent for nothing or charged to another project
\* (_create_progress_project).
THEOREM CreationIsAtomic == Spec => []CreationIsWhole
<1>1. WholeInv => CreationIsWhole
  BY DEF WholeInv, Stored, CreationIsWhole
<1> QED BY <1>1, WholeInvHolds, PTL

\* A project has the owner, the outline and the snapshots of the preview it
\* was made from, and so does its ledger.
THEOREM ProjectsRunAsPreviewed == Spec => []RunsAsPreviewed
<1>1. WholeInv => RunsAsPreviewed
  <2> SUFFICES ASSUME WholeInv, NEW q \in DOMAIN db.generation
               PROVE  \E p \in DOMAIN db.bindings :
                        /\ db.bindings[p].consumed = q
                        /\ db.bindings[p].owner = db.projects[q].owner
                        /\ db.bindings[p].outline = db.generation[q].outline
                        /\ db.generation[q].snapshot = asked[p].snapshot
                        /\ db.ledgers[p].snapshot = asked[p].snapshot
    BY DEF RunsAsPreviewed
  <2> DEFINE p == create[q].preview
  <2>1. /\ p \in DOMAIN db.bindings /\ p \in DOMAIN db.previews
        /\ db.bindings[p].consumed = q
        /\ db.bindings[p].owner = db.projects[q].owner
        /\ db.bindings[p].outline = db.generation[q].outline
        /\ db.generation[q].snapshot = asked[p].snapshot
    BY DEF WholeInv, Stored, AsPreviewed
  <2>2. db.ledgers[p].snapshot = asked[p].snapshot
    BY <2>1 DEF WholeInv, Stored, AsAsked
  <2> QED BY <2>1, <2>2
<1> QED BY <1>1, WholeInvHolds, PTL
=============================================================================
