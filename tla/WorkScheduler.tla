---------------------------- MODULE WorkScheduler ----------------------------
(***************************************************************************)
(* The process-wide scheduler of durable work (main.py) and the cleanup of *)
(* a deleted project's files (routers/v1_projects.py, the tombstones of    *)
(* core/persistence.py).                                                   *)
(*                                                                         *)
(* The reclaimer thread, a request that creates a project, the startup     *)
(* code and every pipeline thread that ends all run _drain_durable_work:   *)
(* they share a slot count and a registry of threads, both behind one      *)
(* lock, and the rows in SQLite.  A DELETE request and the end of a        *)
(* pipeline thread both sweep the files a tombstone names, and meet only   *)
(* through the registry.  A process may stop at any step and be started    *)
(* again.                                                                  *)
(*                                                                         *)
(* Each section under the lock, each transaction and each loop over files  *)
(* is one step; an empty claim is one step with giving its slot back, and  *)
(* registering a thread one with starting it, or with its start raising.   *)
(*                                                                         *)
(* Abstractions: a work row is its state and the thread that holds the     *)
(* lease (SegmentPipeline has the tokens and what a pipeline does between  *)
(* two transactions); the files of a project are there or not, and the     *)
(* names in its tombstone cover them all, since they derive from ids       *)
(* stored with the project.                                                *)
(***************************************************************************)
EXTENDS Integers, FiniteSets

CONSTANTS
  NumProjects,     \* projects, numbered by created_at
  Threads,         \* thread objects; reused once the thread has ended
  NoThread,
  Unstarted,       \* a registered thread object whose start raised
  Capacity,        \* settings.max_concurrent_generations
  Deletable,       \* bound: the projects clients ask to delete
  MaxStops,        \* bound: how often the process stops
  MaxFaults,       \* bound: how many of these faults happen
  MayStall,        \* whether a lease may expire under a thread that lives
  PipelineMayRaise,\* whether a pipeline may end without settling its work
  ClaimMayRaise,   \* whether a claim may raise (a locked or failing database)
  StartMayRaise,   \* whether thread.start() may raise (no thread can be had)
  UnlinkMayFail    \* whether unlink may raise OSError

ASSUME SchedulerAssumption ==
  /\ NumProjects \in Nat \ {0} /\ Deletable \subseteq 1 .. NumProjects
  /\ Capacity \in Nat \ {0} /\ IsFiniteSet(Threads)
  /\ MaxStops \in Nat /\ MaxFaults \in Nat
  /\ NoThread \notin Threads /\ Unstarted \notin Threads /\ NoThread # Unstarted
  /\ {MayStall, PipelineMayRaise, ClaimMayRaise, StartMayRaise, UnlinkMayFail}
       \subseteq BOOLEAN

Projects == 1 .. NumProjects
AnyWork == 0                                   \* work_id is None

\* Who runs _drain_durable_work, and who sweeps.
Reclaimer  == <<"reclaimer", 0>>
Startup    == <<"startup", 0>>
Creator(p) == <<"create", p>>
Deleter(p) == <<"delete", p>>
Ending(t)  == <<"thread", t>>
Callers    == {Reclaimer, Startup} \cup {Creator(p) : p \in Projects}
                \cup {Ending(t) : t \in Threads}
Sweepers   == {Deleter(p) : p \in Projects} \cup {Ending(t) : t \in Threads}

VARIABLES
  process,     \* "up", "stopping" (durable_work_stop is set) or "down"
  reclaimer,   \* whether the reclaimer thread lives
  count,       \* durable_work_count
  registry,    \* durable_work_threads
  thread,      \* each thread: where it is and the project it works for
  drain,       \* each caller: where it is in _drain_durable_work
  request,     \* each project's DELETE request
  sweep,       \* each sweeper: where it is in _sweep_project_cleanup_sync
  work,        \* project_pipeline: state of each project's work row
  holder,      \* thread that holds the lease, NoThread once it is gone
  expired,     \* projects whose lease is past its expiry
  tombstones,  \* project_cleanup_tombstones
  files,       \* projects with files in the output directory
  stops, faults,
  \* history: slots this process lost to a claim or a start that raised, projects
  \* whose lease expired under a live thread, projects with files unlink left behind
  lost, stalled, stuck

memory   == <<process, reclaimer, count, registry, thread, drain, request, sweep>>
database == <<work, holder, expired, tombstones>>
history  == <<stops, faults, lost, stalled, stuck>>
vars     == <<memory, database, files, history>>

Free   == [at |-> "free", project |-> AnyWork]
NoCall == [at |-> "off", only |-> AnyWork, made |-> NoThread]

TypeOK ==
  /\ process \in {"up", "stopping", "down"}
  /\ reclaimer \in BOOLEAN
  /\ count \in 0 .. Capacity
  /\ registry \in [Projects -> Threads \cup {NoThread, Unstarted}]
  /\ thread \in [Threads -> [at : {"free", "created", "working", "writing",
                                   "leaving", "listing", "sweeping", "draining"},
                             project : Projects \cup {AnyWork}]]
  /\ drain \in [Callers -> [at : {"off", "check", "claim", "register"},
                            only : Projects \cup {AnyWork},
                            made : Threads \cup {NoThread}]]
  /\ request \in [Projects -> {"none", "joining", "sweeping"}]
  /\ sweep \in [Sweepers -> {"off", "joining", "removing", "done", "remains"}]
  /\ work \in [Projects -> {"none", "pending", "leased", "settled", "deleted"}]
  /\ holder \in [Projects -> Threads \cup {NoThread}]
  /\ expired \subseteq Projects /\ tombstones \subseteq Projects
  /\ files \subseteq Projects
  /\ stops \in 0 .. MaxStops /\ faults \in 0 .. MaxFaults
  /\ lost \in Nat /\ stalled \subseteq Projects /\ stuck \subseteq Projects

\* What a process that has just stopped, or not yet started, has in memory.
EmptyMemory ==
  /\ reclaimer' = FALSE /\ count' = 0
  /\ registry' = [p \in Projects |-> NoThread]
  /\ thread' = [t \in Threads |-> Free]
  /\ drain' = [a \in Callers |-> NoCall]
  /\ request' = [p \in Projects |-> "none"]
  /\ sweep' = [s \in Sweepers |-> "off"]

Init ==
  /\ process = "down" /\ reclaimer = FALSE /\ count = 0
  /\ registry = [p \in Projects |-> NoThread]
  /\ thread = [t \in Threads |-> Free]
  /\ drain = [a \in Callers |-> NoCall]
  /\ request = [p \in Projects |-> "none"]
  /\ sweep = [s \in Sweepers |-> "off"]
  /\ work = [p \in Projects |-> "none"]
  /\ holder = [p \in Projects |-> NoThread]
  /\ expired = {} /\ tombstones = {} /\ files = {}
  /\ stops = 0 /\ faults = 0 /\ lost = 0 /\ stalled = {} /\ stuck = {}

-----------------------------------------------------------------------------
(***************************************************************************)
(* _drain_durable_work.                                                    *)
(***************************************************************************)

Move(a, place)    == drain' = [drain EXCEPT ![a].at = place]
Calling(p)        == [NoCall EXCEPT !.at = "check", !.only = p]
IsThread(a)       == \E t \in Threads : a = Ending(t)

\* The call returns; a pipeline thread ends with it.
Return(a) ==
  /\ drain' = [drain EXCEPT ![a] = NoCall]
  /\ thread' = IF IsThread(a) THEN [thread EXCEPT ![a[2]] = Free] ELSE thread

\* Mutant: the comparison is off by one.
CapacityFullOffByOne == count > Capacity

CapacityFull == count >= Capacity

\* The stop event and, under the lock, the capacity are checked and a slot is
\* taken.
TakeSlot(a) ==
  /\ drain[a].at = "check"
  /\ IF process # "up" \/ CapacityFull
     THEN Return(a) /\ UNCHANGED count
     ELSE Move(a, "claim") /\ count' = count + 1 /\ UNCHANGED thread
  /\ UNCHANGED <<process, reclaimer, registry, request, sweep, database, files,
                 history>>

Eligible(p) == work[p] = "pending" \/ (work[p] = "leased" /\ p \in expired)

\* The oldest eligible row, among those asked for.
Claims(a, p) ==
  /\ Eligible(p) /\ drain[a].only \in {AnyWork, p}
  /\ \A q \in Projects : q < p /\ Eligible(q) => drain[a].only = p

\* Mutant: the slot is kept when nothing was claimed.
CountAfterNothing == count

\* durable_work_count once a claim came back empty.
CountGivenBack == count - 1

\* The row is leased and a thread made for it, or the slot is given back.
Claim(a) ==
  /\ drain[a].at = "claim"
  /\ \/ \E p \in Projects, t \in Threads :
          /\ Claims(a, p)
          /\ thread[t].at = "free"
          /\ thread' = [thread EXCEPT ![t] = [at |-> "created", project |-> p]]
          /\ drain' = [drain EXCEPT ![a].at = "register", ![a].made = t]
          /\ work' = [work EXCEPT ![p] = "leased"]
          /\ holder' = [holder EXCEPT ![p] = t]
          /\ expired' = expired \ {p}
          /\ UNCHANGED count
     \/ /\ \A p \in Projects : ~Claims(a, p)
        /\ count' = CountGivenBack
        /\ Return(a)
        /\ UNCHANGED <<work, holder, expired>>
  /\ UNCHANGED <<process, reclaimer, registry, request, sweep, tombstones,
                 files, history>>

\* _claim_next_work raises: the exception leaves the loop, and with it the
\* reclaimer, the request or the thread; the slot is not given back.
ClaimRaises(a) ==
  /\ ClaimMayRaise /\ faults < MaxFaults
  /\ drain[a].at = "claim"
  /\ Return(a)
  /\ reclaimer' = (reclaimer /\ a # Reclaimer)
  /\ faults' = faults + 1 /\ lost' = lost + 1
  /\ UNCHANGED <<process, count, registry, request, sweep, database, files,
                 stops, stalled, stuck>>

\* The registry keeps one thread per work_id, the latest; the thread starts.  A
\* call for one work_id returns, the others look for more.
Register(a) ==
  /\ drain[a].at = "register"
  /\ LET t == drain[a].made IN
     /\ registry' = [registry EXCEPT ![thread[t].project] = t]
     /\ thread' = [thread EXCEPT ![t].at = "working"]
  /\ drain' = [drain EXCEPT ![a] =
                 IF @.only # AnyWork THEN NoCall ELSE Calling(AnyWork)]
  /\ UNCHANGED <<process, reclaimer, count, request, sweep, database, files,
                 history>>

\* thread.start() raises: the registry keeps the thread that never runs, and the
\* exception leaves the loop like that of a claim.  Nobody gives the slot back,
\* nor renews the lease.
StartRaises(a) ==
  /\ StartMayRaise /\ faults < MaxFaults
  /\ drain[a].at = "register"
  /\ LET t == drain[a].made IN
     /\ registry' = [registry EXCEPT ![thread[t].project] = Unstarted]
     /\ thread' = [u \in Threads |->
                     IF u = t \/ a = Ending(u) THEN Free ELSE thread[u]]
  /\ drain' = [drain EXCEPT ![a] = NoCall]
  /\ reclaimer' = (reclaimer /\ a # Reclaimer)
  /\ faults' = faults + 1 /\ lost' = lost + 1
  /\ UNCHANGED <<process, count, request, sweep, database, files, stops, stalled,
                 stuck>>

\* _durable_work_reclaimer: at an interval, or when it is woken.
Reclaim ==
  /\ process = "up" /\ reclaimer
  /\ drain[Reclaimer].at = "off"
  /\ drain' = [drain EXCEPT ![Reclaimer] = Calling(AnyWork)]
  /\ UNCHANGED <<process, reclaimer, count, registry, thread, request, sweep,
                 database, files, history>>

\* create_project: the rows are committed, then the scheduler is called for
\* this work.
CreateProject(p) ==
  /\ process # "down"
  /\ work[p] = "none" /\ \A q \in Projects : q < p => work[q] # "none"
  /\ work' = [work EXCEPT ![p] = "pending"]
  /\ drain' = [drain EXCEPT ![Creator(p)] = Calling(p)]
  /\ UNCHANGED <<process, reclaimer, count, registry, thread, request, sweep,
                 holder, expired, tombstones, files, history>>

-----------------------------------------------------------------------------
(***************************************************************************)
(* A pipeline thread: _run_durable_work around run_project_pipeline.       *)
(***************************************************************************)

Goto(t, place) == thread' = [thread EXCEPT ![t].at = place]
Holds(t) ==
  LET p == thread[t].project IN
  holder[p] = t /\ p \notin expired /\ work[p] = "leased"

\* A transaction passes the fence; what follows it writes files.
PassFence(t) ==
  /\ thread[t].at = "working" /\ Holds(t)
  /\ Goto(t, "writing")
  /\ UNCHANGED <<process, reclaimer, count, registry, drain, request, sweep,
                 database, files, history>>

\* The provider, the mixer or the export writes; no fence guards a file.
WriteFiles(t) ==
  /\ thread[t].at = "writing"
  /\ Goto(t, "working")
  /\ files' = files \cup {thread[t].project}
  /\ UNCHANGED <<process, reclaimer, count, registry, drain, request, sweep,
                 database, history>>

SettleWork(t) ==
  /\ thread[t].at = "working" /\ Holds(t)
  /\ Goto(t, "leaving")
  /\ work' = [work EXCEPT ![thread[t].project] = "settled"]
  /\ UNCHANGED <<process, reclaimer, count, registry, drain, request, sweep,
                 holder, expired, tombstones, files, history>>

\* The fence rejects the thread, which ends without a write.
LoseFence(t) ==
  /\ thread[t].at = "working" /\ ~Holds(t)
  /\ Goto(t, "leaving")
  /\ UNCHANGED <<process, reclaimer, count, registry, drain, request, sweep,
                 database, files, history>>

\* The pipeline raises and cannot settle either (the database fails).
PipelineRaises(t) ==
  /\ PipelineMayRaise /\ faults < MaxFaults
  /\ thread[t].at \in {"working", "writing"}
  /\ Goto(t, "leaving")
  /\ faults' = faults + 1
  /\ UNCHANGED <<process, reclaimer, count, registry, drain, request, sweep,
                 database, files, stops, lost, stalled, stuck>>

\* Mutant: the tombstones are left to the next start.
LeaveSchedulerUnswept(t) ==
  /\ thread[t].at = "leaving"
  /\ count' = count - 1
  /\ registry' = [registry EXCEPT ![thread[t].project] = NoThread]
  /\ Goto(t, "draining")
  /\ drain' = [drain EXCEPT ![Ending(t)] = Calling(AnyWork)]
  /\ UNCHANGED <<process, reclaimer, request, sweep, database, files, history>>

\* The finally block, under the lock: the slot is given back and the registry
\* entry of the work_id is removed, whichever thread it names.
LeaveScheduler(t) ==
  /\ thread[t].at = "leaving"
  /\ count' = count - 1
  /\ registry' = [registry EXCEPT ![thread[t].project] = NoThread]
  /\ Goto(t, "listing")
  /\ UNCHANGED <<process, reclaimer, drain, request, sweep, database, files,
                 history>>

\* drain_project_cleanup_tombstones(work_id), then _drain_durable_work().
ListTombstones(t) ==
  /\ thread[t].at = "listing"
  /\ IF thread[t].project \in tombstones
     THEN /\ Goto(t, "sweeping")
          /\ sweep' = [sweep EXCEPT ![Ending(t)] = "joining"]
          /\ UNCHANGED drain
     ELSE /\ Goto(t, "draining")
          /\ drain' = [drain EXCEPT ![Ending(t)] = Calling(AnyWork)]
          /\ UNCHANGED sweep
  /\ UNCHANGED <<process, reclaimer, count, registry, request, database, files,
                 history>>

\* The thread of the holder has not reached its finally block.
HolderLives(p) ==
  \E t \in Threads :
    holder[p] = t /\ thread[t].project = p
      /\ thread[t].at \in {"created", "working", "writing", "leaving"}

LetExpire(p) ==
  /\ work[p] = "leased" /\ p \notin expired
  /\ expired' = expired \cup {p}
  /\ UNCHANGED <<memory, work, holder, tombstones, files, stops, lost, stuck>>

\* The lease passes its expiry because nobody renews it.
LeaseExpires(p) ==
  ~HolderLives(p) /\ LetExpire(p) /\ UNCHANGED <<faults, stalled>>

\* The lease passes its expiry under a thread that lives: its heartbeat died,
\* or the process slept.
Stall(p) ==
  /\ MayStall /\ faults < MaxFaults
  /\ HolderLives(p) /\ LetExpire(p)
  /\ faults' = faults + 1 /\ stalled' = stalled \cup {p}

-----------------------------------------------------------------------------
(***************************************************************************)
(* Deletion and the sweep.                                                 *)
(***************************************************************************)

\* Mutant: the answer of join is not looked at.
JoinReturnsAlways(p) == TRUE

\* _join_durable_work: no thread is registered.  Joining one that runs times
\* out, and the sweep is left to it; joining one that never started raises.
JoinReturns(p) == registry[p] = NoThread
JoinRaises(p)  == registry[p] = Unstarted

\* delete_project: the tombstone is inserted and the rows are removed in one
\* transaction, or the project is deleted already and only swept.
DeleteProject(p) ==
  /\ p \in Deletable
  /\ process # "down" /\ request[p] = "none"
  /\ \/ /\ work[p] \in {"pending", "leased", "settled"}
        /\ work' = [work EXCEPT ![p] = "deleted"]
        /\ tombstones' = tombstones \cup {p}
        /\ request' = [request EXCEPT ![p] = "joining"]
        /\ UNCHANGED sweep
     \/ /\ work[p] = "deleted" /\ p \in tombstones
        /\ request' = [request EXCEPT ![p] = "sweeping"]
        /\ sweep' = [sweep EXCEPT ![Deleter(p)] = "joining"]
        /\ UNCHANGED <<work, tombstones>>
  /\ UNCHANGED <<process, reclaimer, count, registry, thread, drain, holder,
                 expired, files, history>>

\* The request sweeps, or ends there: with its answer, or with the exception.
JoinWork(p) ==
  /\ request[p] = "joining"
  /\ IF JoinReturns(p)
     THEN /\ request' = [request EXCEPT ![p] = "sweeping"]
          /\ sweep' = [sweep EXCEPT ![Deleter(p)] = "joining"]
     ELSE /\ request' = [request EXCEPT ![p] = "none"]
          /\ UNCHANGED sweep
  /\ UNCHANGED <<process, reclaimer, count, registry, thread, drain, database,
                 files, history>>

Swept(s) == IF s[1] = "delete" THEN s[2] ELSE thread[s[2]].project

\* _sweep_project_cleanup_sync returns: to the request, or to the thread.
SweepReturns(s) ==
  /\ sweep' = [sweep EXCEPT ![s] = "off"]
  /\ IF s[1] = "delete"
     THEN /\ request' = [request EXCEPT ![s[2]] = "none"]
          /\ UNCHANGED <<thread, drain>>
     ELSE /\ Goto(s[2], "draining")
          /\ drain' = [drain EXCEPT ![s] = Calling(AnyWork)]
          /\ UNCHANGED request

\* It raises: out of the request, or out of the thread, which drains no more.
SweepRaises(s) ==
  /\ sweep' = [sweep EXCEPT ![s] = "off"]
  /\ IF s[1] = "delete"
     THEN request' = [request EXCEPT ![s[2]] = "none"] /\ UNCHANGED thread
     ELSE thread' = [thread EXCEPT ![s[2]] = Free] /\ UNCHANGED request
  /\ UNCHANGED drain

\* The tombstone is read and the work joined.
SweepJoins(s) ==
  /\ sweep[s] = "joining"
  /\ IF Swept(s) \in tombstones /\ JoinReturns(Swept(s))
     THEN /\ sweep' = [sweep EXCEPT ![s] = "removing"]
          /\ UNCHANGED <<request, thread, drain>>
     ELSE IF Swept(s) \in tombstones /\ JoinRaises(Swept(s)) THEN SweepRaises(s)
     ELSE SweepReturns(s)
  /\ UNCHANGED <<process, reclaimer, count, registry, database, files, history>>

\* The files are found by name and unlinked; what cannot be is kept in mind.
SweepRemoves(s) ==
  /\ sweep[s] = "removing"
  /\ \/ /\ files' = files \ {Swept(s)}
        /\ sweep' = [sweep EXCEPT ![s] = "done"]
        /\ UNCHANGED <<stuck, faults>>
     \/ /\ UnlinkMayFail /\ faults < MaxFaults /\ Swept(s) \in files
        /\ sweep' = [sweep EXCEPT ![s] = "remains"]
        /\ stuck' = stuck \cup {Swept(s)} /\ faults' = faults + 1
        /\ UNCHANGED files
  /\ UNCHANGED <<process, reclaimer, count, registry, thread, drain, request,
                 database, stops, lost, stalled>>

\* _record_cleanup_tombstone_result deletes the tombstone if nothing remains.
SweepRecords(s) ==
  /\ sweep[s] \in {"done", "remains"}
  /\ tombstones' = IF sweep[s] = "done" THEN tombstones \ {Swept(s)} ELSE tombstones
  /\ SweepReturns(s)
  /\ UNCHANGED <<process, reclaimer, count, registry, work, holder, expired,
                 files, history>>

-----------------------------------------------------------------------------
(***************************************************************************)
(* The lifespan of the process.                                            *)
(***************************************************************************)

\* Startup sweeps every tombstone before any thread or request runs, then
\* starts the reclaimer and drains once itself.
StartProcess ==
  /\ process = "down"
  /\ process' = "up" /\ reclaimer' = TRUE
  /\ \E left \in SUBSET (tombstones \cap files) :
       /\ left # {} => UnlinkMayFail /\ faults < MaxFaults
       /\ tombstones' = left /\ stuck' = stuck \cup left
       /\ files' = files \ (tombstones \ left)
       /\ faults' = IF left = {} THEN faults ELSE faults + 1
  /\ drain' = [drain EXCEPT ![Startup] = Calling(AnyWork),
                            ![Reclaimer] = Calling(AnyWork)]
  /\ UNCHANGED <<count, registry, thread, request, sweep, work, holder, expired,
                 stops, lost, stalled>>

\* Shutdown sets the stop event and waits for the reclaimer only; daemon
\* threads die with the process.
Shutdown ==
  /\ process = "up" /\ stops < MaxStops
  /\ process' = "stopping" /\ stops' = stops + 1
  /\ UNCHANGED <<reclaimer, count, registry, thread, drain, request, sweep,
                 database, files, faults, lost, stalled, stuck>>

Stop ==
  /\ \/ process = "stopping" /\ UNCHANGED stops
     \/ process = "up" /\ stops < MaxStops /\ stops' = stops + 1   \* a crash
  /\ process' = "down"
  /\ EmptyMemory /\ lost' = 0
  /\ holder' = [p \in Projects |-> NoThread]
  /\ UNCHANGED <<work, expired, tombstones, files, faults, stalled, stuck>>

-----------------------------------------------------------------------------

DrainStep(a) == TakeSlot(a) \/ Claim(a) \/ Register(a)

ThreadStep(t) ==
  PassFence(t) \/ WriteFiles(t) \/ SettleWork(t) \/ LoseFence(t)
    \/ LeaveScheduler(t) \/ ListTombstones(t)

SweepStep(s) == SweepJoins(s) \/ SweepRemoves(s) \/ SweepRecords(s)

Next ==
  \/ \E a \in Callers : DrainStep(a) \/ ClaimRaises(a) \/ StartRaises(a)
  \/ \E t \in Threads : ThreadStep(t) \/ PipelineRaises(t)
  \/ \E s \in Sweepers : SweepStep(s)
  \/ \E p \in Projects : \/ CreateProject(p) \/ DeleteProject(p) \/ JoinWork(p)
                         \/ LeaseExpires(p) \/ Stall(p)
  \/ Reclaim \/ StartProcess \/ Shutdown \/ Stop

\* Steps of running code are taken; the reclaimer polls; leases nobody renews
\* expire; a stopped service is started again; a pipeline settles in the end.
Fairness ==
  /\ \A a \in Callers : WF_vars(DrainStep(a))
  /\ \A t \in Threads : WF_vars(ThreadStep(t)) /\ SF_vars(SettleWork(t))
  /\ \A s \in Sweepers : WF_vars(SweepStep(s))
  /\ \A p \in Projects : WF_vars(JoinWork(p)) /\ WF_vars(LeaseExpires(p))
  /\ WF_vars(Reclaim) /\ WF_vars(StartProcess)
  /\ WF_vars(process = "stopping" /\ Stop)

Spec == Init /\ [][Next]_vars /\ Fairness

-----------------------------------------------------------------------------
(***************************************************************************)
(* Properties.                                                             *)
(***************************************************************************)

Occupied == {t \in Threads : thread[t].at \in {"created", "working", "writing",
                                               "leaving"}}
Reserved == {a \in Callers : drain[a].at = "claim"}

\* durable_work_count, adjusted in four places under the lock, is the number
\* of threads that work plus the slots reserved for a claim under way: none is
\* given back twice, also when a thread's finally block and other callers
\* interleave, and none leaks but those of claims and of thread starts that
\* raised.  As the count stays within the capacity (TypeOK), so does the number
\* of pipelines.
SlotsAreExact ==
  count = Cardinality(Occupied) + Cardinality(Reserved) + lost

\* A file of a deleted project is always named by a tombstone, so that some
\* sweep still removes it: no sweep forgets the tombstone while a thread of
\* the project may yet write.  The project whose lease expired under a live
\* thread is the exception: two threads share its registry entry, and the end
\* of either lets the sweep go ahead while the other writes.
NoOrphanFiles ==
  \A p \in files \ stalled : work[p] = "deleted" => p \in tombstones

\* Neither a request that finds the work running nor a thread that ends just
\* before the deletion leaves the tombstone to the other: once no request, no
\* sweep and no thread of a deleted project is left, it has been swept, unless
\* a file of it could not be unlinked, or the registry names a thread of it that
\* never started, which nobody can join.
SweptWhenQuiet ==
  \A p \in tombstones \ stuck :
    process = "up" =>
      \/ request[p] # "none" \/ JoinRaises(p)
      \/ \E t \in Threads : thread[t].project = p

\* Eligible work is claimed by some thread in the end, whatever fills the
\* slots in between.
EligibleWorkIsClaimed ==
  \A p \in Projects : work[p] = "pending" ~> work[p] # "pending"
=============================================================================
