------------------------ MODULE WorkSchedulerProofs ------------------------
(***************************************************************************)
(* Proofs about WorkScheduler for any number of projects and threads, any  *)
(* capacity and any number of stops and faults.                            *)
(*                                                                         *)
(* Four things are promised: the slot count is exact, it stays within the  *)
(* capacity, no file of a deleted project is forgotten, and no tombstone   *)
(* is left to nobody.  None is inductive.  The count needs to be known to  *)
(* change together with the set of threads that work and of calls that     *)
(* hold a slot (Linked).  The files need the fence: while a lease has not  *)
(* expired under its thread, at most one thread works for a project, it is *)
(* the one in the registry, and once a sweep has seen the registry empty   *)
(* no thread of a deleted project passes the fence again (Owned, Fenced).  *)
(* A file that is there is remembered by a row or a tombstone              *)
(* (Remembered).  The tombstones need to be known to be watched by a       *)
(* request, or by a thread that has yet to list them (Watched).            *)
(***************************************************************************)
EXTENDS WorkScheduler, TLAPS, FiniteSetTheorems

AtWork  == {"created", "working", "writing", "leaving"}
Started == {"working", "writing", "leaving"}
ToList  == AtWork \cup {"listing", "sweeping"}

WorksFor(t, p) == thread[t].project = p /\ thread[t].at \in AtWork

MemoryIsEmpty ==
  /\ reclaimer = FALSE /\ count = 0 /\ lost = 0
  /\ \A p \in Projects : registry[p] = NoThread /\ request[p] = "none"
  /\ \A t \in Threads : thread[t].at = "free"
  /\ \A a \in Callers : drain[a].at = "off"
  /\ \A s \in Sweepers : sweep[s] = "off"

\* A thread, the call it makes and the sweep it makes agree on where it is.
ThreadsLinked ==
  \A t \in Threads :
    /\ thread[t].at = "free" <=> thread[t].project = AnyWork
    /\ drain[Ending(t)].at # "off" <=> thread[t].at = "draining"
    /\ sweep[Ending(t)] # "off" <=> thread[t].at = "sweeping"
    /\ drain[Ending(t)].only = AnyWork

\* So do a request and its sweep; a project that is not there calls nobody.
RequestsLinked ==
  \A p \in Projects :
    /\ sweep[Deleter(p)] # "off" <=> request[p] = "sweeping"
    /\ work[p] = "none" => drain[Creator(p)].at = "off"

\* A call that has claimed has a thread of its own.
CallsLinked ==
  \A a \in Callers : drain[a].at = "register" =>
    /\ drain[a].made \in Threads
    /\ thread[drain[a].made].at = "created"
    /\ \A b \in Callers :
         drain[b].at = "register" /\ drain[b].made = drain[a].made => b = a

Linked ==
  /\ process = "down" => MemoryIsEmpty
  /\ ThreadsLinked /\ RequestsLinked /\ CallsLinked

\* Only work that was claimed has threads; but for a stall, the one that works
\* for a project is the holder of its lease and is in the registry, which names
\* nobody else, though it may keep a thread that never ran.
Owned ==
  /\ \A t \in Threads, p \in Projects :
       thread[t].project = p => work[p] \notin {"none", "pending"}
  /\ \A t \in Threads, p \in Projects \ stalled : WorksFor(t, p) =>
       /\ holder[p] = t /\ p \notin expired
       /\ thread[t].at \in Started => registry[p] = t
  /\ \A p \in Projects : registry[p] \in Threads =>
       /\ thread[registry[p]].project = p
       /\ thread[registry[p]].at \in Started

\* What is swept is deleted; once a sweep has joined, nobody writes.
SweepIsFenced(s) ==
  sweep[s] # "off" =>
    /\ work[Swept(s)] = "deleted"
    /\ sweep[s] = "remains" => Swept(s) \in stuck
    /\ sweep[s] \in {"removing", "done", "remains"} /\ Swept(s) \notin stalled =>
         \A t \in Threads : thread[t].project = Swept(s) => thread[t].at # "writing"
    /\ sweep[s] = "done" => Swept(s) \notin files \ stalled

Fenced ==
  /\ \A p \in tombstones : work[p] = "deleted"
  /\ \A p \in Projects : request[p] # "none" => work[p] = "deleted"
  /\ \A s \in Sweepers : SweepIsFenced(s)

\* A deleted project that has files, or a thread about to write some, has its
\* tombstone.
Remembered ==
  \A p \in Projects \ stalled :
    work[p] = "deleted" /\ (p \in files \/ \E t \in Threads :
                              thread[t].project = p /\ thread[t].at = "writing")
      => p \in tombstones

\* A tombstone has a request, or a thread that has yet to list it or sweeps, or
\* a thread that cannot be joined.
Watched ==
  \A p \in tombstones \ stuck :
    process = "up" =>
      \/ request[p] # "none" \/ registry[p] = Unstarted
      \/ \E t \in Threads : thread[t].project = p /\ thread[t].at \in ToList

IInv ==
  TypeOK /\ SlotsAreExact /\ Linked /\ Owned /\ Fenced /\ Remembered /\ Watched

-----------------------------------------------------------------------------
(***************************************************************************)
(* Callers and sweepers.                                                   *)
(***************************************************************************)

\* Who runs and who sweeps are told apart by their names.
LEMMA Callees ==
  /\ Reclaimer \in Callers /\ Startup \in Callers /\ Reclaimer # Startup
  /\ \A p \in Projects : /\ Creator(p) \in Callers /\ Creator(p) \notin {Reclaimer, Startup}
                         /\ Deleter(p) \in Sweepers
                         /\ Swept(Deleter(p)) = p /\ Swept(Deleter(p))' = p
                         /\ Deleter(p)[1] = "delete" /\ Deleter(p)[2] = p
                         /\ ~IsThread(Creator(p))
  /\ \A t \in Threads : /\ Ending(t) \in Callers /\ Ending(t) \notin {Reclaimer, Startup}
                        /\ Ending(t) \in Sweepers /\ Ending(t)[2] = t
                        /\ Ending(t)[1] # "delete" /\ IsThread(Ending(t))
                        /\ Swept(Ending(t)) = thread[t].project
                        /\ Swept(Ending(t))' = thread'[t].project
  /\ \A p, q \in Projects : Creator(p) = Creator(q) => p = q
  /\ \A p, q \in Projects : Deleter(p) = Deleter(q) => p = q
  /\ \A t, u \in Threads : Ending(t) = Ending(u) => t = u
  /\ \A t \in Threads, p \in Projects : Ending(t) # Creator(p) /\ Ending(t) # Deleter(p)
  /\ ~IsThread(Reclaimer) /\ ~IsThread(Startup)
  /\ \A a \in Callers : \/ a = Reclaimer \/ a = Startup
                        \/ \E p \in Projects : a = Creator(p)
                        \/ \E t \in Threads : a = Ending(t)
  /\ \A s \in Sweepers : \/ \E p \in Projects : s = Deleter(p)
                         \/ \E t \in Threads : s = Ending(t)
  BY DEF Callers, Sweepers, Reclaimer, Startup, Creator, Deleter, Ending, IsThread, Swept

\* There are finitely many of them.
LEMMA FiniteCallers == IsFiniteSet(Callers)
<1> DEFINE All == {"reclaimer", "startup", "create", "thread"}
                    \X ((0 .. NumProjects) \cup Threads)
<1>1. IsFiniteSet((0 .. NumProjects) \cup Threads)
  <2>1. IsFiniteSet(0 .. NumProjects)
    <3>1. 0 \in Int /\ NumProjects \in Int
      BY SchedulerAssumption
    <3> QED BY <3>1, FS_Interval
  <2>2. IsFiniteSet(Threads)
    BY SchedulerAssumption
  <2> QED BY <2>1, <2>2, FS_Union
<1>2. IsFiniteSet({"reclaimer", "startup", "create", "thread"})
  <2>1. IsFiniteSet({"reclaimer"})
    BY FS_Singleton
  <2>2. IsFiniteSet({"reclaimer"} \cup {"startup"})
    BY <2>1, FS_AddElement
  <2>3. IsFiniteSet({"reclaimer"} \cup {"startup"} \cup {"create"})
    BY <2>2, FS_AddElement
  <2>4. IsFiniteSet({"reclaimer"} \cup {"startup"} \cup {"create"} \cup {"thread"})
    BY <2>3, FS_AddElement
  <2>5. {"reclaimer", "startup", "create", "thread"}
          = {"reclaimer"} \cup {"startup"} \cup {"create"} \cup {"thread"}
    OBVIOUS
  <2> QED BY <2>4, <2>5
<1>3. IsFiniteSet(All)
  BY <1>1, <1>2, FS_Product
<1>4. Callers \subseteq All
  BY SchedulerAssumption DEF Callers, Projects, Reclaimer, Startup, Creator, Ending
<1> QED BY <1>3, <1>4, FS_Subset

-----------------------------------------------------------------------------
(***************************************************************************)
(* Types.                                                                  *)
(***************************************************************************)


Places  == {"free", "created", "working", "writing", "leaving", "listing",
            "sweeping", "draining"}
Records == [at : Places, project : Projects \cup {AnyWork}]
InCalls == [at : {"off", "check", "claim", "register"},
            only : Projects \cup {AnyWork}, made : Threads \cup {NoThread}]
SweepPlaces == {"off", "joining", "removing", "done", "remains"}

\* What moving a thread, a call or a sweep does to it and to the others.
LEMMA Gotos ==
  ASSUME TypeOK, NEW t \in Threads, NEW place \in Places, Goto(t, place)
  PROVE  /\ thread' \in [Threads -> Records]
         /\ thread'[t].at = place /\ thread'[t].project = thread[t].project
         /\ \A u \in Threads \ {t} : thread'[u] = thread[u]
<1>1. thread \in [Threads -> Records]
  BY DEF TypeOK, Records, Places
<1>2. thread' = [thread EXCEPT ![t].at = place]
  BY DEF Goto
<1> QED BY <1>1, <1>2 DEF Records

LEMMA Moves ==
  ASSUME TypeOK, NEW a \in Callers, NEW place \in {"check", "claim", "register"},
         Move(a, place)
  PROVE  /\ drain' \in [Callers -> InCalls]
         /\ drain'[a].at = place /\ drain'[a].made = drain[a].made
         /\ drain'[a].only = drain[a].only
         /\ \A b \in Callers \ {a} : drain'[b] = drain[b]
  BY DEF Move, TypeOK, InCalls

LEMMA StartsCall ==
  ASSUME TypeOK, NEW a \in Callers, NEW p \in Projects \cup {AnyWork},
         drain' = [drain EXCEPT ![a] = Calling(p)]
  PROVE  /\ drain' \in [Callers -> InCalls]
         /\ drain'[a].at = "check" /\ drain'[a].only = p
         /\ \A b \in Callers \ {a} : drain'[b] = drain[b]
  BY DEF Calling, NoCall, TypeOK, InCalls

LEMMA Returns ==
  ASSUME TypeOK, NEW a \in Callers, Return(a)
  PROVE  /\ drain' \in [Callers -> InCalls] /\ thread' \in [Threads -> Records]
         /\ drain'[a].at = "off" /\ drain'[a].only = AnyWork
         /\ \A b \in Callers \ {a} : drain'[b] = drain[b]
         /\ \A t \in Threads : a = Ending(t) =>
              thread'[t].at = "free" /\ thread'[t].project = AnyWork
         /\ \A t \in Threads : a # Ending(t) => thread'[t] = thread[t]
<1>1. drain' \in [Callers -> InCalls] /\ drain'[a].at = "off" /\ drain'[a].only = AnyWork
      /\ \A b \in Callers \ {a} : drain'[b] = drain[b]
  BY DEF Return, NoCall, TypeOK, InCalls
<1>2. CASE IsThread(a)
  <2>1. PICK t \in Threads : a = Ending(t)
    BY <1>2 DEF IsThread
  <2>2. thread' = [thread EXCEPT ![t] = Free]
    BY <1>2, <2>1, Callees DEF Return
  <2> QED BY <1>1, <2>1, <2>2, Callees DEF Free, TypeOK, Records, Places
<1>3. CASE ~IsThread(a)
  BY <1>1, <1>3 DEF Return, IsThread, TypeOK, Records, Places
<1> QED BY <1>2, <1>3

LEMMA SweepEnds ==
  ASSUME TypeOK, NEW s \in Sweepers, SweepReturns(s)
  PROVE  /\ drain' \in [Callers -> InCalls] /\ thread' \in [Threads -> Records]
         /\ request' \in [Projects -> {"none", "joining", "sweeping"}]
         /\ sweep' \in [Sweepers -> SweepPlaces] /\ sweep'[s] = "off"
         /\ \A r \in Sweepers \ {s} : sweep'[r] = sweep[r]
         /\ \/ \E p \in Projects :
                 /\ s = Deleter(p) /\ request'[p] = "none"
                 /\ \A q \in Projects \ {p} : request'[q] = request[q]
                 /\ UNCHANGED <<thread, drain>>
            \/ \E t \in Threads :
                 /\ s = Ending(t) /\ UNCHANGED request
                 /\ thread'[t].at = "draining" /\ thread'[t].project = thread[t].project
                 /\ \A u \in Threads \ {t} : thread'[u] = thread[u]
                 /\ drain'[Ending(t)].at = "check" /\ drain'[Ending(t)].only = AnyWork
                 /\ \A b \in Callers \ {Ending(t)} : drain'[b] = drain[b]
<1>1. sweep' \in [Sweepers -> SweepPlaces] /\ sweep'[s] = "off"
      /\ \A r \in Sweepers \ {s} : sweep'[r] = sweep[r]
  BY DEF SweepReturns, TypeOK, SweepPlaces
<1>2. ASSUME NEW p \in Projects, s = Deleter(p)
      PROVE  /\ request'[p] = "none" /\ UNCHANGED <<thread, drain>>
             /\ request' \in [Projects -> {"none", "joining", "sweeping"}]
             /\ \A q \in Projects \ {p} : request'[q] = request[q]
  <2>1. request' = [request EXCEPT ![p] = "none"] /\ UNCHANGED <<thread, drain>>
    BY <1>2, Callees DEF SweepReturns
  <2> QED BY <2>1 DEF TypeOK
<1>3. ASSUME NEW t \in Threads, s = Ending(t)
      PROVE  /\ UNCHANGED request
             /\ thread' \in [Threads -> Records] /\ drain' \in [Callers -> InCalls]
             /\ thread'[t].at = "draining" /\ thread'[t].project = thread[t].project
             /\ \A u \in Threads \ {t} : thread'[u] = thread[u]
             /\ drain'[Ending(t)].at = "check" /\ drain'[Ending(t)].only = AnyWork
             /\ \A b \in Callers \ {Ending(t)} : drain'[b] = drain[b]
  <2>1. Goto(t, "draining") /\ UNCHANGED request
        /\ drain' = [drain EXCEPT ![Ending(t)] = Calling(AnyWork)]
    BY <1>3, Callees DEF SweepReturns
  <2>2. /\ thread' \in [Threads -> Records]
        /\ thread'[t].at = "draining" /\ thread'[t].project = thread[t].project
        /\ \A u \in Threads \ {t} : thread'[u] = thread[u]
    BY <2>1, Gotos DEF Places
  <2>3. Ending(t) \in Callers /\ AnyWork \in Projects \cup {AnyWork}
    BY Callees
  <2>4. /\ drain' \in [Callers -> InCalls]
        /\ drain'[Ending(t)].at = "check" /\ drain'[Ending(t)].only = AnyWork
        /\ \A b \in Callers \ {Ending(t)} : drain'[b] = drain[b]
    BY <2>1, <2>3, StartsCall
  <2> QED BY <2>1, <2>2, <2>4
<1>4. thread \in [Threads -> Records] /\ drain \in [Callers -> InCalls]
      /\ request \in [Projects -> {"none", "joining", "sweeping"}]
  BY DEF TypeOK, Records, Places, InCalls
<1>5. (\E p \in Projects : s = Deleter(p)) \/ (\E t \in Threads : s = Ending(t))
  BY Callees
<1>6. CASE \E p \in Projects : s = Deleter(p)
  <2>1. PICK p \in Projects : s = Deleter(p)
    BY <1>6
  <2> QED BY <1>1, <1>2, <1>4, <2>1
<1>7. CASE \E t \in Threads : s = Ending(t)
  <2>1. PICK t \in Threads : s = Ending(t)
    BY <1>7
  <2> QED BY <1>1, <1>3, <1>4, <2>1
<1> QED BY <1>5, <1>6, <1>7

LEMMA SweepFails ==
  ASSUME TypeOK, NEW s \in Sweepers, SweepRaises(s)
  PROVE  /\ UNCHANGED drain /\ thread' \in [Threads -> Records]
         /\ request' \in [Projects -> {"none", "joining", "sweeping"}]
         /\ sweep' \in [Sweepers -> SweepPlaces] /\ sweep'[s] = "off"
         /\ \A r \in Sweepers \ {s} : sweep'[r] = sweep[r]
         /\ \/ \E p \in Projects :
                 /\ s = Deleter(p) /\ request'[p] = "none" /\ UNCHANGED thread
                 /\ \A q \in Projects \ {p} : request'[q] = request[q]
            \/ \E t \in Threads :
                 /\ s = Ending(t) /\ UNCHANGED request
                 /\ thread'[t].at = "free" /\ thread'[t].project = AnyWork
                 /\ \A u \in Threads \ {t} : thread'[u] = thread[u]
<1>1. sweep' \in [Sweepers -> SweepPlaces] /\ sweep'[s] = "off" /\ UNCHANGED drain
      /\ \A r \in Sweepers \ {s} : sweep'[r] = sweep[r]
  BY DEF SweepRaises, TypeOK, SweepPlaces
<1>2. thread \in [Threads -> Records]
      /\ request \in [Projects -> {"none", "joining", "sweeping"}]
  BY DEF TypeOK, Records, Places
<1>3. ASSUME NEW p \in Projects, s = Deleter(p)
      PROVE  request' = [request EXCEPT ![p] = "none"] /\ UNCHANGED thread
  BY <1>3, Callees DEF SweepRaises
<1>4. ASSUME NEW t \in Threads, s = Ending(t)
      PROVE  /\ UNCHANGED request /\ thread' \in [Threads -> Records]
             /\ thread'[t].at = "free" /\ thread'[t].project = AnyWork
             /\ \A u \in Threads \ {t} : thread'[u] = thread[u]
  <2>1. thread' = [thread EXCEPT ![t] = Free] /\ UNCHANGED request
    BY <1>4, Callees DEF SweepRaises
  <2>2. Free \in Records /\ Free.at = "free" /\ Free.project = AnyWork
    BY DEF Free, Records, Places
  <2> QED BY <1>2, <2>1, <2>2
<1>5. (\E p \in Projects : s = Deleter(p)) \/ (\E t \in Threads : s = Ending(t))
  BY Callees
<1>6. CASE \E p \in Projects : s = Deleter(p)
  <2>1. PICK p \in Projects : s = Deleter(p)
    BY <1>6
  <2> QED BY <1>1, <1>2, <1>3, <2>1
<1>7. CASE \E t \in Threads : s = Ending(t)
  <2>1. PICK t \in Threads : s = Ending(t)
    BY <1>7
  <2> QED BY <1>1, <1>2, <1>4, <2>1
<1> QED BY <1>5, <1>6, <1>7

\* TypeOK, but for the count being at least zero, which follows once it is exact.
Typed ==
  /\ process \in {"up", "stopping", "down"} /\ reclaimer \in BOOLEAN
  /\ count \in Int /\ count <= Capacity
  /\ registry \in [Projects -> Threads \cup {NoThread, Unstarted}]
  /\ thread \in [Threads -> Records] /\ drain \in [Callers -> InCalls]
  /\ request \in [Projects -> {"none", "joining", "sweeping"}]
  /\ sweep \in [Sweepers -> SweepPlaces]
  /\ work \in [Projects -> {"none", "pending", "leased", "settled", "deleted"}]
  /\ holder \in [Projects -> Threads \cup {NoThread}]
  /\ expired \subseteq Projects /\ tombstones \subseteq Projects
  /\ files \subseteq Projects
  /\ stops \in 0 .. MaxStops /\ faults \in 0 .. MaxFaults
  /\ lost \in Nat /\ stalled \subseteq Projects /\ stuck \subseteq Projects

LEMMA TypeIsTyped == TypeOK <=> Typed /\ count >= 0
  BY SchedulerAssumption DEF TypeOK, Typed, Records, Places, InCalls, SweepPlaces

\* A thread that is not free works for some project.
LEMMA Working ==
  ASSUME TypeOK, Linked, NEW t \in Threads, thread[t].at # "free"
  PROVE  thread[t].project \in Projects
  BY DEF TypeOK, Linked, ThreadsLinked, RequestsLinked, CallsLinked

\* A call that registers a thread moves it on, and itself.
LEMMA Registers ==
  ASSUME TypeOK, Linked, NEW a \in Callers, Register(a)
  PROVE  \E t \in Threads, p \in Projects :
           /\ t = drain[a].made /\ p = thread[t].project
           /\ drain[a].at = "register" /\ thread[t].at = "created"
           /\ registry' \in [Projects -> Threads \cup {NoThread, Unstarted}]
           /\ registry'[p] = t
           /\ \A q \in Projects \ {p} : registry'[q] = registry[q]
           /\ thread' \in [Threads -> Records]
           /\ thread'[t].at = "working" /\ thread'[t].project = p
           /\ \A u \in Threads \ {t} : thread'[u] = thread[u]
           /\ drain' \in [Callers -> InCalls] /\ drain'[a].at \in {"off", "check"}
           /\ drain[a].only = AnyWork => drain'[a].at = "check" /\ drain'[a].only = AnyWork
           /\ \A b \in Callers \ {a} : drain'[b] = drain[b]
<1> DEFINE t == drain[a].made
           p == thread[t].project
<1>1. drain[a].at = "register" /\ t \in Threads /\ thread[t].at = "created"
  BY DEF Register, Linked, ThreadsLinked, RequestsLinked, CallsLinked
<1>2. p \in Projects
  BY <1>1, Working
<1>3. registry' = [registry EXCEPT ![p] = t] /\ Goto(t, "working")
  BY DEF Register, Goto
<1>4. \/ drain' = [drain EXCEPT ![a] = NoCall] /\ drain[a].only # AnyWork
      \/ drain' = [drain EXCEPT ![a] = Calling(AnyWork)]
  BY DEF Register, TypeOK
<1>5. drain' \in [Callers -> InCalls] /\ drain'[a].at \in {"off", "check"}
      /\ (drain[a].only = AnyWork => drain'[a].at = "check" /\ drain'[a].only = AnyWork)
      /\ \A b \in Callers \ {a} : drain'[b] = drain[b]
  <2>1. CASE drain' = [drain EXCEPT ![a] = NoCall] /\ drain[a].only # AnyWork
    BY <2>1 DEF TypeOK, NoCall, InCalls
  <2>2. CASE drain' = [drain EXCEPT ![a] = Calling(AnyWork)]
    BY <2>2, StartsCall
  <2> QED BY <1>4, <2>1, <2>2
<1>6. registry' \in [Projects -> Threads \cup {NoThread, Unstarted}] /\ registry'[p] = t
      /\ \A q \in Projects \ {p} : registry'[q] = registry[q]
  BY <1>1, <1>2, <1>3 DEF TypeOK
<1>7. thread' \in [Threads -> Records]
      /\ thread'[t].at = "working" /\ thread'[t].project = p
      /\ \A u \in Threads \ {t} : thread'[u] = thread[u]
  BY <1>1, <1>3, Gotos DEF Places
<1> QED BY <1>1, <1>2, <1>5, <1>6, <1>7

\* A call whose thread cannot be started leaves its slot and the registry entry
\* behind, and ends with the thread it runs in.
LEMMA StartFails ==
  ASSUME TypeOK, Linked, NEW a \in Callers, StartRaises(a)
  PROVE  \E t \in Threads, p \in Projects :
           /\ t = drain[a].made /\ p = thread[t].project
           /\ drain[a].at = "register" /\ thread[t].at = "created"
           /\ registry' \in [Projects -> Threads \cup {NoThread, Unstarted}]
           /\ registry'[p] = Unstarted
           /\ \A q \in Projects \ {p} : registry'[q] = registry[q]
           /\ thread' \in [Threads -> Records]
           /\ thread'[t].at = "free" /\ thread'[t].project = AnyWork
           /\ \A u \in Threads \ {t} :
                \/ thread'[u] = thread[u] /\ a # Ending(u)
                \/ /\ a = Ending(u) /\ thread[u].at = "draining"
                   /\ thread'[u].at = "free" /\ thread'[u].project = AnyWork
           /\ drain' \in [Callers -> InCalls]
           /\ drain'[a].at = "off" /\ drain'[a].only = AnyWork
           /\ \A b \in Callers \ {a} : drain'[b] = drain[b]
<1> DEFINE t == drain[a].made
           p == thread[t].project
<1>1. drain[a].at = "register" /\ t \in Threads /\ thread[t].at = "created"
  BY DEF StartRaises, Linked, CallsLinked
<1>2. p \in Projects
  BY <1>1, Working
<1>3. \A u \in Threads : a = Ending(u) => thread[u].at = "draining"
  BY <1>1 DEF Linked, ThreadsLinked
<1>4. /\ registry' = [registry EXCEPT ![p] = Unstarted]
      /\ thread' = [u \in Threads |-> IF u = t \/ a = Ending(u) THEN Free ELSE thread[u]]
      /\ drain' = [drain EXCEPT ![a] = NoCall]
  BY DEF StartRaises
<1>5. drain' \in [Callers -> InCalls] /\ drain'[a].at = "off" /\ drain'[a].only = AnyWork
      /\ \A b \in Callers \ {a} : drain'[b] = drain[b]
  BY <1>4 DEF TypeOK, NoCall, InCalls
<1>6. registry' \in [Projects -> Threads \cup {NoThread, Unstarted}]
      /\ registry'[p] = Unstarted /\ \A q \in Projects \ {p} : registry'[q] = registry[q]
  BY <1>2, <1>4 DEF TypeOK
<1>7. thread \in [Threads -> Records] /\ Free \in Records
      /\ Free.at = "free" /\ Free.project = AnyWork
  BY DEF TypeOK, Records, Places, Free
<1>8. thread' \in [Threads -> Records] /\ thread'[t] = Free
      /\ \A u \in Threads \ {t} : thread'[u] = IF a = Ending(u) THEN Free ELSE thread[u]
  BY <1>1, <1>4, <1>7
<1> QED BY <1>1, <1>2, <1>3, <1>5, <1>6, <1>7, <1>8

\* A claim that finds work leases it to a new thread; one that does not returns.
Leases(a, p, t) ==
  /\ Claims(a, p) /\ thread[t].at = "free"
  /\ thread' \in [Threads -> Records]
  /\ thread'[t].at = "created" /\ thread'[t].project = p
  /\ \A u \in Threads \ {t} : thread'[u] = thread[u]
  /\ drain' \in [Callers -> InCalls] /\ drain'[a].at = "register" /\ drain'[a].made = t
  /\ drain'[a].only = drain[a].only
  /\ \A b \in Callers \ {a} : drain'[b] = drain[b]
  /\ work' = [work EXCEPT ![p] = "leased"] /\ holder' = [holder EXCEPT ![p] = t]
  /\ expired' = expired \ {p} /\ UNCHANGED count

LEMMA ClaimsOrReturns ==
  ASSUME TypeOK, NEW a \in Callers, Claim(a)
  PROVE  /\ drain[a].at = "claim"
         /\ \/ \E p \in Projects, t \in Threads : Leases(a, p, t)
            \/ Return(a) /\ count' = count - 1 /\ UNCHANGED <<work, holder, expired>>
<1>1. ASSUME NEW p \in Projects, NEW t \in Threads,
             Claims(a, p), thread[t].at = "free",
             thread' = [thread EXCEPT ![t] = [at |-> "created", project |-> p]],
             drain' = [drain EXCEPT ![a].at = "register", ![a].made = t],
             work' = [work EXCEPT ![p] = "leased"],
             holder' = [holder EXCEPT ![p] = t],
             expired' = expired \ {p}, UNCHANGED count
      PROVE  Leases(a, p, t)
  <2>1. thread' \in [Threads -> Records] /\ thread'[t] = [at |-> "created", project |-> p]
        /\ \A u \in Threads \ {t} : thread'[u] = thread[u]
    BY <1>1 DEF TypeOK, Records, Places
  <2>2. drain' \in [Callers -> InCalls] /\ drain'[a].at = "register" /\ drain'[a].made = t
        /\ drain'[a].only = drain[a].only
        /\ \A b \in Callers \ {a} : drain'[b] = drain[b]
    <3> DEFINE reserved == [drain EXCEPT ![a].at = "register"]
    <3>1. reserved \in [Callers -> InCalls] /\ reserved[a].at = "register"
          /\ reserved[a].only = drain[a].only
          /\ \A b \in Callers \ {a} : reserved[b] = drain[b]
      BY DEF TypeOK, InCalls
    <3>2. drain' = [reserved EXCEPT ![a].made = t]
      BY <1>1
    <3> HIDE DEF reserved
    <3> QED BY <3>1, <3>2 DEF InCalls
  <2> QED BY <1>1, <2>1, <2>2 DEF Leases
<1> QED BY <1>1 DEF Claim, CountGivenBack

\* A start has two calls under way, a stop none.
LEMMA Starts ==
  ASSUME TypeOK, StartProcess
  PROVE  /\ drain' \in [Callers -> InCalls]
         /\ drain'[Startup].at = "check" /\ drain'[Reclaimer].at = "check"
         /\ \A b \in Callers \ {Startup, Reclaimer} : drain'[b] = drain[b]
<1> DEFINE once == [drain EXCEPT ![Startup] = Calling(AnyWork)]
<1>1. Calling(AnyWork) \in InCalls /\ Calling(AnyWork).at = "check"
  BY DEF Calling, NoCall, InCalls
<1>2. once \in [Callers -> InCalls] /\ once[Startup] = Calling(AnyWork)
      /\ \A b \in Callers \ {Startup} : once[b] = drain[b]
  BY <1>1, Callees DEF TypeOK, InCalls
<1>3. drain' = [once EXCEPT ![Reclaimer] = Calling(AnyWork)]
  BY DEF StartProcess
<1> HIDE DEF once
<1> QED BY <1>1, <1>2, <1>3, Callees

LEMMA Stops ==
  ASSUME Stop
  PROVE  /\ thread' \in [Threads -> Records] /\ drain' \in [Callers -> InCalls]
         /\ \A t \in Threads : thread'[t].at = "free" /\ thread'[t].project = AnyWork
         /\ \A a \in Callers : drain'[a].at = "off" /\ drain'[a].only = AnyWork
<1>1. Free \in Records /\ Free.at = "free" /\ Free.project = AnyWork
  BY DEF Free, Records, Places
<1>2. NoCall \in InCalls /\ NoCall.at = "off" /\ NoCall.only = AnyWork
  BY DEF NoCall, InCalls
<1>3. thread' = [t \in Threads |-> Free] /\ drain' = [a \in Callers |-> NoCall]
  BY DEF Stop, EmptyMemory
<1> QED BY <1>1, <1>2, <1>3

\* What is swept is a project.
LEMMA SweptIsProject ==
  ASSUME TypeOK, Linked, NEW s \in Sweepers, sweep[s] # "off"
  PROVE  Swept(s) \in Projects
<1>1. CASE \E p \in Projects : s = Deleter(p)
  BY <1>1, Callees
<1>2. ASSUME NEW t \in Threads, s = Ending(t)
      PROVE  Swept(s) \in Projects
  <2>1. thread[t].at # "free"
    BY <1>2 DEF Linked, ThreadsLinked, RequestsLinked, CallsLinked
  <2> QED BY <1>2, <2>1, Working, Callees
<1> QED BY <1>1, <1>2, Callees

\* Each kind of step keeps the types.
LEMMA DrainsKeepTypes ==
  ASSUME TypeOK, Linked, NEW a \in Callers, DrainStep(a) \/ ClaimRaises(a) \/ StartRaises(a)
  PROVE  Typed'
<1> USE TypeIsTyped DEF Typed, memory, database, history
<1>1. CASE TakeSlot(a)
  <2>1. CASE Return(a) /\ UNCHANGED count
    BY <1>1, <2>1, Returns DEF TakeSlot
  <2>2. CASE Move(a, "claim") /\ count' = count + 1 /\ UNCHANGED thread /\ ~CapacityFull
    BY <1>1, <2>2, Moves, SchedulerAssumption DEF TakeSlot, CapacityFull
  <2> QED BY <1>1, <2>1, <2>2 DEF TakeSlot
<1>2. CASE Claim(a)
  <2>1. ASSUME NEW p \in Projects, NEW t \in Threads, Leases(a, p, t)
        PROVE  Typed'
    BY <1>2, <2>1 DEF Claim, Leases
  <2>2. CASE Return(a) /\ count' = count - 1 /\ UNCHANGED <<work, holder, expired>>
    BY <1>2, <2>2, Returns, SchedulerAssumption DEF Claim
  <2> QED BY <1>2, <2>1, <2>2, ClaimsOrReturns
<1>3. CASE Register(a)
  BY <1>3, Registers DEF Register
<1>4. CASE ClaimRaises(a)
  BY <1>4, Returns, SchedulerAssumption DEF ClaimRaises
<1>5. CASE StartRaises(a)
  <2>1. thread' \in [Threads -> Records] /\ drain' \in [Callers -> InCalls]
        /\ registry' \in [Projects -> Threads \cup {NoThread, Unstarted}]
    BY <1>5, StartFails
  <2>2. faults' \in 0 .. MaxFaults /\ lost' \in Nat
    BY <1>5, SchedulerAssumption DEF StartRaises
  <2>3. reclaimer' \in BOOLEAN
    BY <1>5 DEF StartRaises
  <2>4. UNCHANGED <<process, count, request, sweep, work, holder, expired, tombstones,
                    files, stops, stalled, stuck>>
    BY <1>5 DEF StartRaises
  <2> QED BY <2>1, <2>2, <2>3, <2>4
<1> QED BY <1>1, <1>2, <1>3, <1>4, <1>5 DEF DrainStep

LEMMA ThreadsKeepTypes ==
  ASSUME TypeOK, Linked, NEW t \in Threads, ThreadStep(t) \/ PipelineRaises(t)
  PROVE  Typed'
<1> USE TypeIsTyped DEF Typed, memory, database, history, Places
<1>0. thread[t].at # "free" => thread[t].project \in Projects
  BY Working
<1>1. CASE PassFence(t)
  BY <1>1, Gotos DEF PassFence
<1>2. CASE WriteFiles(t)
  BY <1>0, <1>2, Gotos DEF WriteFiles
<1>3. CASE SettleWork(t)
  BY <1>0, <1>3, Gotos DEF SettleWork
<1>4. CASE LoseFence(t)
  BY <1>4, Gotos DEF LoseFence
<1>5. CASE LeaveScheduler(t)
  BY <1>0, <1>5, Gotos, SchedulerAssumption DEF LeaveScheduler
<1>6. CASE ListTombstones(t)
  <2>1. CASE Goto(t, "sweeping") /\ sweep' = [sweep EXCEPT ![Ending(t)] = "joining"]
             /\ UNCHANGED drain
    BY <1>6, <2>1, Gotos, Callees DEF ListTombstones, SweepPlaces
  <2>2. CASE Goto(t, "draining") /\ drain' = [drain EXCEPT ![Ending(t)] = Calling(AnyWork)]
             /\ UNCHANGED sweep
    BY <1>6, <2>2, Gotos, StartsCall, Callees DEF ListTombstones
  <2> QED BY <1>6, <2>1, <2>2 DEF ListTombstones
<1>7. CASE PipelineRaises(t)
  BY <1>7, Gotos, SchedulerAssumption DEF PipelineRaises
<1> QED BY <1>1, <1>2, <1>3, <1>4, <1>5, <1>6, <1>7 DEF ThreadStep

LEMMA SweepsKeepTypes ==
  ASSUME TypeOK, Linked, NEW s \in Sweepers, SweepStep(s)
  PROVE  Typed'
<1> USE TypeIsTyped DEF Typed, memory, database, history, SweepPlaces
<1>1. CASE SweepJoins(s)
  <2>1. CASE SweepReturns(s)
    BY <1>1, <2>1, SweepEnds DEF SweepJoins
  <2>2. CASE sweep' = [sweep EXCEPT ![s] = "removing"] /\ UNCHANGED <<request, thread, drain>>
    BY <1>1, <2>2 DEF SweepJoins
  <2>3. CASE SweepRaises(s)
    BY <1>1, <2>3, SweepFails DEF SweepJoins
  <2> QED BY <1>1, <2>1, <2>2, <2>3 DEF SweepJoins
<1>2. CASE SweepRemoves(s)
  BY <1>2, SweptIsProject, SchedulerAssumption DEF SweepRemoves
<1>3. CASE SweepRecords(s)
  BY <1>3, SweepEnds DEF SweepRecords
<1> QED BY <1>1, <1>2, <1>3 DEF SweepStep

LEMMA RequestsKeepTypes ==
  ASSUME TypeOK, NEW p \in Projects,
         CreateProject(p) \/ DeleteProject(p) \/ JoinWork(p) \/ LeaseExpires(p) \/ Stall(p)
  PROVE  Typed'
<1> USE TypeIsTyped DEF Typed, memory, database, history, SweepPlaces
<1>1. CASE CreateProject(p)
  BY <1>1, StartsCall, Callees DEF CreateProject
<1>2. CASE DeleteProject(p)
  <2>1. CASE /\ work' = [work EXCEPT ![p] = "deleted"]
             /\ tombstones' = tombstones \cup {p}
             /\ request' = [request EXCEPT ![p] = "joining"] /\ UNCHANGED sweep
    BY <1>2, <2>1 DEF DeleteProject
  <2>2. CASE /\ request' = [request EXCEPT ![p] = "sweeping"]
             /\ sweep' = [sweep EXCEPT ![Deleter(p)] = "joining"]
             /\ UNCHANGED <<work, tombstones>>
    BY <1>2, <2>2 DEF DeleteProject
  <2> QED BY <1>2, <2>1, <2>2 DEF DeleteProject
<1>3. CASE JoinWork(p)
  <2>1. CASE /\ request' = [request EXCEPT ![p] = "sweeping"]
             /\ sweep' = [sweep EXCEPT ![Deleter(p)] = "joining"]
    BY <1>3, <2>1 DEF JoinWork
  <2>2. CASE request' = [request EXCEPT ![p] = "none"] /\ UNCHANGED sweep
    BY <1>3, <2>2 DEF JoinWork
  <2> QED BY <1>3, <2>1, <2>2 DEF JoinWork
<1>4. CASE LeaseExpires(p)
  BY <1>4 DEF LeaseExpires, LetExpire
<1>5. CASE Stall(p)
  BY <1>5, SchedulerAssumption DEF Stall, LetExpire
<1> QED BY <1>1, <1>2, <1>3, <1>4, <1>5

LEMMA ProcessKeepsTypes ==
  ASSUME TypeOK, Linked, Reclaim \/ StartProcess \/ Shutdown \/ Stop
  PROVE  Typed'
<1> USE TypeIsTyped DEF Typed, memory, database, history, SweepPlaces
<1>1. CASE Reclaim
  BY <1>1, StartsCall, Callees DEF Reclaim
<1>2. CASE StartProcess
  <2>1. drain' \in [Callers -> InCalls]
    BY <1>2, Starts
  <2>2. PICK left \in SUBSET (tombstones \cap files) :
          /\ left # {} => UnlinkMayFail /\ faults < MaxFaults
          /\ tombstones' = left /\ stuck' = stuck \cup left
          /\ files' = files \ (tombstones \ left)
          /\ faults' = IF left = {} THEN faults ELSE faults + 1
    BY <1>2 DEF StartProcess
  <2>3. faults' \in 0 .. MaxFaults
    BY <2>2, SchedulerAssumption
  <2> QED BY <1>2, <2>1, <2>2, <2>3 DEF StartProcess
<1>3. CASE Shutdown
  BY <1>3, SchedulerAssumption DEF Shutdown
<1>4. CASE Stop
  <2>1. thread' \in [Threads -> Records] /\ drain' \in [Callers -> InCalls]
    BY <1>4, Stops
  <2>2. stops' \in 0 .. MaxStops
    BY <1>4, SchedulerAssumption DEF Stop
  <2>3. /\ registry' = [p \in Projects |-> NoThread] /\ holder' = [p \in Projects |-> NoThread]
        /\ request' = [p \in Projects |-> "none"] /\ sweep' = [s \in Sweepers |-> "off"]
        /\ process' = "down" /\ reclaimer' = FALSE /\ count' = 0 /\ lost' = 0
        /\ UNCHANGED <<work, expired, tombstones, files, faults, stalled, stuck>>
    BY <1>4 DEF Stop, EmptyMemory
  <2>4. 0 \in Int /\ 0 <= Capacity /\ 0 \in Nat
    BY SchedulerAssumption
  <2> QED BY <2>1, <2>2, <2>3, <2>4
<1> QED BY <1>1, <1>2, <1>3, <1>4

-----------------------------------------------------------------------------
(***************************************************************************)
(* The count.                                                              *)
(***************************************************************************)

LEMMA FiniteSlots ==
  /\ IsFiniteSet(Occupied) /\ IsFiniteSet(Reserved)
  /\ Cardinality(Occupied) \in Nat /\ Cardinality(Reserved) \in Nat
<1>1. Occupied \subseteq Threads /\ Reserved \subseteq Callers
  BY DEF Occupied, Reserved
<1>2. IsFiniteSet(Threads)
  BY SchedulerAssumption
<1>3. IsFiniteSet(Occupied) /\ IsFiniteSet(Reserved)
  BY <1>1, <1>2, FiniteCallers, FS_Subset
<1> QED BY <1>3, FS_CardinalityType

\* Moves that take and give no slot.
LEMMA SlotsAreKept ==
  ASSUME SlotsAreExact, UNCHANGED <<count, lost>>,
         \A t \in Threads : thread'[t].at \in AtWork <=> thread[t].at \in AtWork,
         \A a \in Callers : drain'[a].at = "claim" <=> drain[a].at = "claim"
  PROVE  SlotsAreExact'
<1>1. Occupied' = Occupied
  BY DEF Occupied, AtWork
<1>2. Reserved' = Reserved
  BY DEF Reserved
<1> QED BY <1>1, <1>2 DEF SlotsAreExact

\* A call that returns was not at work.
LEMMA ReturnIsIdle ==
  ASSUME TypeOK, Linked, NEW a \in Callers, Return(a), drain[a].at # "off"
  PROVE  Occupied' = Occupied
<1>1. \A t \in Threads : a = Ending(t) => thread[t].at = "draining" /\ thread'[t].at = "free"
  BY Returns DEF Linked, ThreadsLinked, RequestsLinked, CallsLinked
<1>2. \A t \in Threads : a # Ending(t) => thread'[t] = thread[t]
  BY Returns
<1> QED BY <1>1, <1>2 DEF Occupied

\* The slot of a call goes to its thread, or back.
LEMMA DrainsCount ==
  ASSUME TypeOK, SlotsAreExact, Linked, NEW a \in Callers,
         DrainStep(a) \/ ClaimRaises(a) \/ StartRaises(a)
  PROVE  SlotsAreExact'
<1> USE DEF SlotsAreExact
<1>0. count \in Int /\ lost \in Nat
  BY DEF TypeOK
<1>1. CASE TakeSlot(a)
  <2>1. drain[a].at = "check" /\ UNCHANGED lost
    BY <1>1 DEF TakeSlot, history
  <2>2. CASE Return(a) /\ UNCHANGED count
    <3>1. Reserved' = Reserved
      BY <2>1, <2>2, Returns DEF Reserved
    <3> QED BY <2>1, <2>2, <3>1, ReturnIsIdle
  <2>3. CASE Move(a, "claim") /\ count' = count + 1 /\ UNCHANGED thread
    <3>1. Reserved' = Reserved \cup {a} /\ a \notin Reserved /\ Occupied' = Occupied
      BY <2>1, <2>3, Moves DEF Reserved, Occupied
    <3>2. Cardinality(Reserved') = Cardinality(Reserved) + 1
      BY <3>1, FiniteSlots, FS_AddElement
    <3> QED BY <1>0, <2>1, <2>3, <3>1, <3>2, FiniteSlots
  <2> QED BY <1>1, <2>2, <2>3 DEF TakeSlot
<1>2. CASE Claim(a)
  <2>1. drain[a].at = "claim" /\ UNCHANGED lost
    BY <1>2 DEF Claim, history
  <2>2. ASSUME NEW p \in Projects, NEW t \in Threads, Leases(a, p, t)
        PROVE  SlotsAreExact'
    <3>1. Occupied' = Occupied \cup {t} /\ t \notin Occupied
      BY <2>2 DEF Leases, Occupied
    <3>2. Reserved' = Reserved \ {a} /\ a \in Reserved
      BY <2>1, <2>2 DEF Leases, Reserved
    <3>3. Cardinality(Occupied') = Cardinality(Occupied) + 1
      BY <3>1, FiniteSlots, FS_AddElement
    <3>4. Cardinality(Reserved') = Cardinality(Reserved) - 1
      BY <3>2, FiniteSlots, FS_RemoveElement
    <3> QED BY <1>0, <2>1, <2>2, <3>3, <3>4, FiniteSlots DEF Leases
  <2>3. CASE Return(a) /\ count' = count - 1
    <3>1. Reserved' = Reserved \ {a} /\ a \in Reserved
      BY <2>1, <2>3, Returns DEF Reserved
    <3>2. Cardinality(Reserved') = Cardinality(Reserved) - 1
      BY <3>1, FiniteSlots, FS_RemoveElement
    <3> QED BY <1>0, <2>1, <2>3, <3>2, ReturnIsIdle, FiniteSlots
  <2> QED BY <1>2, <2>2, <2>3, ClaimsOrReturns
<1>3. CASE Register(a)
  <2>1. UNCHANGED <<count, lost>>
    BY <1>3 DEF Register, history
  <2> QED BY <1>3, <2>1, Registers, SlotsAreKept DEF AtWork
<1>4. CASE ClaimRaises(a)
  <2>1. drain[a].at = "claim" /\ Return(a) /\ lost' = lost + 1 /\ UNCHANGED count
    BY <1>4 DEF ClaimRaises
  <2>2. Reserved' = Reserved \ {a} /\ a \in Reserved
    BY <2>1, Returns DEF Reserved
  <2>3. Cardinality(Reserved') = Cardinality(Reserved) - 1
    BY <2>2, FiniteSlots, FS_RemoveElement
  <2> QED BY <1>0, <2>1, <2>3, ReturnIsIdle, FiniteSlots
<1>5. CASE StartRaises(a)
  <2>1. lost' = lost + 1 /\ UNCHANGED count
    BY <1>5 DEF StartRaises
  <2>2. PICK t \in Threads :
          /\ drain[a].at = "register" /\ thread[t].at = "created"
          /\ thread'[t].at = "free"
          /\ \A u \in Threads \ {t} :
               \/ thread'[u] = thread[u]
               \/ thread[u].at = "draining" /\ thread'[u].at = "free"
          /\ drain'[a].at = "off" /\ \A b \in Callers \ {a} : drain'[b] = drain[b]
    BY <1>5, StartFails
  <2>3. Occupied' = Occupied \ {t} /\ t \in Occupied
    BY <2>2 DEF Occupied
  <2>4. Reserved' = Reserved
    BY <2>2 DEF Reserved
  <2>5. Cardinality(Occupied') = Cardinality(Occupied) - 1
    BY <2>3, FiniteSlots, FS_RemoveElement
  <2> QED BY <1>0, <2>1, <2>4, <2>5, FiniteSlots
<1> QED BY <1>1, <1>2, <1>3, <1>4, <1>5 DEF DrainStep

\* The finally block gives back the slot of its thread; what a thread does
\* before and after moves none.
LEMMA ThreadsCount ==
  ASSUME TypeOK, SlotsAreExact, Linked, NEW t \in Threads,
         ThreadStep(t) \/ PipelineRaises(t)
  PROVE  SlotsAreExact'
<1> USE DEF memory, database, history, Places, AtWork
<1>1. CASE LeaveScheduler(t)
  <2>1. /\ thread[t].at = "leaving" /\ Goto(t, "listing") /\ count' = count - 1
        /\ UNCHANGED <<drain, lost>>
    BY <1>1 DEF LeaveScheduler
  <2>2. Occupied' = Occupied \ {t} /\ t \in Occupied /\ Reserved' = Reserved
    BY <2>1, Gotos DEF Occupied, Reserved
  <2>3. Cardinality(Occupied') = Cardinality(Occupied) - 1
    BY <2>2, FiniteSlots, FS_RemoveElement
  <2>4. count \in Int /\ lost \in Nat
    BY DEF TypeOK
  <2> QED BY <2>1, <2>2, <2>3, <2>4, FiniteSlots DEF SlotsAreExact
<1>2. CASE ListTombstones(t)
  <2>1. \/ Goto(t, "sweeping") /\ UNCHANGED drain
        \/ Goto(t, "draining") /\ drain' = [drain EXCEPT ![Ending(t)] = Calling(AnyWork)]
    BY <1>2 DEF ListTombstones
  <2>2. thread[t].at = "listing" /\ drain[Ending(t)].at = "off" /\ UNCHANGED <<count, lost>>
    BY <1>2 DEF ListTombstones, Linked, ThreadsLinked, RequestsLinked, CallsLinked
  <2>3. CASE Goto(t, "sweeping") /\ UNCHANGED drain
    BY <2>2, <2>3, Gotos, SlotsAreKept
  <2>4. CASE Goto(t, "draining") /\ drain' = [drain EXCEPT ![Ending(t)] = Calling(AnyWork)]
    <3>1. thread'[t].at = "draining" /\ \A u \in Threads \ {t} : thread'[u] = thread[u]
      BY <2>4, Gotos
    <3>2. drain'[Ending(t)].at = "check"
          /\ \A b \in Callers \ {Ending(t)} : drain'[b] = drain[b]
      BY <2>4, StartsCall, Callees
    <3> QED BY <2>2, <3>1, <3>2, SlotsAreKept
  <2> QED BY <2>1, <2>3, <2>4
<1>3. CASE PassFence(t) \/ WriteFiles(t) \/ SettleWork(t) \/ LoseFence(t) \/ PipelineRaises(t)
  <2>1. thread[t].at \in AtWork /\ UNCHANGED <<count, lost, drain>>
    BY <1>3 DEF PassFence, WriteFiles, SettleWork, LoseFence, PipelineRaises
  <2>2. \E place \in AtWork : Goto(t, place)
    BY <1>3 DEF PassFence, WriteFiles, SettleWork, LoseFence, PipelineRaises
  <2> QED BY <2>1, <2>2, Gotos, SlotsAreKept
<1> QED BY <1>1, <1>2, <1>3 DEF ThreadStep

LEMMA OthersCount ==
  ASSUME TypeOK, SlotsAreExact, Linked,
         \/ \E s \in Sweepers : SweepStep(s)
         \/ \E p \in Projects : \/ CreateProject(p) \/ DeleteProject(p) \/ JoinWork(p)
                                \/ LeaseExpires(p) \/ Stall(p)
         \/ Reclaim \/ StartProcess \/ Shutdown \/ Stop
  PROVE  SlotsAreExact'
<1> USE DEF memory, database, history
<1>1. ASSUME NEW s \in Sweepers, SweepJoins(s) \/ SweepRecords(s)
      PROVE  SlotsAreExact'
  <2>1. UNCHANGED <<count, lost>> /\ sweep[s] # "off"
    BY <1>1 DEF SweepJoins, SweepRecords
  <2>2. CASE SweepReturns(s)
    <3>1. \A t \in Threads : s = Ending(t) =>
            thread[t].at = "sweeping" /\ drain[Ending(t)].at = "off"
      BY <2>1 DEF Linked, ThreadsLinked, RequestsLinked, CallsLinked
    <3> QED BY <2>1, <2>2, <3>1, SweepEnds, Callees, SlotsAreKept DEF AtWork
  <2>4. CASE SweepRaises(s)
    <3>1. \A t \in Threads : s = Ending(t) => thread[t].at = "sweeping"
      BY <2>1 DEF Linked, ThreadsLinked
    <3> QED BY <2>1, <2>4, <3>1, SweepFails, SlotsAreKept DEF AtWork
  <2>3. CASE UNCHANGED <<request, thread, drain>>
    BY <2>1, <2>3, SlotsAreKept
  <2> QED BY <1>1, <2>2, <2>3, <2>4 DEF SweepJoins, SweepRecords
<1>2. ASSUME NEW s \in Sweepers, SweepRemoves(s)
      PROVE  SlotsAreExact'
  BY <1>2, SlotsAreKept DEF SweepRemoves
<1>3. ASSUME NEW p \in Projects, CreateProject(p)
      PROVE  SlotsAreExact'
  <2>1. drain[Creator(p)].at = "off"
    BY <1>3 DEF CreateProject, Linked, ThreadsLinked, RequestsLinked, CallsLinked
  <2> QED BY <1>3, <2>1, StartsCall, Callees, SlotsAreKept DEF CreateProject
<1>4. ASSUME NEW p \in Projects,
             DeleteProject(p) \/ JoinWork(p) \/ LeaseExpires(p) \/ Stall(p)
      PROVE  SlotsAreExact'
  <2>1. UNCHANGED <<count, lost, thread, drain>>
    BY <1>4 DEF DeleteProject, JoinWork, LeaseExpires, Stall, LetExpire
  <2> QED BY <2>1 DEF SlotsAreExact, Occupied, Reserved
<1>5. CASE Reclaim
  <2>1. drain[Reclaimer].at = "off" /\ UNCHANGED <<count, lost, thread>>
    BY <1>5 DEF Reclaim
  <2>2. Reclaimer \in Callers /\ AnyWork \in Projects \cup {AnyWork}
        /\ drain' = [drain EXCEPT ![Reclaimer] = Calling(AnyWork)]
    BY <1>5, Callees DEF Reclaim
  <2>3. drain'[Reclaimer].at = "check"
        /\ \A b \in Callers \ {Reclaimer} : drain'[b] = drain[b]
    BY <2>2, StartsCall
  <2> QED BY <2>1, <2>3, SlotsAreKept
<1>6. CASE StartProcess
  <2>1. drain[Startup].at = "off" /\ drain[Reclaimer].at = "off"
    BY <1>6, Callees DEF StartProcess, Linked, ThreadsLinked, RequestsLinked, CallsLinked, MemoryIsEmpty
  <2>2. UNCHANGED <<count, lost, thread>>
    BY <1>6 DEF StartProcess
  <2> QED BY <1>6, <2>1, <2>2, Starts, SlotsAreKept
<1>7. CASE Shutdown
  BY <1>7, SlotsAreKept DEF Shutdown
<1>8. CASE Stop
  <2>1. Occupied' = {} /\ Reserved' = {}
    BY <1>8, Stops DEF Occupied, Reserved
  <2>2. count' = 0 /\ lost' = 0
    BY <1>8 DEF Stop, EmptyMemory
  <2> QED BY <2>1, <2>2, FS_EmptySet DEF SlotsAreExact
<1> QED BY <1>1, <1>2, <1>3, <1>4, <1>5, <1>6, <1>7, <1>8 DEF SweepStep

-----------------------------------------------------------------------------
(***************************************************************************)
(* Threads, their calls and their sweeps.                                  *)
(***************************************************************************)

LEMMA DrainsKeepLinks ==
  ASSUME TypeOK, Linked, NEW a \in Callers, DrainStep(a) \/ ClaimRaises(a) \/ StartRaises(a)
  PROVE  Linked'
<1> USE Callees DEF memory, database, history
<1>0. process # "down" /\ UNCHANGED <<process, request, sweep>> /\ drain[a].at # "off"
  BY DEF DrainStep, ClaimRaises, StartRaises, TakeSlot, Claim, Register, Linked, MemoryIsEmpty
<1>1. CASE Return(a) /\ UNCHANGED work /\ drain[a].at # "register"
  <2>1. \A t \in Threads : a = Ending(t) => thread[t].at = "draining"
    BY <1>0 DEF Linked, ThreadsLinked, RequestsLinked, CallsLinked
  <2> QED BY <1>0, <1>1, <2>1, Returns DEF Linked, ThreadsLinked, RequestsLinked, CallsLinked
<1>2. CASE Move(a, "claim") /\ UNCHANGED <<thread, work>> /\ drain[a].at = "check"
  BY <1>0, <1>2, Moves DEF Linked, ThreadsLinked, RequestsLinked, CallsLinked
<1>3. ASSUME NEW p \in Projects, NEW t \in Threads, Leases(a, p, t)
      PROVE  Linked'
  <2>1. /\ thread[t].at = "free" /\ thread'[t].at = "created" /\ thread'[t].project = p
        /\ \A u \in Threads \ {t} : thread'[u] = thread[u]
        /\ drain'[a].at = "register" /\ drain'[a].made = t
        /\ drain'[a].only = drain[a].only
        /\ \A b \in Callers \ {a} : drain'[b] = drain[b]
    BY <1>3 DEF Leases
  <2>2. \A u \in Threads : a # Ending(u) \/ thread[u].at = "draining"
    BY <1>0 DEF Linked, ThreadsLinked
  <2>3. ThreadsLinked'
    BY <1>0, <2>1, <2>2 DEF Linked, ThreadsLinked, AnyWork, Projects
  <2>4. \A q \in Projects : work'[q] = "none" => work[q] = "none"
    BY <1>3 DEF Leases, TypeOK
  <2>5. work[p] # "none"
    BY <1>3 DEF Leases, Claims, Eligible
  <2>6. \A q \in Projects : work[q] = "none" => a # Creator(q)
    BY <1>0 DEF Linked, RequestsLinked
  <2>7. RequestsLinked'
    BY <1>0, <2>1, <2>4, <2>6 DEF Linked, RequestsLinked
  <2>8. CallsLinked'
    BY <2>1 DEF Linked, CallsLinked
  <2> QED BY <1>0, <2>3, <2>7, <2>8 DEF Linked
<1>4. CASE Register(a)
  <2>1. PICK t \in Threads, p \in Projects :
           /\ t = drain[a].made /\ drain[a].at = "register" /\ thread[t].at = "created"
           /\ thread'[t].at = "working" /\ thread'[t].project = p
           /\ \A u \in Threads \ {t} : thread'[u] = thread[u]
           /\ drain'[a].at \in {"off", "check"}
           /\ drain[a].only = AnyWork => drain'[a].at = "check" /\ drain'[a].only = AnyWork
           /\ \A b \in Callers \ {a} : drain'[b] = drain[b]
    BY <1>4, Registers
  <2>2. UNCHANGED work
    BY <1>4 DEF Register
  <2>3. \A u \in Threads : a = Ending(u) => thread[u].at = "draining"
    BY <1>0 DEF Linked, ThreadsLinked
  <2>4. ThreadsLinked'
    BY <1>0, <2>1, <2>3 DEF Linked, ThreadsLinked, AnyWork, Projects
  <2>5. RequestsLinked'
    BY <1>0, <2>1, <2>2 DEF Linked, RequestsLinked
  <2>6. CallsLinked'
    BY <2>1 DEF Linked, CallsLinked
  <2> QED BY <1>0, <2>4, <2>5, <2>6 DEF Linked
<1>5. CASE StartRaises(a)
  <2>1. PICK t \in Threads :
           /\ t = drain[a].made /\ drain[a].at = "register" /\ thread[t].at = "created"
           /\ thread'[t].at = "free" /\ thread'[t].project = AnyWork
           /\ \A u \in Threads \ {t} :
                \/ thread'[u] = thread[u] /\ a # Ending(u)
                \/ /\ a = Ending(u) /\ thread[u].at = "draining"
                   /\ thread'[u].at = "free" /\ thread'[u].project = AnyWork
           /\ drain'[a].at = "off" /\ drain'[a].only = AnyWork
           /\ \A b \in Callers \ {a} : drain'[b] = drain[b]
    BY <1>5, StartFails
  <2>2. UNCHANGED work
    BY <1>5 DEF StartRaises
  <2>3. ThreadsLinked'
    BY <1>0, <2>1 DEF Linked, ThreadsLinked
  <2>4. RequestsLinked'
    BY <1>0, <2>1, <2>2 DEF Linked, RequestsLinked
  <2>5. CallsLinked'
    BY <2>1 DEF Linked, CallsLinked
  <2> QED BY <1>0, <2>3, <2>4, <2>5 DEF Linked
<1> QED BY <1>1, <1>2, <1>3, <1>4, <1>5, ClaimsOrReturns DEF DrainStep, ClaimRaises, TakeSlot

LEMMA ThreadsKeepLinks ==
  ASSUME TypeOK, Linked, NEW t \in Threads, ThreadStep(t) \/ PipelineRaises(t)
  PROVE  Linked'
<1> USE Callees DEF memory, database, history, Places
<1>0. /\ process # "down" /\ UNCHANGED <<process, request>> /\ thread[t].at # "free"
      /\ \A p \in Projects : work'[p] = "none" => work[p] = "none"
      /\ thread[t].at \notin {"created", "sweeping", "draining"}
  BY DEF ThreadStep, PipelineRaises, PassFence, WriteFiles, SettleWork, LoseFence,
         LeaveScheduler, ListTombstones, Linked, MemoryIsEmpty, TypeOK
<1>1. ASSUME NEW place \in {"working", "writing", "leaving", "listing"}, Goto(t, place),
             UNCHANGED <<drain, sweep>>
      PROVE  Linked'
  BY <1>0, <1>1, Gotos DEF Linked, ThreadsLinked, RequestsLinked, CallsLinked
<1>2. CASE Goto(t, "sweeping") /\ sweep' = [sweep EXCEPT ![Ending(t)] = "joining"]
           /\ UNCHANGED drain
  <2>1. sweep'[Ending(t)] = "joining" /\ \A s \in Sweepers \ {Ending(t)} : sweep'[s] = sweep[s]
    BY <1>2 DEF TypeOK
  <2> QED BY <1>0, <1>2, <2>1, Gotos DEF Linked, ThreadsLinked, RequestsLinked, CallsLinked
<1>3. CASE Goto(t, "draining") /\ drain' = [drain EXCEPT ![Ending(t)] = Calling(AnyWork)]
           /\ UNCHANGED sweep
  <2>1. thread'[t].at = "draining" /\ thread'[t].project = thread[t].project
        /\ \A u \in Threads \ {t} : thread'[u] = thread[u]
    BY <1>3, Gotos
  <2>2. drain'[Ending(t)].at = "check" /\ drain'[Ending(t)].only = AnyWork
        /\ \A b \in Callers \ {Ending(t)} : drain'[b] = drain[b]
    BY <1>3, StartsCall
  <2> QED BY <1>0, <1>3, <2>1, <2>2 DEF Linked, ThreadsLinked, RequestsLinked, CallsLinked
<1>4. \/ \E place \in {"working", "writing", "leaving", "listing"} :
            Goto(t, place) /\ UNCHANGED <<drain, sweep>>
      \/ Goto(t, "sweeping") /\ sweep' = [sweep EXCEPT ![Ending(t)] = "joining"] /\ UNCHANGED drain
      \/ Goto(t, "draining") /\ drain' = [drain EXCEPT ![Ending(t)] = Calling(AnyWork)]
           /\ UNCHANGED sweep
  BY DEF ThreadStep, PipelineRaises, PassFence, WriteFiles, SettleWork, LoseFence,
         LeaveScheduler, ListTombstones
<1> QED BY <1>1, <1>2, <1>3, <1>4

LEMMA SweepsKeepLinks ==
  ASSUME TypeOK, Linked, NEW s \in Sweepers, SweepStep(s)
  PROVE  Linked'
<1> USE Callees DEF memory, database, history
<1>0. process # "down" /\ UNCHANGED <<process, work>> /\ sweep[s] # "off"
  BY DEF SweepStep, SweepJoins, SweepRemoves, SweepRecords, Linked, MemoryIsEmpty
<1>1. CASE SweepReturns(s)
  <2>1. ASSUME NEW p \in Projects, s = Deleter(p), request'[p] = "none",
               \A q \in Projects \ {p} : request'[q] = request[q],
               UNCHANGED <<thread, drain>>
        PROVE  Linked'
    <3>1. sweep'[s] = "off" /\ \A r \in Sweepers \ {s} : sweep'[r] = sweep[r]
      BY <1>1, SweepEnds
    <3>2. request[p] = "sweeping"
      BY <1>0, <2>1 DEF Linked, RequestsLinked
    <3> QED BY <1>0, <2>1, <3>1, <3>2 DEF Linked, ThreadsLinked, RequestsLinked, CallsLinked
  <2>2. ASSUME NEW t \in Threads, s = Ending(t), UNCHANGED request,
               thread'[t].at = "draining", thread'[t].project = thread[t].project,
               \A u \in Threads \ {t} : thread'[u] = thread[u],
               drain'[Ending(t)].at = "check", drain'[Ending(t)].only = AnyWork,
               \A b \in Callers \ {Ending(t)} : drain'[b] = drain[b]
        PROVE  Linked'
    <3>1. thread[t].at = "sweeping"
      BY <1>0, <2>2 DEF Linked, ThreadsLinked
    <3>2. sweep'[s] = "off" /\ \A r \in Sweepers \ {s} : sweep'[r] = sweep[r]
      BY <1>1, SweepEnds
    <3> QED BY <1>0, <2>2, <3>1, <3>2 DEF Linked, ThreadsLinked, RequestsLinked, CallsLinked
  <2> QED BY <1>1, <2>1, <2>2, SweepEnds
<1>2. ASSUME NEW place \in {"removing", "done", "remains"},
             sweep' = [sweep EXCEPT ![s] = place], UNCHANGED <<request, thread, drain>>
      PROVE  Linked'
  <2>1. sweep'[s] = place /\ \A r \in Sweepers \ {s} : sweep'[r] = sweep[r]
    BY <1>2 DEF TypeOK
  <2> QED BY <1>0, <1>2, <2>1 DEF Linked, ThreadsLinked, RequestsLinked, CallsLinked
<1>3. CASE SweepRaises(s)
  <2>1. sweep'[s] = "off" /\ UNCHANGED drain
        /\ \A r \in Sweepers \ {s} : sweep'[r] = sweep[r]
    BY <1>3, SweepFails
  <2>2. ASSUME NEW p \in Projects, s = Deleter(p), request'[p] = "none", UNCHANGED thread,
               \A q \in Projects \ {p} : request'[q] = request[q]
        PROVE  Linked'
    BY <1>0, <2>1, <2>2 DEF Linked, ThreadsLinked, RequestsLinked, CallsLinked
  <2>3. ASSUME NEW t \in Threads, s = Ending(t), UNCHANGED request,
               thread'[t].at = "free", thread'[t].project = AnyWork,
               \A u \in Threads \ {t} : thread'[u] = thread[u]
        PROVE  Linked'
    <3>1. thread[t].at = "sweeping"
      BY <1>0, <2>3 DEF Linked, ThreadsLinked
    <3> QED BY <1>0, <2>1, <2>3, <3>1 DEF Linked, ThreadsLinked, RequestsLinked, CallsLinked
  <2> QED BY <1>3, <2>2, <2>3, SweepFails
<1>4. \/ SweepReturns(s) \/ SweepRaises(s)
      \/ \E place \in {"removing", "done", "remains"} :
           sweep' = [sweep EXCEPT ![s] = place] /\ UNCHANGED <<request, thread, drain>>
  BY DEF SweepStep, SweepJoins, SweepRemoves, SweepRecords
<1> QED BY <1>1, <1>2, <1>3, <1>4

LEMMA RequestsKeepLinks ==
  ASSUME TypeOK, Linked, NEW p \in Projects,
         CreateProject(p) \/ DeleteProject(p) \/ JoinWork(p) \/ LeaseExpires(p) \/ Stall(p)
  PROVE  Linked'
<1> USE Callees DEF memory, database, history
<1>0. UNCHANGED <<process, thread>>
      /\ \A q \in Projects : work'[q] = "none" => work[q] = "none"
  BY DEF CreateProject, DeleteProject, JoinWork, LeaseExpires, Stall, LetExpire, TypeOK
<1>1. CASE CreateProject(p)
  <2>1. drain[Creator(p)].at = "off" /\ work[p] = "none" /\ work'[p] # "none"
        /\ UNCHANGED <<request, sweep>> /\ process # "down"
    BY <1>1 DEF CreateProject, Linked, RequestsLinked, TypeOK
  <2>2. drain'[Creator(p)].at = "check"
        /\ \A b \in Callers \ {Creator(p)} : drain'[b] = drain[b]
    BY <1>1, StartsCall DEF CreateProject
  <2> QED BY <1>0, <2>1, <2>2 DEF Linked, ThreadsLinked, RequestsLinked, CallsLinked
<1>2. ASSUME NEW place \in {"joining", "none"},
             request[p] # "sweeping",
             request' = [request EXCEPT ![p] = place], UNCHANGED <<sweep, drain>>,
             process # "down"
      PROVE  Linked'
  <2>1. request'[p] = place /\ \A q \in Projects \ {p} : request'[q] = request[q]
    BY <1>2 DEF TypeOK
  <2> QED BY <1>0, <1>2, <2>1 DEF Linked, ThreadsLinked, RequestsLinked, CallsLinked
<1>3. ASSUME request' = [request EXCEPT ![p] = "sweeping"],
             sweep' = [sweep EXCEPT ![Deleter(p)] = "joining"], UNCHANGED drain,
             process # "down"
      PROVE  Linked'
  <2>1. request'[p] = "sweeping" /\ \A q \in Projects \ {p} : request'[q] = request[q]
    BY <1>3 DEF TypeOK
  <2>2. sweep'[Deleter(p)] = "joining"
        /\ \A r \in Sweepers \ {Deleter(p)} : sweep'[r] = sweep[r]
    BY <1>3 DEF TypeOK
  <2> QED BY <1>0, <1>3, <2>1, <2>2 DEF Linked, ThreadsLinked, RequestsLinked, CallsLinked
<1>4. CASE DeleteProject(p)
  BY <1>2, <1>3, <1>4 DEF DeleteProject
<1>5. CASE JoinWork(p)
  <2>1. process # "down"
    BY <1>5 DEF JoinWork, Linked, MemoryIsEmpty
  <2> QED BY <1>2, <1>3, <1>5, <2>1 DEF JoinWork
<1>6. CASE LeaseExpires(p) \/ Stall(p)
  <2>1. UNCHANGED memory /\ UNCHANGED <<work, lost>>
    BY <1>6 DEF LeaseExpires, Stall, LetExpire
  <2> QED BY <2>1 DEF Linked, MemoryIsEmpty, ThreadsLinked, RequestsLinked, CallsLinked
<1> QED BY <1>1, <1>4, <1>5, <1>6

LEMMA ProcessKeepsLinks ==
  ASSUME TypeOK, Linked, Reclaim \/ StartProcess \/ Shutdown \/ Stop
  PROVE  Linked'
<1> USE Callees DEF memory, database, history
<1>1. CASE Reclaim
  <2>1. drain[Reclaimer].at = "off" /\ process # "down"
        /\ UNCHANGED <<process, thread, request, sweep, work>>
    BY <1>1 DEF Reclaim
  <2>2. drain'[Reclaimer].at = "check"
        /\ \A b \in Callers \ {Reclaimer} : drain'[b] = drain[b]
    BY <1>1, StartsCall DEF Reclaim
  <2>3. \A t \in Threads : Ending(t) # Reclaimer
    BY Callees
  <2>4. \A p \in Projects : Creator(p) # Reclaimer
    BY Callees
  <2> QED BY <2>1, <2>2, <2>3, <2>4 DEF Linked, ThreadsLinked, RequestsLinked, CallsLinked
<1>2. CASE StartProcess
  <2>1. UNCHANGED <<thread, request, sweep, work>> /\ process' = "up"
    BY <1>2 DEF StartProcess
  <2>2. /\ drain'[Startup].at = "check" /\ drain'[Reclaimer].at = "check"
        /\ \A b \in Callers \ {Startup, Reclaimer} : drain'[b] = drain[b]
    BY <1>2, Starts
  <2>3. \A t \in Threads : Ending(t) \notin {Startup, Reclaimer}
    BY Callees
  <2>4. \A p \in Projects : Creator(p) \notin {Startup, Reclaimer}
    BY Callees
  <2> QED BY <2>1, <2>2, <2>3, <2>4 DEF Linked, ThreadsLinked, RequestsLinked, CallsLinked
<1>3. CASE Shutdown
  BY <1>3 DEF Shutdown, Linked, ThreadsLinked, RequestsLinked, CallsLinked
<1>4. CASE Stop
  <2>1. /\ \A p \in Projects : registry'[p] = NoThread /\ request'[p] = "none"
        /\ \A s \in Sweepers : sweep'[s] = "off"
        /\ reclaimer' = FALSE /\ count' = 0 /\ lost' = 0 /\ UNCHANGED work
    BY <1>4 DEF Stop, EmptyMemory
  <2>2. /\ \A t \in Threads : thread'[t].at = "free" /\ thread'[t].project = AnyWork
        /\ \A a \in Callers : drain'[a].at = "off" /\ drain'[a].only = AnyWork
    BY <1>4, Stops
  <2> QED BY <2>1, <2>2 DEF Linked, MemoryIsEmpty, ThreadsLinked, RequestsLinked, CallsLinked
<1> QED BY <1>1, <1>2, <1>3, <1>4
-----------------------------------------------------------------------------
(***************************************************************************)
(* One thread a project, but for stalls.                                   *)
(***************************************************************************)

\* What neither makes a thread nor lets one go keeps its owner.
LEMMA OwnersAreKept ==
  ASSUME TypeOK, Owned, UNCHANGED <<registry, holder, expired>>,
         stalled \subseteq stalled',
         \A p \in Projects : work'[p] \in {"none", "pending"} =>
                               work[p] \in {"none", "pending"},
         \A t \in Threads :
           /\ thread'[t].project \in {thread[t].project, AnyWork}
           /\ thread'[t].at \in AtWork <=> thread[t].at \in AtWork
           /\ thread'[t].at \in Started <=> thread[t].at \in Started
           /\ thread[t].at \in Started => thread'[t].project = thread[t].project
  PROVE  Owned'
<1>1. ASSUME NEW t \in Threads, NEW p \in Projects, thread'[t].project = p
      PROVE  thread[t].project = p
  BY <1>1 DEF AnyWork, Projects
<1>2. ASSUME NEW t \in Threads, NEW p \in Projects, WorksFor(t, p)'
      PROVE  WorksFor(t, p)
  BY <1>1, <1>2 DEF WorksFor, AtWork
<1>3. ASSUME NEW p \in Projects, registry'[p] \in Threads
      PROVE  thread'[registry'[p]].project = p /\ thread'[registry'[p]].at \in Started
  <2>1. registry[p] \in Threads /\ registry'[p] = registry[p]
    BY <1>3 DEF TypeOK
  <2> QED BY <1>3, <2>1 DEF Owned, Started
<1> QED BY <1>1, <1>2, <1>3 DEF Owned, Started

LEMMA DrainsKeepOwners ==
  ASSUME TypeOK, Linked, Owned, NEW a \in Callers, DrainStep(a) \/ ClaimRaises(a) \/ StartRaises(a)
  PROVE  Owned'
<1> USE DEF memory, database, history
<1>0. drain[a].at # "off"
  BY DEF DrainStep, ClaimRaises, StartRaises, TakeSlot, Claim, Register
<1>1. CASE Return(a) /\ UNCHANGED <<registry, holder, expired, work, stalled>>
  <2>1. \A t \in Threads : a = Ending(t) => thread[t].at = "draining"
    BY <1>0 DEF Linked, ThreadsLinked
  <2>2. ASSUME NEW t \in Threads
        PROVE  \/ thread'[t] = thread[t]
               \/ /\ thread'[t].project = AnyWork
                  /\ thread[t].at = "draining" /\ thread'[t].at = "free"
    BY <1>1, <2>1, Returns
  <2> QED BY <1>1, <2>2, OwnersAreKept DEF AtWork, Started
<1>2. CASE UNCHANGED <<thread, registry, holder, expired, work, stalled>>
  BY <1>2, OwnersAreKept
<1>3. ASSUME NEW p \in Projects, NEW t \in Threads, Leases(a, p, t),
             UNCHANGED <<registry, stalled>>
      PROVE  Owned'
  <2>1. /\ thread[t].at = "free" /\ thread'[t].at = "created" /\ thread'[t].project = p
        /\ \A u \in Threads \ {t} : thread'[u] = thread[u]
    BY <1>3 DEF Leases
  <2>2. /\ work'[p] = "leased" /\ holder'[p] = t /\ expired' = expired \ {p}
        /\ \A q \in Projects \ {p} : work'[q] = work[q] /\ holder'[q] = holder[q]
    BY <1>3 DEF Leases, TypeOK
  <2>3. work[p] = "pending" \/ p \in expired
    BY <1>3 DEF Leases, Claims, Eligible
  <2>4. \A u \in Threads : p \notin stalled => ~WorksFor(u, p)
    BY <2>3 DEF Owned, WorksFor
  <2>5. \A u \in Threads, q \in Projects :
          thread'[u].project = q => work'[q] \notin {"none", "pending"}
    BY <2>1, <2>2 DEF Owned
  <2>6. ASSUME NEW u \in Threads, NEW q \in Projects \ stalled, WorksFor(u, q)'
        PROVE  /\ holder'[q] = u /\ q \notin expired'
               /\ thread'[u].at \in Started => registry'[q] = u
    <3>1. CASE u = t
      BY <2>1, <2>2, <2>6, <3>1 DEF WorksFor, Started
    <3>2. CASE u # t
      <4>1. WorksFor(u, q) /\ q # p
        BY <2>1, <2>4, <2>6, <3>2 DEF WorksFor
      <4> QED BY <1>3, <2>1, <2>2, <3>2, <4>1 DEF Owned
    <3> QED BY <3>1, <3>2
  <2>7. ASSUME NEW q \in Projects, registry'[q] \in Threads
        PROVE  thread'[registry'[q]].project = q /\ thread'[registry'[q]].at \in Started
    <3>1. registry[q] \in Threads /\ registry'[q] = registry[q]
          /\ thread[registry[q]].project = q /\ thread[registry[q]].at \in Started
      BY <1>3, <2>7 DEF TypeOK, Owned
    <3> QED BY <2>1, <3>1 DEF Started
  <2> QED BY <1>3, <2>5, <2>6, <2>7 DEF Owned
<1>4. CASE Register(a)
  <2>1. PICK t \in Threads, p \in Projects :
           /\ thread[t].project = p /\ thread[t].at = "created"
           /\ registry'[p] = t
           /\ \A q \in Projects \ {p} : registry'[q] = registry[q]
           /\ thread'[t].at = "working" /\ thread'[t].project = p
           /\ \A u \in Threads \ {t} : thread'[u] = thread[u]
    BY <1>4, Registers
  <2>2. UNCHANGED <<work, holder, expired, stalled>>
    BY <1>4 DEF Register
  <2>3. \A u \in Threads, q \in Projects :
          thread'[u].project = q => work'[q] \notin {"none", "pending"}
    BY <2>1, <2>2 DEF Owned
  <2>4. ASSUME NEW u \in Threads, NEW q \in Projects \ stalled, WorksFor(u, q)'
        PROVE  /\ holder'[q] = u /\ q \notin expired'
               /\ thread'[u].at \in Started => registry'[q] = u
    <3>1. WorksFor(u, q)
      BY <2>1, <2>4 DEF WorksFor, AtWork
    <3>2. CASE q = p
      <4>1. WorksFor(t, q)
        BY <2>1, <3>2 DEF WorksFor, AtWork
      <4>2. u = t
        BY <3>1, <4>1 DEF Owned
      <4> QED BY <2>1, <2>2, <3>1, <3>2, <4>2 DEF Owned
    <3>3. CASE q # p
      <4>1. u # t
        BY <2>1, <3>1, <3>3 DEF WorksFor
      <4> QED BY <2>1, <2>2, <3>1, <3>3, <4>1 DEF Owned
    <3> QED BY <3>2, <3>3
  <2>5. ASSUME NEW q \in Projects, registry'[q] \in Threads
        PROVE  thread'[registry'[q]].project = q /\ thread'[registry'[q]].at \in Started
    <3>1. CASE q = p
      BY <2>1, <3>1 DEF Started
    <3>2. CASE q # p
      <4>1. registry[q] \in Threads /\ registry'[q] = registry[q]
            /\ thread[registry[q]].project = q
            /\ thread[registry[q]].at \in Started
        BY <2>1, <2>5, <3>2 DEF TypeOK, Owned
      <4> QED BY <2>1, <3>2, <4>1
    <3> QED BY <3>1, <3>2
  <2> QED BY <2>2, <2>3, <2>4, <2>5 DEF Owned
<1>5. CASE StartRaises(a)
  <2>1. PICK t \in Threads, p \in Projects :
           /\ thread[t].project = p /\ thread[t].at = "created"
           /\ registry'[p] = Unstarted
           /\ \A q \in Projects \ {p} : registry'[q] = registry[q]
           /\ thread'[t].at = "free" /\ thread'[t].project = AnyWork
           /\ \A u \in Threads \ {t} :
                \/ thread'[u] = thread[u]
                \/ /\ thread[u].at = "draining"
                   /\ thread'[u].at = "free" /\ thread'[u].project = AnyWork
    BY <1>5, StartFails
  <2>2. UNCHANGED <<work, holder, expired, stalled>>
    BY <1>5 DEF StartRaises
  <2>3. ASSUME NEW u \in Threads, NEW q \in Projects, thread'[u].project = q
        PROVE  thread'[u] = thread[u] /\ u # t
    BY <2>1, <2>3 DEF AnyWork, Projects
  <2>4. \A u \in Threads, q \in Projects :
          thread'[u].project = q => work'[q] \notin {"none", "pending"}
    BY <2>2, <2>3 DEF Owned
  <2>5. ASSUME NEW u \in Threads, NEW q \in Projects \ stalled, WorksFor(u, q)'
        PROVE  /\ holder'[q] = u /\ q \notin expired'
               /\ thread'[u].at \in Started => registry'[q] = u
    <3>1. WorksFor(u, q) /\ thread'[u] = thread[u] /\ u # t
      BY <2>3, <2>5 DEF WorksFor
    <3>2. q # p
      <4>1. q = p => WorksFor(t, q)
        BY <2>1 DEF WorksFor, AtWork
      <4> QED BY <3>1, <4>1 DEF Owned
    <3> QED BY <2>1, <2>2, <3>1, <3>2 DEF Owned
  <2>6. ASSUME NEW q \in Projects, registry'[q] \in Threads
        PROVE  thread'[registry'[q]].project = q /\ thread'[registry'[q]].at \in Started
    <3>1. q # p
      BY <2>1, <2>6, SchedulerAssumption
    <3>2. registry'[q] = registry[q] /\ registry[q] \in Threads
          /\ thread[registry[q]].project = q /\ thread[registry[q]].at \in Started
      BY <2>1, <2>6, <3>1 DEF Owned
    <3> QED BY <2>1, <3>2 DEF Started
  <2> QED BY <2>2, <2>4, <2>5, <2>6 DEF Owned
<1> QED BY <1>1, <1>2, <1>3, <1>4, <1>5, ClaimsOrReturns
     DEF DrainStep, ClaimRaises, TakeSlot, Claim

LEMMA ThreadsKeepOwners ==
  ASSUME TypeOK, Linked, Owned, NEW t \in Threads, ThreadStep(t) \/ PipelineRaises(t)
  PROVE  Owned'
<1> USE DEF memory, database, history, Places, AtWork, Started
<1>0. thread[t].at # "free" => thread[t].project \in Projects
  BY Working
<1>1. CASE PassFence(t) \/ WriteFiles(t) \/ SettleWork(t) \/ LoseFence(t)
             \/ PipelineRaises(t) \/ ListTombstones(t)
  <2>1. /\ UNCHANGED <<registry, holder, expired, stalled>>
        /\ \A p \in Projects : work'[p] \in {"none", "pending"} =>
                                 work[p] \in {"none", "pending"}
    BY <1>1 DEF PassFence, WriteFiles, SettleWork, LoseFence, PipelineRaises,
                ListTombstones, TypeOK
  <2>2. \/ /\ thread[t].at \in {"working", "writing"}
           /\ \E place \in {"working", "writing", "leaving"} : Goto(t, place)
        \/ /\ thread[t].at = "listing"
           /\ \E place \in {"sweeping", "draining"} : Goto(t, place)
    BY <1>1 DEF PassFence, WriteFiles, SettleWork, LoseFence, PipelineRaises, ListTombstones
  <2> QED BY <2>1, <2>2, Gotos, OwnersAreKept
<1>2. CASE LeaveScheduler(t)
  <2> DEFINE p == thread[t].project
  <2>1. /\ thread[t].at = "leaving" /\ p \in Projects
        /\ UNCHANGED <<work, holder, expired, stalled>>
    BY <1>0, <1>2 DEF LeaveScheduler
  <2>2. thread'[t].at = "listing" /\ thread'[t].project = p
        /\ \A u \in Threads \ {t} : thread'[u] = thread[u]
    BY <1>2, Gotos DEF LeaveScheduler
  <2>3. registry'[p] = NoThread /\ \A q \in Projects \ {p} : registry'[q] = registry[q]
    BY <1>2, <2>1 DEF LeaveScheduler, TypeOK
  <2> HIDE DEF p
  <2>4. \A u \in Threads, q \in Projects :
          thread'[u].project = q => work'[q] \notin {"none", "pending"}
    BY <2>1, <2>2 DEF Owned, p
  <2>5. ASSUME NEW u \in Threads, NEW q \in Projects \ stalled, WorksFor(u, q)'
        PROVE  /\ holder'[q] = u /\ q \notin expired'
               /\ thread'[u].at \in Started => registry'[q] = u
    <3>1. WorksFor(u, q) /\ u # t
      BY <2>2, <2>5 DEF WorksFor
    <3>2. q # p
      <4>1. WorksFor(t, p)
        BY <2>1 DEF WorksFor, p
      <4> QED BY <2>1, <3>1, <4>1 DEF Owned
    <3> QED BY <2>1, <2>2, <2>3, <3>1, <3>2 DEF Owned
  <2>6. ASSUME NEW q \in Projects, registry'[q] \in Threads
        PROVE  thread'[registry'[q]].project = q /\ thread'[registry'[q]].at \in Started
    <3>1. q # p
      BY <2>3, <2>6, SchedulerAssumption
    <3>2. registry[q] \in Threads /\ registry'[q] = registry[q]
          /\ thread[registry[q]].project = q /\ thread[registry[q]].at \in Started
      BY <2>3, <2>6, <3>1 DEF TypeOK, Owned
    <3>3. registry[q] # t
      BY <3>1, <3>2 DEF p
    <3> QED BY <2>2, <3>2, <3>3
  <2> QED BY <2>1, <2>4, <2>5, <2>6 DEF Owned
<1> QED BY <1>1, <1>2 DEF ThreadStep

LEMMA OthersKeepOwners ==
  ASSUME TypeOK, Linked, Owned,
         \/ \E s \in Sweepers : SweepStep(s)
         \/ \E p \in Projects : \/ CreateProject(p) \/ DeleteProject(p) \/ JoinWork(p)
                                \/ LeaseExpires(p) \/ Stall(p)
         \/ Reclaim \/ StartProcess \/ Shutdown \/ Stop
  PROVE  Owned'
<1> USE DEF memory, database, history, AtWork, Started
<1>1. ASSUME NEW s \in Sweepers, SweepStep(s)
      PROVE  Owned'
  <2>1. UNCHANGED <<registry, holder, expired, work, stalled>> /\ sweep[s] # "off"
    BY <1>1 DEF SweepStep, SweepJoins, SweepRemoves, SweepRecords
  <2>2. CASE SweepReturns(s)
    <3>1. \A t \in Threads : s = Ending(t) => thread[t].at = "sweeping"
      BY <2>1 DEF Linked, ThreadsLinked
    <3>2. ASSUME NEW t \in Threads
          PROVE  \/ thread'[t] = thread[t]
                 \/ /\ thread'[t].project = thread[t].project
                    /\ thread[t].at = "sweeping" /\ thread'[t].at = "draining"
      BY <2>2, <3>1, SweepEnds
    <3> QED BY <2>1, <3>2, OwnersAreKept
  <2>3. CASE UNCHANGED thread
    BY <2>1, <2>3, OwnersAreKept
  <2>4. CASE SweepRaises(s)
    <3>1. \A t \in Threads : s = Ending(t) => thread[t].at = "sweeping"
      BY <2>1 DEF Linked, ThreadsLinked
    <3>2. ASSUME NEW t \in Threads
          PROVE  \/ thread'[t] = thread[t]
                 \/ /\ thread'[t].project = AnyWork
                    /\ thread[t].at = "sweeping" /\ thread'[t].at = "free"
      BY <2>4, <3>1, SweepFails
    <3> QED BY <2>1, <3>2, OwnersAreKept
  <2> QED BY <1>1, <2>2, <2>3, <2>4 DEF SweepStep, SweepJoins, SweepRemoves, SweepRecords
<1>2. ASSUME NEW p \in Projects, CreateProject(p) \/ DeleteProject(p) \/ JoinWork(p)
      PROVE  Owned'
  <2>1. /\ UNCHANGED <<registry, holder, expired, stalled, thread>>
        /\ \A q \in Projects : work'[q] \in {"none", "pending"} =>
                                 work[q] \in {"none", "pending"}
    BY <1>2 DEF CreateProject, DeleteProject, JoinWork, TypeOK
  <2> QED BY <2>1, OwnersAreKept
<1>3. ASSUME NEW p \in Projects, LeaseExpires(p) \/ Stall(p)
      PROVE  Owned'
  <2>1. UNCHANGED <<registry, holder, work, thread>> /\ expired' = expired \cup {p}
    BY <1>3 DEF LeaseExpires, Stall, LetExpire
  <2>2. \/ stalled' = stalled /\ ~HolderLives(p)
        \/ stalled' = stalled \cup {p}
    BY <1>3 DEF LeaseExpires, Stall
  <2>3. \A t \in Threads : p \notin stalled' => ~WorksFor(t, p)
    BY <2>2 DEF Owned, WorksFor, HolderLives
  <2> QED BY <2>1, <2>2, <2>3 DEF Owned, WorksFor
<1>4. CASE Reclaim \/ StartProcess \/ Shutdown
  BY <1>4, OwnersAreKept DEF Reclaim, StartProcess, Shutdown
<1>5. CASE Stop
  <2>1. \A p \in Projects : registry'[p] = NoThread
    BY <1>5 DEF Stop, EmptyMemory
  <2>2. \A t \in Threads : thread'[t].at = "free" /\ thread'[t].project = AnyWork
    BY <1>5, Stops
  <2> QED BY <2>1, <2>2, SchedulerAssumption DEF Owned, WorksFor, AnyWork, Projects
<1> QED BY <1>1, <1>2, <1>3, <1>4, <1>5
-----------------------------------------------------------------------------
(***************************************************************************)
(* Sweeps and the fence.                                                   *)
(***************************************************************************)

\* What is swept changes only with the thread that sweeps.
LEMMA SweptIsKept ==
  ASSUME NEW s \in Sweepers,
         \A t \in Threads : s = Ending(t) => thread'[t].project = thread[t].project
  PROVE  Swept(s)' = Swept(s)
<1>1. ASSUME NEW p \in Projects, s = Deleter(p) PROVE Swept(s)' = Swept(s)
  BY <1>1, Callees
<1>2. ASSUME NEW t \in Threads, s = Ending(t) PROVE Swept(s)' = Swept(s)
  BY <1>2, Callees
<1> QED BY <1>1, <1>2, Callees

\* Steps that let no thread pass the fence, begin no sweep and write no file.
LEMMA FenceIsKept ==
  ASSUME Fenced, stalled \subseteq stalled', stuck \subseteq stuck',
         files' \subseteq files, tombstones' \subseteq tombstones,
         \A p \in Projects : work[p] = "deleted" => work'[p] = "deleted",
         tombstones \subseteq Projects,
         \A p \in Projects : request'[p] # "none" => request[p] # "none",
         \A t \in Threads : thread'[t].at = "writing" =>
           thread[t].at = "writing" /\ thread'[t].project = thread[t].project,
         \A s \in Sweepers : sweep'[s] # "off" =>
           sweep'[s] = sweep[s] /\ Swept(s)' = Swept(s) /\ Swept(s) \in Projects
  PROVE  Fenced'
<1>1. \A s \in Sweepers : SweepIsFenced(s)'
  BY DEF Fenced, SweepIsFenced
<1>2. (\A p \in tombstones : work[p] = "deleted")'
  BY DEF Fenced
<1>3. (\A p \in Projects : request[p] # "none" => work[p] = "deleted")'
  BY DEF Fenced
<1> QED BY <1>1, <1>2, <1>3 DEF Fenced

LEMMA DrainsKeepFence ==
  ASSUME TypeOK, Linked, Fenced, NEW a \in Callers, DrainStep(a) \/ ClaimRaises(a) \/ StartRaises(a)
  PROVE  Fenced'
<1> USE DEF memory, database, history
<1>1. /\ UNCHANGED <<request, sweep, tombstones, files, stalled, stuck>>
      /\ drain[a].at # "off"
  BY DEF DrainStep, ClaimRaises, StartRaises, TakeSlot, Claim, Register
<1>2. \A p \in Projects : work[p] = "deleted" => work'[p] = "deleted"
  <2>1. ASSUME NEW p \in Projects, NEW t \in Threads, Leases(a, p, t)
        PROVE  \A q \in Projects : work[q] = "deleted" => work'[q] = "deleted"
    BY <2>1 DEF Leases, Claims, Eligible, TypeOK
  <2> QED BY <2>1, ClaimsOrReturns DEF DrainStep, ClaimRaises, StartRaises, TakeSlot, Register
<1>3. ASSUME NEW t \in Threads
      PROVE  \/ thread'[t] = thread[t]
             \/ thread[t].at = "draining" /\ thread'[t].at = "free"
             \/ thread[t].at = "free" /\ thread'[t].at = "created"
             \/ /\ thread[t].at = "created" /\ thread'[t].at = "working"
                /\ thread'[t].project = thread[t].project
             \/ thread[t].at = "created" /\ thread'[t].at = "free"
  <2>1. CASE Return(a)
    BY <1>1, <2>1, Returns DEF Linked, ThreadsLinked
  <2>2. CASE \E p \in Projects, u \in Threads : Leases(a, p, u)
    BY <2>2 DEF Leases
  <2>3. CASE Register(a)
    BY <2>3, Registers
  <2>4. CASE StartRaises(a)
    BY <2>4, StartFails
  <2> QED BY <2>1, <2>2, <2>3, <2>4, ClaimsOrReturns DEF DrainStep, ClaimRaises, TakeSlot
<1>4. ASSUME NEW s \in Sweepers, sweep'[s] # "off"
      PROVE  sweep'[s] = sweep[s] /\ Swept(s)' = Swept(s) /\ Swept(s) \in Projects
  <2>1. \A t \in Threads : s = Ending(t) => thread[t].at = "sweeping"
    BY <1>1, <1>4 DEF Linked, ThreadsLinked
  <2>2. \A t \in Threads : s = Ending(t) => thread'[t] = thread[t]
    BY <1>3, <2>1
  <2> QED BY <1>1, <1>4, <2>2, SweptIsKept, SweptIsProject
<1>5. \A t \in Threads : thread'[t].at = "writing" =>
        thread[t].at = "writing" /\ thread'[t].project = thread[t].project
  BY <1>3
<1>6. tombstones \subseteq Projects
  BY DEF TypeOK
<1> QED BY <1>1, <1>2, <1>4, <1>5, <1>6, FenceIsKept

LEMMA ThreadsKeepFence ==
  ASSUME TypeOK, Linked, Owned, Fenced, NEW t \in Threads,
         ThreadStep(t) \/ PipelineRaises(t)
  PROVE  Fenced'
<1> USE DEF memory, database, history
<1> DEFINE p == thread[t].project
<1>0. thread[t].at # "free" => p \in Projects
  BY Working
<1>1. /\ UNCHANGED <<request, tombstones, stalled, stuck>> /\ tombstones \subseteq Projects
      /\ \A q \in Projects : work[q] = "deleted" => work'[q] = "deleted"
  BY <1>0 DEF ThreadStep, PassFence, WriteFiles, SettleWork, LoseFence, LeaveScheduler,
             ListTombstones, PipelineRaises, TypeOK, Holds
<1>2. thread'[t].project = p /\ \A u \in Threads \ {t} : thread'[u] = thread[u]
  <2>1. \E place \in Places : Goto(t, place)
    BY DEF ThreadStep, PassFence, WriteFiles, SettleWork, LoseFence, LeaveScheduler,
           ListTombstones, PipelineRaises, Places
  <2> QED BY <2>1, Gotos
<1>3. \A s \in Sweepers : Swept(s)' = Swept(s)
  BY <1>2, SweptIsKept
<1>4. \A s \in Sweepers : sweep[s] # "off" => Swept(s) \in Projects
  BY SweptIsProject
<1> HIDE DEF p
<1>5. CASE PassFence(t)
  <2>1. UNCHANGED <<sweep, files>> /\ p \in Projects /\ work[p] = "leased"
    BY <1>0, <1>5 DEF PassFence, Holds, p
  <2>2. ASSUME NEW s \in Sweepers, sweep[s] # "off"
        PROVE  Swept(s) # p
    BY <2>1, <2>2 DEF Fenced, SweepIsFenced
  <2>3. \A s \in Sweepers : SweepIsFenced(s)'
    BY <1>1, <1>2, <1>3, <1>4, <2>1, <2>2 DEF Fenced, SweepIsFenced
  <2> QED BY <1>1, <2>3 DEF Fenced
<1>6. CASE WriteFiles(t)
  <2>1. UNCHANGED sweep /\ files' = files \cup {p} /\ thread[t].at = "writing"
        /\ thread'[t].at = "working"
    BY <1>6, Gotos DEF WriteFiles, p, Places
  <2>2. \A s \in Sweepers : SweepIsFenced(s)'
    BY <1>1, <1>2, <1>3, <1>4, <2>1 DEF Fenced, SweepIsFenced, p
  <2> QED BY <1>1, <2>2 DEF Fenced
<1>7. CASE ListTombstones(t)
  <2>1. UNCHANGED files /\ thread'[t].at # "writing"
    BY <1>7, Gotos DEF ListTombstones, Places
  <2>2. \/ UNCHANGED sweep
        \/ p \in tombstones /\ sweep' = [sweep EXCEPT ![Ending(t)] = "joining"]
    BY <1>7 DEF ListTombstones, p
  <2>3. CASE UNCHANGED sweep
    BY <1>1, <1>2, <1>3, <1>4, <2>1, <2>3, FenceIsKept
  <2>4. CASE p \in tombstones /\ sweep' = [sweep EXCEPT ![Ending(t)] = "joining"]
    <3>1. sweep'[Ending(t)] = "joining" /\ Swept(Ending(t)) = p
          /\ \A s \in Sweepers \ {Ending(t)} : sweep'[s] = sweep[s]
      BY <2>4, Callees DEF TypeOK, p
    <3>2. work'[p] = "deleted"
      BY <1>1, <2>4 DEF Fenced
    <3>3. \A s \in Sweepers : SweepIsFenced(s)'
      BY <1>1, <1>2, <1>3, <1>4, <2>1, <3>1, <3>2 DEF Fenced, SweepIsFenced
    <3> QED BY <1>1, <3>3 DEF Fenced
  <2> QED BY <2>2, <2>3, <2>4
<1>8. CASE SettleWork(t) \/ LoseFence(t) \/ LeaveScheduler(t) \/ PipelineRaises(t)
  <2>1. UNCHANGED <<sweep, files>> /\ \E place \in {"leaving", "listing"} : Goto(t, place)
    BY <1>8 DEF SettleWork, LoseFence, LeaveScheduler, PipelineRaises
  <2>2. thread'[t].at # "writing"
    BY <2>1, Gotos DEF Places
  <2> QED BY <1>1, <1>2, <1>3, <1>4, <2>1, <2>2, FenceIsKept
<1> QED BY <1>5, <1>6, <1>7, <1>8 DEF ThreadStep

LEMMA SweepsKeepFence ==
  ASSUME TypeOK, Linked, Owned, Fenced, NEW s \in Sweepers, SweepStep(s)
  PROVE  Fenced'
<1> USE DEF memory, database, history
<1>1. /\ UNCHANGED <<work, registry, stalled>> /\ tombstones' \subseteq tombstones
      /\ stuck \subseteq stuck' /\ files' \subseteq files /\ tombstones \subseteq Projects
      /\ sweep[s] # "off" /\ Swept(s) \in Projects
  BY SweptIsProject DEF SweepStep, SweepJoins, SweepRemoves, SweepRecords, TypeOK
<1>2. \A r \in Sweepers : sweep[r] # "off" => Swept(r) \in Projects
  BY SweptIsProject
<1>3. CASE SweepReturns(s)
  <2>1. \A t \in Threads : s = Ending(t) => thread[t].at = "sweeping"
    BY <1>1 DEF Linked, ThreadsLinked
  <2>2. ASSUME NEW t \in Threads
        PROVE  /\ thread'[t].project = thread[t].project
               /\ thread'[t].at = "writing" => thread[t].at = "writing"
    BY <1>3, <2>1, SweepEnds
  <2>3. \A r \in Sweepers : Swept(r)' = Swept(r)
    BY <2>2, SweptIsKept
  <2>4. \A p \in Projects : request'[p] # "none" => request[p] # "none"
    BY <1>3, SweepEnds
  <2>5. sweep'[s] = "off" /\ \A r \in Sweepers \ {s} : sweep'[r] = sweep[r]
    BY <1>3, SweepEnds
  <2> QED BY <1>1, <1>2, <2>2, <2>3, <2>4, <2>5, FenceIsKept
<1>4. ASSUME NEW place \in {"removing", "done", "remains"},
             sweep' = [sweep EXCEPT ![s] = place], UNCHANGED <<request, thread>>,
             SweepIsFenced(s)'
      PROVE  Fenced'
  <2>1. \A r \in Sweepers : Swept(r)' = Swept(r)
    BY <1>4, SweptIsKept
  <2>2. \A r \in Sweepers \ {s} : sweep'[r] = sweep[r]
    BY <1>4 DEF TypeOK
  <2>3. \A r \in Sweepers \ {s} : SweepIsFenced(r)'
    BY <1>1, <1>2, <1>4, <2>1, <2>2 DEF Fenced, SweepIsFenced
  <2> QED BY <1>1, <1>4, <2>3 DEF Fenced
<1>5. Swept(s)' = Swept(s) \/ SweepReturns(s) \/ SweepRaises(s)
  BY SweptIsKept DEF SweepStep, SweepJoins, SweepRemoves, SweepRecords
<1>6. CASE SweepJoins(s) /\ ~SweepReturns(s) /\ ~SweepRaises(s)
  <2>1. /\ sweep' = [sweep EXCEPT ![s] = "removing"] /\ UNCHANGED <<request, thread, files>>
        /\ registry[Swept(s)] = NoThread
    BY <1>6 DEF SweepJoins, JoinReturns
  <2>2. sweep'[s] = "removing"
    BY <2>1 DEF TypeOK
  <2>3. Swept(s) \notin stalled =>
          \A t \in Threads : thread[t].project = Swept(s) => thread[t].at # "writing"
    BY <1>1, <2>1, SchedulerAssumption DEF Owned, WorksFor, AtWork, Started
  <2>4. SweepIsFenced(s)'
    BY <1>1, <1>5, <1>6, <2>1, <2>2, <2>3 DEF Fenced, SweepIsFenced
  <2> QED BY <1>4, <2>1, <2>4
<1>7. CASE SweepRemoves(s)
  <2>1. UNCHANGED <<request, thread>> /\ sweep[s] = "removing"
    BY <1>7 DEF SweepRemoves
  <2>2. CASE files' = files \ {Swept(s)} /\ sweep' = [sweep EXCEPT ![s] = "done"]
    <3>1. sweep'[s] = "done"
      BY <2>2 DEF TypeOK
    <3>2. SweepIsFenced(s)'
      BY <1>1, <2>1, <2>2, <3>1, SweptIsKept DEF Fenced, SweepIsFenced
    <3> QED BY <1>4, <2>1, <2>2, <3>2
  <2>3. CASE sweep' = [sweep EXCEPT ![s] = "remains"] /\ stuck' = stuck \cup {Swept(s)}
    <3>1. sweep'[s] = "remains"
      BY <2>3 DEF TypeOK
    <3>2. SweepIsFenced(s)'
      BY <1>1, <2>1, <2>3, <3>1, SweptIsKept DEF Fenced, SweepIsFenced
    <3> QED BY <1>4, <2>1, <2>3, <3>2
  <2> QED BY <1>7, <2>2, <2>3 DEF SweepRemoves
<1>8. CASE SweepRaises(s)
  <2>1. \A t \in Threads : s = Ending(t) => thread[t].at = "sweeping"
    BY <1>1 DEF Linked, ThreadsLinked
  <2>2. ASSUME NEW t \in Threads
        PROVE  /\ s # Ending(t) => thread'[t] = thread[t]
               /\ thread'[t].at = "writing" => thread'[t] = thread[t]
    BY <1>8, <2>1, SweepFails
  <2>3. \A p \in Projects : request'[p] # "none" => request[p] # "none"
    BY <1>8, SweepFails
  <2>4. sweep'[s] = "off" /\ \A r \in Sweepers \ {s} : sweep'[r] = sweep[r]
    BY <1>8, SweepFails
  <2>5. ASSUME NEW r \in Sweepers \ {s}
        PROVE  Swept(r)' = Swept(r)
    BY <2>2, SweptIsKept
  <2> QED BY <1>1, <1>2, <2>2, <2>3, <2>4, <2>5, FenceIsKept
<1> QED BY <1>3, <1>6, <1>7, <1>8 DEF SweepStep, SweepRecords

LEMMA RequestsKeepFence ==
  ASSUME TypeOK, Linked, Fenced, NEW p \in Projects,
         CreateProject(p) \/ DeleteProject(p) \/ JoinWork(p) \/ LeaseExpires(p) \/ Stall(p)
  PROVE  Fenced'
<1> USE Callees DEF memory, database, history
<1>1. UNCHANGED <<thread, files, stuck>> /\ stalled \subseteq stalled'
      /\ tombstones \subseteq Projects
  BY DEF CreateProject, DeleteProject, JoinWork, LeaseExpires, Stall, LetExpire, TypeOK
<1>2. \A s \in Sweepers : Swept(s)' = Swept(s) /\ (sweep[s] # "off" => Swept(s) \in Projects)
  BY <1>1, SweptIsKept, SweptIsProject
<1>3. CASE CreateProject(p) \/ LeaseExpires(p) \/ Stall(p)
  <2>1. UNCHANGED <<request, sweep, tombstones>>
        /\ \A q \in Projects : work[q] = "deleted" => work'[q] = "deleted"
    BY <1>3 DEF CreateProject, LeaseExpires, Stall, LetExpire, TypeOK
  <2> QED BY <1>1, <1>2, <2>1, FenceIsKept
<1>4. ASSUME UNCHANGED sweep, work'[p] = "deleted", tombstones' = tombstones \cup {p},
             \A q \in Projects \ {p} : request'[q] = request[q] /\ work'[q] = work[q]
      PROVE  Fenced'
  <2>1. \A s \in Sweepers : SweepIsFenced(s)'
    BY <1>1, <1>2, <1>4 DEF Fenced, SweepIsFenced
  <2> QED BY <1>1, <1>4, <2>1 DEF Fenced
<1>5. ASSUME sweep' = [sweep EXCEPT ![Deleter(p)] = "joining"], work[p] = "deleted",
             UNCHANGED <<work, tombstones>>,
             \A q \in Projects \ {p} : request'[q] = request[q]
      PROVE  Fenced'
  <2>1. sweep'[Deleter(p)] = "joining" /\ Swept(Deleter(p)) = p
        /\ \A s \in Sweepers \ {Deleter(p)} : sweep'[s] = sweep[s]
    BY <1>5 DEF TypeOK
  <2>2. \A s \in Sweepers : SweepIsFenced(s)'
    BY <1>1, <1>2, <1>5, <2>1 DEF Fenced, SweepIsFenced
  <2> QED BY <1>1, <1>5, <2>2 DEF Fenced
<1>6. CASE DeleteProject(p)
  <2>1. CASE /\ work' = [work EXCEPT ![p] = "deleted"]
             /\ tombstones' = tombstones \cup {p}
             /\ request' = [request EXCEPT ![p] = "joining"] /\ UNCHANGED sweep
    BY <1>4, <2>1 DEF TypeOK
  <2>2. CASE /\ work[p] = "deleted"
             /\ request' = [request EXCEPT ![p] = "sweeping"]
             /\ sweep' = [sweep EXCEPT ![Deleter(p)] = "joining"]
             /\ UNCHANGED <<work, tombstones>>
    BY <1>5, <2>2 DEF TypeOK
  <2> QED BY <1>6, <2>1, <2>2 DEF DeleteProject
<1>7. CASE JoinWork(p)
  <2>1. work[p] = "deleted" /\ UNCHANGED <<work, tombstones>>
    BY <1>7 DEF JoinWork, Fenced
  <2>2. CASE /\ request' = [request EXCEPT ![p] = "sweeping"]
             /\ sweep' = [sweep EXCEPT ![Deleter(p)] = "joining"]
    BY <1>5, <2>1, <2>2 DEF TypeOK
  <2>3. CASE request' = [request EXCEPT ![p] = "none"] /\ UNCHANGED sweep
    <3>1. \A q \in Projects : request'[q] # "none" => request[q] # "none"
      BY <2>3 DEF TypeOK
    <3> QED BY <1>1, <1>2, <2>1, <2>3, <3>1, FenceIsKept
  <2> QED BY <1>7, <2>2, <2>3 DEF JoinWork
<1> QED BY <1>3, <1>6, <1>7

LEMMA ProcessKeepsFence ==
  ASSUME TypeOK, Linked, Fenced, Reclaim \/ StartProcess \/ Shutdown \/ Stop
  PROVE  Fenced'
<1> USE DEF memory, database, history
<1>1. /\ UNCHANGED <<work, stalled>> /\ stuck \subseteq stuck'
      /\ files' \subseteq files /\ tombstones' \subseteq tombstones
      /\ tombstones \subseteq Projects
  BY DEF Reclaim, StartProcess, Shutdown, Stop, TypeOK
<1>2. CASE Reclaim \/ StartProcess \/ Shutdown
  <2>1. UNCHANGED <<request, sweep, thread>>
    BY <1>2 DEF Reclaim, StartProcess, Shutdown
  <2>2. \A s \in Sweepers : Swept(s)' = Swept(s) /\ (sweep[s] # "off" => Swept(s) \in Projects)
    BY <2>1, SweptIsKept, SweptIsProject
  <2> QED BY <1>1, <2>1, <2>2, FenceIsKept
<1>3. CASE Stop
  <2>1. /\ \A p \in Projects : request'[p] = "none"
        /\ \A s \in Sweepers : sweep'[s] = "off"
    BY <1>3 DEF Stop, EmptyMemory
  <2>2. \A t \in Threads : thread'[t].at = "free"
    BY <1>3, Stops
  <2> QED BY <1>1, <2>1, <2>2, FenceIsKept
<1> QED BY <1>2, <1>3
-----------------------------------------------------------------------------
(***************************************************************************)
(* Files and tombstones.                                                   *)
(***************************************************************************)

LEMMA DrainsMoveThreads ==
  ASSUME TypeOK, Linked, NEW a \in Callers, DrainStep(a) \/ ClaimRaises(a) \/ StartRaises(a), NEW t \in Threads
  PROVE  \/ thread'[t] = thread[t]
         \/ thread[t].at = "draining" /\ thread'[t].at = "free"
         \/ thread[t].at = "free" /\ thread'[t].at = "created"
         \/ /\ thread[t].at = "created" /\ thread'[t].at = "working"
            /\ thread'[t].project = thread[t].project
         \/ StartRaises(a) /\ thread[t].at = "created" /\ thread'[t].at = "free"
<1>1. CASE Return(a)
  <2>1. drain[a].at # "off"
    BY DEF DrainStep, ClaimRaises, StartRaises, TakeSlot, Claim, Register
  <2> QED BY <1>1, <2>1, Returns DEF Linked, ThreadsLinked
<1>2. CASE \E p \in Projects, u \in Threads : Leases(a, p, u)
  BY <1>2 DEF Leases
<1>3. CASE Register(a)
  BY <1>3, Registers
<1>4. CASE StartRaises(a)
  BY <1>4, StartFails
<1> QED BY <1>1, <1>2, <1>3, <1>4, ClaimsOrReturns DEF DrainStep, ClaimRaises, TakeSlot

LEMMA MemoryOfFilesIsKept ==
  ASSUME Remembered, stalled \subseteq stalled', files' \subseteq files,
         tombstones \subseteq tombstones',
         \A p \in Projects : work'[p] = "deleted" => work[p] = "deleted",
         \A t \in Threads : thread'[t].at = "writing" =>
           thread[t].at = "writing" /\ thread'[t].project = thread[t].project
  PROVE  Remembered'
  BY DEF Remembered

LEMMA FilesAreRemembered ==
  ASSUME TypeOK, Linked, Owned, Fenced, Remembered, Next
  PROVE  Remembered'
<1> USE DEF memory, database, history
<1>1. ASSUME NEW a \in Callers, DrainStep(a) \/ ClaimRaises(a) \/ StartRaises(a)
      PROVE  Remembered'
  <2>1. UNCHANGED <<files, tombstones, stalled>>
    BY <1>1 DEF DrainStep, ClaimRaises, StartRaises, TakeSlot, Claim, Register
  <2>2. ASSUME NEW p \in Projects, NEW t \in Threads, Leases(a, p, t)
        PROVE  \A q \in Projects : work'[q] = "deleted" => work[q] = "deleted"
    BY <2>2 DEF Leases, TypeOK
  <2>3. \A q \in Projects : work'[q] = "deleted" => work[q] = "deleted"
    BY <1>1, <2>2, ClaimsOrReturns
       DEF DrainStep, ClaimRaises, StartRaises, TakeSlot, Register
  <2> QED BY <1>1, <2>1, <2>3, DrainsMoveThreads, MemoryOfFilesIsKept
<1>2. ASSUME NEW t \in Threads, ThreadStep(t) \/ PipelineRaises(t)
      PROVE  Remembered'
  <2> DEFINE p == thread[t].project
  <2>1. /\ UNCHANGED <<tombstones, stalled>>
        /\ \A q \in Projects : work'[q] = "deleted" => work[q] = "deleted"
    BY <1>2 DEF ThreadStep, PassFence, WriteFiles, SettleWork, LoseFence,
                LeaveScheduler, ListTombstones, PipelineRaises, TypeOK
  <2>2. CASE PassFence(t)
    <3>1. UNCHANGED <<work, files>> /\ work[p] = "leased"
      BY <2>2 DEF PassFence, Holds
    <3>2. thread'[t].project = p /\ \A u \in Threads \ {t} : thread'[u] = thread[u]
      BY <2>2, Gotos DEF PassFence, Places
    <3> QED BY <2>1, <3>1, <3>2 DEF Remembered
  <2>3. CASE WriteFiles(t)
    <3>1. UNCHANGED work /\ files' = files \cup {p} /\ thread[t].at = "writing"
      BY <2>3 DEF WriteFiles
    <3>2. thread'[t].at = "working" /\ \A u \in Threads \ {t} : thread'[u] = thread[u]
      BY <2>3, Gotos DEF WriteFiles, Places
    <3> QED BY <2>1, <3>1, <3>2 DEF Remembered
  <2>4. CASE ~PassFence(t) /\ ~WriteFiles(t)
    <3>1. UNCHANGED files /\ \E place \in {"leaving", "listing", "sweeping", "draining"} :
                                Goto(t, place)
      BY <1>2, <2>4 DEF ThreadStep, SettleWork, LoseFence, LeaveScheduler,
                        ListTombstones, PipelineRaises
    <3>2. thread'[t].at # "writing" /\ \A u \in Threads \ {t} : thread'[u] = thread[u]
      BY <3>1, Gotos DEF Places
    <3> QED BY <2>1, <3>1, <3>2, MemoryOfFilesIsKept
  <2> QED BY <2>2, <2>3, <2>4
<1>3. ASSUME NEW s \in Sweepers, SweepStep(s)
      PROVE  Remembered'
  <2>1. /\ UNCHANGED <<work, stalled>> /\ files' \subseteq files
        /\ sweep[s] # "off" /\ Swept(s) \in Projects
    BY <1>3, SweptIsProject DEF SweepStep, SweepJoins, SweepRemoves, SweepRecords
  <2>2. ASSUME NEW t \in Threads
        PROVE  thread'[t].at = "writing" => thread'[t] = thread[t]
    <3>1. CASE UNCHANGED thread
      BY <3>1
    <3>2. CASE SweepReturns(s)
      BY <3>2, SweepEnds
    <3>3. CASE SweepRaises(s)
      BY <3>3, SweepFails
    <3> QED BY <1>3, <3>1, <3>2, <3>3 DEF SweepStep, SweepJoins, SweepRemoves, SweepRecords
  <2>3. CASE UNCHANGED tombstones
    BY <2>1, <2>2, <2>3, MemoryOfFilesIsKept
  <2>4. CASE tombstones' = tombstones \ {Swept(s)} /\ sweep[s] = "done" /\ UNCHANGED files
    <3>1. Swept(s) \notin stalled =>
            /\ Swept(s) \notin files
            /\ \A t \in Threads : thread[t].project = Swept(s) => thread[t].at # "writing"
      BY <2>1, <2>4 DEF Fenced, SweepIsFenced
    <3>2. \A t \in Threads : thread'[t].at = "writing" =>
            thread[t].at = "writing" /\ thread'[t].project = thread[t].project
      BY <2>2
    <3> QED BY <2>1, <2>4, <3>1, <3>2 DEF Remembered
  <2> QED BY <1>3, <2>3, <2>4 DEF SweepStep, SweepJoins, SweepRemoves, SweepRecords
<1>4. ASSUME NEW p \in Projects,
             \/ CreateProject(p) \/ DeleteProject(p) \/ JoinWork(p)
             \/ LeaseExpires(p) \/ Stall(p)
      PROVE  Remembered'
  <2>1. UNCHANGED <<thread, files>> /\ stalled \subseteq stalled'
        /\ tombstones \subseteq tombstones'
        /\ \A q \in Projects : work'[q] = "deleted" =>
                                 work[q] = "deleted" \/ q \in tombstones'
    BY <1>4 DEF CreateProject, DeleteProject, JoinWork, LeaseExpires, Stall, LetExpire, TypeOK
  <2> QED BY <2>1 DEF Remembered
<1>5. CASE Reclaim \/ Shutdown
  BY <1>5, MemoryOfFilesIsKept DEF Reclaim, Shutdown
<1>6. CASE StartProcess
  <2>1. \A t \in Threads : thread'[t].at = "free"
    BY <1>6 DEF StartProcess, Linked, MemoryIsEmpty
  <2>2. UNCHANGED <<work, stalled>> /\ files' = files \ (tombstones \ tombstones')
    BY <1>6 DEF StartProcess
  <2> QED BY <2>1, <2>2 DEF Remembered
<1>7. CASE Stop
  <2>1. UNCHANGED <<work, tombstones, files, stalled>>
    BY <1>7 DEF Stop
  <2> QED BY <1>7, <2>1, Stops, MemoryOfFilesIsKept
<1> QED BY <1>1, <1>2, <1>3, <1>4, <1>5, <1>6, <1>7 DEF Next

\* Steps that lose no request and end no thread that has yet to list.
LEMMA WatchIsKept ==
  ASSUME Watched, tombstones' \subseteq tombstones, stuck \subseteq stuck',
         process' = "up" => process = "up",
         \A p \in Projects : request'[p] = "none" => request[p] = "none",
         tombstones \subseteq Projects,
         \A p \in Projects : registry[p] = Unstarted =>
           \/ registry'[p] = Unstarted
           \/ \E t \in Threads : thread'[t].project = p /\ thread'[t].at \in ToList,
         \A t \in Threads : thread[t].at \in ToList =>
           thread'[t].at \in ToList /\ thread'[t].project = thread[t].project
  PROVE  Watched'
  BY DEF Watched

\* Where somebody has joined in vain, somebody works.
LEMMA RegisteredWatches ==
  ASSUME TypeOK, Owned, NEW p \in Projects, registry[p] \notin {NoThread, Unstarted}
  PROVE  \E t \in Threads : thread[t].project = p /\ thread[t].at \in AtWork
<1>1. registry[p] \in Threads
  BY DEF TypeOK
<1> QED BY <1>1 DEF Owned, Started, AtWork

LEMMA TombstonesAreWatched ==
  ASSUME TypeOK, Linked, Owned, Fenced, Watched, Next
  PROVE  Watched'
<1> USE DEF memory, database, history, ToList, AtWork
<1>0. tombstones \subseteq Projects
  BY DEF TypeOK
<1>1. ASSUME NEW a \in Callers, DrainStep(a) \/ ClaimRaises(a) \/ StartRaises(a)
      PROVE  Watched'
  <2>1. UNCHANGED <<tombstones, stuck, process, request>>
    BY <1>1 DEF DrainStep, ClaimRaises, StartRaises, TakeSlot, Claim, Register
  <2>2. CASE Register(a)
    <3>1. \A p \in Projects : registry[p] = Unstarted =>
            \/ registry'[p] = Unstarted
            \/ \E t \in Threads : thread'[t].project = p /\ thread'[t].at = "working"
      BY <2>2, Registers
    <3>2. \A t \in Threads : thread[t].at \in ToList =>
            thread'[t].at \in ToList /\ thread'[t].project = thread[t].project
      BY <2>2, Registers
    <3> QED BY <1>0, <2>1, <3>1, <3>2, WatchIsKept
  <2>3. CASE StartRaises(a)
    <3>1. PICK t \in Threads, p \in Projects :
            /\ p = thread[t].project /\ registry'[p] = Unstarted
            /\ \A q \in Projects \ {p} : registry'[q] = registry[q]
            /\ \A u \in Threads \ {t} :
                 thread'[u] = thread[u] \/ thread[u].at = "draining"
      BY <2>3, StartFails
    <3> QED BY <1>0, <2>1, <3>1 DEF Watched
  <2>4. CASE ~Register(a) /\ ~StartRaises(a)
    <3>1. UNCHANGED registry
      BY <1>1, <2>4 DEF DrainStep, ClaimRaises, TakeSlot, Claim
    <3>2. \A t \in Threads : thread[t].at \in ToList =>
            thread'[t].at \in ToList /\ thread'[t].project = thread[t].project
      BY <1>1, <2>4, DrainsMoveThreads
    <3> QED BY <1>0, <2>1, <3>1, <3>2, WatchIsKept
  <2> QED BY <2>2, <2>3, <2>4
<1>2. ASSUME NEW t \in Threads, ThreadStep(t) \/ PipelineRaises(t)
      PROVE  Watched'
  <2>1. UNCHANGED <<tombstones, stuck, process, request>>
    BY <1>2 DEF ThreadStep, PassFence, WriteFiles, SettleWork, LoseFence,
                LeaveScheduler, ListTombstones, PipelineRaises
  <2>2. CASE \E place \in {"working", "writing", "leaving", "listing", "sweeping"} :
               Goto(t, place)
    <3>1. thread'[t].project = thread[t].project /\ thread'[t].at \in ToList
          /\ \A u \in Threads \ {t} : thread'[u] = thread[u]
      BY <2>2, Gotos DEF Places
    <3>2. \A p \in Projects : p # thread[t].project => registry'[p] = registry[p]
      BY <1>2 DEF ThreadStep, PassFence, WriteFiles, SettleWork, LoseFence,
                  LeaveScheduler, ListTombstones, PipelineRaises, TypeOK
    <3> QED BY <1>0, <2>1, <3>1, <3>2, WatchIsKept
  <2>3. CASE /\ Goto(t, "draining") /\ thread[t].project \notin tombstones
             /\ UNCHANGED registry
    <3>1. \A u \in Threads \ {t} : thread'[u] = thread[u]
      BY <2>3, Gotos DEF Places
    <3> QED BY <1>0, <2>1, <2>3, <3>1 DEF Watched
  <2> QED BY <1>2, <2>2, <2>3
       DEF ThreadStep, PassFence, WriteFiles, SettleWork, LoseFence,
           LeaveScheduler, ListTombstones, PipelineRaises
<1>3. ASSUME NEW s \in Sweepers, SweepStep(s)
      PROVE  Watched'
  <2>1. UNCHANGED <<process, registry>>
        /\ tombstones' \subseteq tombstones /\ stuck \subseteq stuck'
        /\ sweep[s] # "off" /\ Swept(s) \in Projects
    BY <1>3, SweptIsProject DEF SweepStep, SweepJoins, SweepRemoves, SweepRecords
  <2>2. CASE UNCHANGED <<request, thread>>
    BY <1>0, <2>1, <2>2, WatchIsKept
  <2>3. CASE SweepReturns(s) \/ SweepRaises(s)
    <3>1. \/ Swept(s) \notin tombstones' \/ Swept(s) \in stuck'
          \/ registry[Swept(s)] = Unstarted
          \/ \E t \in Threads : /\ thread[t].project = Swept(s)
                                /\ thread[t].at \in {"created", "working", "writing", "leaving"}
      <4>1. CASE SweepJoins(s)
        <5>1. Swept(s) \in tombstones => registry[Swept(s)] # NoThread
          <6>1. sweep'[s] = "off"
            BY <2>3, SweepEnds, SweepFails
          <6>2. sweep'[s] = "removing" \/ ~(Swept(s) \in tombstones /\ JoinReturns(Swept(s)))
            BY <4>1 DEF SweepJoins, TypeOK
          <6> QED BY <6>1, <6>2 DEF JoinReturns
        <5>2. UNCHANGED tombstones
          BY <4>1 DEF SweepJoins
        <5> QED BY <2>1, <5>1, <5>2, RegisteredWatches
      <4>2. CASE SweepRecords(s)
        BY <4>2, <2>1 DEF SweepRecords, Fenced, SweepIsFenced
      <4>3. ~SweepRemoves(s)
        <5>1. SweepRemoves(s) => sweep'[s] # "off"
          BY DEF SweepRemoves, TypeOK
        <5> QED BY <2>3, <5>1, SweepEnds, SweepFails
      <4> QED BY <1>3, <4>1, <4>2, <4>3 DEF SweepStep
    <3>2. \A t \in Threads : s = Ending(t) => thread[t].at = "sweeping"
      BY <2>1 DEF Linked, ThreadsLinked
    <3>3. ASSUME NEW t \in Threads, thread[t].at \in ToList, thread[t].project # Swept(s)
          PROVE  thread'[t].at \in ToList /\ thread'[t].project = thread[t].project
      <4>1. s # Ending(t)
        BY <3>3, Callees
      <4> QED BY <2>3, <3>3, <4>1, SweepEnds, SweepFails
    <3>4. ASSUME NEW t \in Threads,
                 thread[t].at \in {"created", "working", "writing", "leaving"}
          PROVE  thread'[t] = thread[t]
      BY <2>3, <3>2, <3>4, SweepEnds, SweepFails
    <3>5. ASSUME NEW p \in Projects, p # Swept(s), request'[p] = "none"
          PROVE  request[p] = "none"
      <4>1. s # Deleter(p)
        BY <3>5, Callees
      <4> QED BY <2>3, <3>5, <4>1, SweepEnds, SweepFails
    <3>6. ASSUME NEW p \in tombstones' \ stuck', process' = "up", request'[p] = "none",
                 registry'[p] # Unstarted
          PROVE  \E t \in Threads : thread'[t].project = p /\ thread'[t].at \in ToList
      <4>1. CASE p = Swept(s)
        BY <2>1, <3>1, <3>4, <3>6, <4>1
      <4>2. CASE p # Swept(s)
        <5>1. p \in tombstones \ stuck /\ p \in Projects /\ request[p] = "none"
          BY <1>0, <2>1, <3>5, <3>6, <4>2
        <5>2. PICK t \in Threads : thread[t].project = p /\ thread[t].at \in ToList
          BY <2>1, <3>6, <5>1 DEF Watched
        <5> QED BY <3>3, <4>2, <5>2
      <4> QED BY <4>1, <4>2
    <3> QED BY <3>6 DEF Watched
  <2> QED BY <1>3, <2>2, <2>3 DEF SweepStep, SweepJoins, SweepRemoves, SweepRecords
<1>4. ASSUME NEW p \in Projects, CreateProject(p) \/ LeaseExpires(p) \/ Stall(p)
      PROVE  Watched'
  BY <1>0, <1>4, WatchIsKept DEF CreateProject, LeaseExpires, Stall, LetExpire
<1>5. ASSUME NEW p \in Projects, DeleteProject(p)
      PROVE  Watched'
  <2>1. /\ request'[p] # "none" /\ \A q \in Projects \ {p} : request'[q] = request[q]
        /\ tombstones' \subseteq tombstones \cup {p}
        /\ UNCHANGED <<stuck, process, thread, registry>>
    BY <1>5 DEF DeleteProject, TypeOK
  <2> QED BY <1>0, <2>1 DEF Watched
<1>6. ASSUME NEW p \in Projects, JoinWork(p)
      PROVE  Watched'
  <2>1. /\ \A q \in Projects \ {p} : request'[q] = request[q]
        /\ UNCHANGED <<tombstones, stuck, process, thread, registry>>
        /\ request'[p] # "none" \/ registry[p] # NoThread
    BY <1>6 DEF JoinWork, JoinReturns, TypeOK
  <2> QED BY <1>0, <2>1, RegisteredWatches DEF Watched
<1>7. CASE Reclaim
  BY <1>0, <1>7, WatchIsKept DEF Reclaim
<1>8. CASE StartProcess
  BY <1>8 DEF StartProcess, Watched
<1>9. CASE Shutdown \/ Stop
  BY <1>9 DEF Shutdown, Stop, Watched
<1> QED BY <1>1, <1>2, <1>3, <1>4, <1>5, <1>6, <1>7, <1>8, <1>9 DEF Next
-----------------------------------------------------------------------------

LEMMA SumIsNatural ==
  ASSUME NEW n \in Nat, NEW m \in Nat, NEW k \in Nat
  PROVE  n + m + k >= 0
OBVIOUS

LEMMA IInvInit == Init => IInv
<1> SUFFICES ASSUME Init PROVE IInv
  OBVIOUS
<1>1. Free \in Records /\ NoCall \in InCalls /\ NoCall.at = "off" /\ NoCall.only = AnyWork
      /\ Free.at = "free" /\ Free.project = AnyWork
  BY DEF Free, NoCall, Records, Places, InCalls
<1>2. /\ \A t \in Threads : thread[t] = Free
      /\ \A a \in Callers : drain[a] = NoCall
      /\ \A s \in Sweepers : sweep[s] = "off"
      /\ \A p \in Projects : request[p] = "none" /\ registry[p] = NoThread
  BY DEF Init
<1>3. TypeOK
  <2>1. thread \in [Threads -> Records] /\ drain \in [Callers -> InCalls]
    BY <1>1 DEF Init
  <2>2. 0 <= Capacity /\ 0 \in 0 .. MaxStops /\ 0 \in 0 .. MaxFaults
    BY SchedulerAssumption
  <2>3. /\ [p \in Projects |-> NoThread] \in [Projects -> Threads \union {NoThread, Unstarted}]
        /\ [p \in Projects |-> "none"] \in [Projects -> {"none", "joining", "sweeping"}]
        /\ [p \in Projects |-> "none"] \in [Projects -> {"none", "pending", "leased", "settled", "deleted"}]
        /\ [s \in Sweepers |-> "off"] \in [Sweepers -> SweepPlaces]
    BY DEF SweepPlaces
  <2>4. /\ registry \in [Projects -> Threads \cup {NoThread, Unstarted}]
        /\ request \in [Projects -> {"none", "joining", "sweeping"}]
        /\ sweep \in [Sweepers -> SweepPlaces]
        /\ work \in [Projects -> {"none", "pending", "leased", "settled", "deleted"}]
        /\ holder \in [Projects -> Threads \cup {NoThread}]
    BY <2>3 DEF Init
  <2>6. /\ process \in {"up", "stopping", "down"} /\ reclaimer \in BOOLEAN
        /\ count \in Int /\ count <= Capacity
        /\ expired \subseteq Projects /\ tombstones \subseteq Projects
        /\ files \subseteq Projects
        /\ stops \in 0 .. MaxStops /\ faults \in 0 .. MaxFaults
        /\ lost \in Nat /\ stalled \subseteq Projects /\ stuck \subseteq Projects
    <3>1. process \in {"up", "stopping", "down"} /\ reclaimer \in BOOLEAN
      BY DEF Init
    <3>2. count \in Int /\ count <= Capacity /\ lost \in Nat
      BY <2>2 DEF Init
    <3>3. stops \in 0 .. MaxStops /\ faults \in 0 .. MaxFaults
      BY <2>2 DEF Init
    <3>4. /\ expired \subseteq Projects /\ tombstones \subseteq Projects
          /\ files \subseteq Projects /\ stalled \subseteq Projects /\ stuck \subseteq Projects
      BY DEF Init
    <3> QED BY <3>1, <3>2, <3>3, <3>4
  <2>7. Typed
    BY <2>1, <2>4, <2>6 DEF Typed
  <2>5. count >= 0
    BY DEF Init
  <2> QED BY <2>7, <2>5, TypeIsTyped
<1>4. SlotsAreExact
  <2>1. Occupied = {} /\ Reserved = {}
    BY <1>1, <1>2 DEF Occupied, Reserved
  <2> QED BY <2>1, FS_EmptySet DEF Init, SlotsAreExact
<1>5. Linked
  BY <1>1, <1>2, Callees DEF Init, Linked, MemoryIsEmpty, ThreadsLinked, RequestsLinked, CallsLinked
<1>6. Owned
  BY <1>1, <1>2, SchedulerAssumption DEF Owned, WorksFor, AnyWork, Projects
<1>7. Fenced
  BY <1>2 DEF Init, Fenced, SweepIsFenced
<1>8. Remembered /\ Watched
  BY <1>1, <1>2 DEF Init, Remembered, Watched
<1> QED BY <1>3, <1>4, <1>5, <1>6, <1>7, <1>8 DEF IInv

LEMMA IInvNext == IInv /\ [Next]_vars => IInv'
<1> SUFFICES ASSUME IInv, [Next]_vars PROVE IInv'
  OBVIOUS
<1> USE DEF IInv
<1>1. CASE Next
  <2>1. Typed'
    BY <1>1, DrainsKeepTypes, ThreadsKeepTypes, SweepsKeepTypes, RequestsKeepTypes,
       ProcessKeepsTypes DEF Next
  <2>2. SlotsAreExact'
    BY <1>1, DrainsCount, ThreadsCount, OthersCount DEF Next
  <2>3. TypeOK'
    <3>1. \E n, m \in Nat : count' = n + m + lost'
      <4>1. Cardinality(Occupied') \in Nat /\ Cardinality(Reserved') \in Nat
        <5>1. Occupied' \subseteq Threads /\ Reserved' \subseteq Callers
          BY DEF Occupied, Reserved
        <5>2. IsFiniteSet(Threads)
          BY SchedulerAssumption
        <5>3. IsFiniteSet(Occupied') /\ IsFiniteSet(Reserved')
          BY <5>1, <5>2, FiniteCallers, FS_Subset
        <5> QED BY <5>3, FS_CardinalityType
      <4> QED BY <2>2, <4>1 DEF SlotsAreExact
    <3>2. count' >= 0
      <4>1. lost' \in Nat
        BY <2>1 DEF Typed
      <4>2. PICK n \in Nat, m \in Nat : count' = n + m + lost'
        BY <3>1
      <4>3. n + m + lost' >= 0
        BY <4>1, SumIsNatural
      <4> QED BY <4>2, <4>3
    <3>3. (Typed /\ count >= 0)'
      BY <2>1, <3>2
    <3> QED BY <3>3, TypeIsTyped, PTL
  <2>4. Linked'
    BY <1>1, DrainsKeepLinks, ThreadsKeepLinks, SweepsKeepLinks, RequestsKeepLinks,
       ProcessKeepsLinks DEF Next
  <2>5. Owned'
    BY <1>1, DrainsKeepOwners, ThreadsKeepOwners, OthersKeepOwners DEF Next
  <2>6. Fenced'
    BY <1>1, DrainsKeepFence, ThreadsKeepFence, SweepsKeepFence, RequestsKeepFence,
       ProcessKeepsFence DEF Next
  <2>7. Remembered' /\ Watched'
    BY <1>1, FilesAreRemembered, TombstonesAreWatched
  <2> QED BY <2>2, <2>3, <2>4, <2>5, <2>6, <2>7
<1>2. CASE UNCHANGED vars
  <2> USE <1>2 DEF vars, memory, database, history
  <2>1. TypeOK'
    BY DEF TypeOK
  <2>2. SlotsAreExact'
    BY SlotsAreKept
  <2>3. Linked'
    BY DEF Linked, MemoryIsEmpty, ThreadsLinked, RequestsLinked, CallsLinked
  <2>4. Owned'
    BY OwnersAreKept
  <2>5. Fenced'
    BY DEF Fenced, SweepIsFenced, Swept
  <2>6. Remembered' /\ Watched'
    BY DEF Remembered, Watched
  <2> QED BY <2>1, <2>2, <2>3, <2>4, <2>5, <2>6
<1> QED BY <1>1, <1>2
-----------------------------------------------------------------------------

\* Every variable keeps its type, and durable_work_count stays within
\* max_concurrent_generations and never falls below zero, whichever callers
\* interleave (main.py, _drain_durable_work).
THEOREM SchedulerTypes == Spec => []TypeOK
<1>1. IInv => TypeOK
  BY DEF IInv
<1> QED BY <1>1, IInvInit, IInvNext, PTL DEF Spec

\* durable_work_count is the number of threads that work, of slots reserved
\* for a claim and of slots lost to a claim or to a thread start that raised.
THEOREM CountIsExact == Spec => []SlotsAreExact
<1>1. IInv => SlotsAreExact
  BY DEF IInv
<1> QED BY <1>1, IInvInit, IInvNext, PTL DEF Spec

\* So at most max_concurrent_generations pipelines run at once.
THEOREM PipelinesAreBounded == Spec => [](Cardinality(Occupied) <= Capacity)
<1>1. IInv => Cardinality(Occupied) <= Capacity
  BY FiniteSlots, SchedulerAssumption DEF IInv, TypeOK, SlotsAreExact
<1> QED BY <1>1, IInvInit, IInvNext, PTL DEF Spec

\* No file of a deleted project is forgotten, but for a project whose lease
\* expired under a thread that lived (v1_projects.py, _sweep_project_cleanup_sync).
THEOREM FilesAreNotForgotten == Spec => []NoOrphanFiles
<1>1. IInv => NoOrphanFiles
  BY DEF IInv, Remembered, NoOrphanFiles, TypeOK
<1> QED BY <1>1, IInvInit, IInvNext, PTL DEF Spec

\* No tombstone is left to nobody while the process is up, but for one whose
\* work the registry keeps with a thread that never started.
THEOREM TombstonesAreSwept == Spec => []SweptWhenQuiet
<1>1. IInv => SweptWhenQuiet
  BY DEF IInv, Watched, SweptWhenQuiet, JoinRaises
<1> QED BY <1>1, IInvInit, IInvNext, PTL DEF Spec
=============================================================================
