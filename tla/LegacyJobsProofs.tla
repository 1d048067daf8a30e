-------------------------- MODULE LegacyJobsProofs --------------------------
(***************************************************************************)
(* Proofs about LegacyJobs for any finite set of requests and any number   *)
(* of slots: no slot is returned twice or lost, and the table of records   *)
(* tells the truth.                                                        *)
(*                                                                         *)
(* The second is not inductive.  That a sweep spares the record of a       *)
(* running job follows from what the record says meanwhile (Unfinished): a *)
(* sweep takes the old, only what has ended grows old, and a record ends   *)
(* with the last write of its thread.  That a completed job has its file   *)
(* follows from the order of the calls (MixedFirst) and from the record    *)
(* naming only files that are there (Backed).                              *)
(***************************************************************************)
EXTENDS LegacyJobs, TLAPS, FiniteSetTheorems

Rows  == [status : {"pending", "running"} \cup Ended, result : SUBSET {"podcast", "mp3"}]
Kinds == {"speech", "speech_wav", "beat", "podcast", "mp3"}
Never == {j \in Jobs : at[j] = "never"}

Busy(j) == at[j] \in Calls \cup {"start"}

\* A job not yet asked for has left no trace; while its thread runs, the
\* record is there, has not ended and is not old.
Unfinished ==
  \A j \in Jobs :
    /\ at[j] = "none" => j \notin DOMAIN records /\ j \notin old
    /\ Busy(j) => /\ j \in DOMAIN records /\ j \notin old
                  /\ records[j].status \notin Ended

\* The conversion and the measuring come after the mix.
MixedFirst == \A j \in Jobs : at[j] \in {"mp3", "probe"} => <<j, "podcast">> \in files

\* A completed record names files that are there.
Backed ==
  \A j \in DOMAIN records : records[j].status = "completed" =>
    \A kind \in {"podcast"} \cup records[j].result : <<j, kind>> \in files

IInv ==
  /\ TypeOK /\ records \in [DOMAIN records -> Rows]
  /\ SlotsAreReturned
  /\ Unfinished /\ MixedFirst /\ Backed
-----------------------------------------------------------------------------
(* The order of the calls and what they write. *)

LEMMA CallOrder ==
  ASSUME NEW c \in Calls
  PROVE  /\ After[c] \in (Calls \ {"script"}) \cup {"release"}
         /\ After[c] \in {"mp3", "probe"} => c \in {"mix", "mp3"}
BY DEF Calls, After

LEMMA CallsWrite ==
  ASSUME NEW c \in Calls, c # "mp3"
  PROVE  /\ Written[c] \subseteq Kinds
         /\ c = "mix" => "podcast" \in Written[c]
<1>1. /\ Written["script"] = {} /\ Written["speech"] = {"speech"}
      /\ Written["wav"] = {"speech_wav"} /\ Written["beat"] = {"beat"}
      /\ Written["mix"] = {"podcast"} /\ Written["probe"] = {}
  BY DEF Written
<1> QED BY <1>1 DEF Calls, Kinds
-----------------------------------------------------------------------------
(* Slots: what a move of one thread does to the sets that are counted. *)

LEMMA SetsAreFinite ==
  /\ IsFiniteSet(Holders) /\ IsFiniteSet(Never)
  /\ Cardinality(Holders) \in Nat /\ Cardinality(Never) \in Nat
<1>1. Holders \subseteq Jobs /\ Never \subseteq Jobs
  BY DEF Holders, Never
<1>2. IsFiniteSet(Holders) /\ IsFiniteSet(Never)
  BY <1>1, JobsAssumption, FS_Subset
<1> QED BY <1>2, FS_CardinalityType

LEMMA SumOfSlots ==
  /\ SlotsAreReturned <=> free + Cardinality(Holders) + Cardinality(Never) = Slots
  /\ SlotsAreReturned' <=> free' + Cardinality(Holders') + Cardinality(Never') = Slots
BY DEF SlotsAreReturned, Never

\* While a thread holds a slot the semaphore is not full.
LEMMA SomeSlotIsOut ==
  ASSUME NEW j \in Holders, SlotsAreReturned, free \in Int
  PROVE  free < Slots
<1>1. Cardinality(Holders) # 0
  BY SetsAreFinite, FS_EmptySet
<1> QED BY <1>1, SetsAreFinite, SumOfSlots, JobsAssumption

LEMMA MovesKeepTypes ==
  ASSUME NEW j \in Jobs, NEW x \in Calls \cup {"none", "start", "never", "release", "over"},
         TypeOK, at' = [at EXCEPT ![j] = x]
  PROVE  /\ at' \in [Jobs -> Calls \cup {"none", "start", "never", "release", "over"}]
         /\ at'[j] = x /\ \A k \in Jobs \ {j} : at'[k] = at[k]
BY DEF TypeOK

LEMMA AdmissionCounts ==
  ASSUME NEW j \in Jobs, TypeOK, at[j] = "none",
         \/ at' = [at EXCEPT ![j] = "start"]
         \/ at' = [at EXCEPT ![j] = "never"],
         free' = free - 1, SlotsAreReturned
  PROVE  SlotsAreReturned'
<1>1. CASE at' = [at EXCEPT ![j] = "start"]
  <2>1. at'[j] = "start" /\ \A k \in Jobs \ {j} : at'[k] = at[k]
    BY <1>1, MovesKeepTypes
  <2>2. Holders' = Holders \cup {j} /\ j \notin Holders /\ Never' = Never
    BY <2>1 DEF Holders, Never, Calls
  <2>3. Cardinality(Holders') = Cardinality(Holders) + 1
    BY <2>2, SetsAreFinite, FS_AddElement
  <2>4. free \in Int
    BY DEF TypeOK
  <2> QED BY <2>2, <2>3, <2>4, SetsAreFinite, SumOfSlots
<1>2. CASE at' = [at EXCEPT ![j] = "never"]
  <2>1. at'[j] = "never" /\ \A k \in Jobs \ {j} : at'[k] = at[k]
    BY <1>2, MovesKeepTypes
  <2>2. Never' = Never \cup {j} /\ j \notin Never /\ Holders' = Holders
    BY <2>1 DEF Holders, Never, Calls
  <2>3. Cardinality(Never') = Cardinality(Never) + 1
    BY <2>2, SetsAreFinite, FS_AddElement
  <2>4. free \in Int
    BY DEF TypeOK
  <2> QED BY <2>2, <2>3, <2>4, SetsAreFinite, SumOfSlots
<1> QED BY <1>1, <1>2

\* From start to the finally the thread keeps its slot.
LEMMA MovesCount ==
  ASSUME NEW j \in Jobs, TypeOK, j \in Holders,
         NEW x \in Calls \cup {"start", "release"},
         at' = [at EXCEPT ![j] = x], UNCHANGED free, SlotsAreReturned
  PROVE  SlotsAreReturned'
<1>1. at'[j] = x /\ \A k \in Jobs \ {j} : at'[k] = at[k]
  BY MovesKeepTypes
<1>2. Holders' = Holders /\ Never' = Never
  BY <1>1 DEF Holders, Never, Calls
<1> QED BY <1>2 DEF SlotsAreReturned, Never

LEMMA ReleaseCounts ==
  ASSUME NEW j \in Jobs, TypeOK, ReleaseSlot(j), SlotsAreReturned
  PROVE  SlotsAreReturned'
<1>1. at'[j] = "over" /\ \A k \in Jobs \ {j} : at'[k] = at[k]
  BY MovesKeepTypes DEF ReleaseSlot
<1>2. Holders' = Holders \ {j} /\ j \in Holders /\ Never' = Never
  BY <1>1 DEF ReleaseSlot, Holders, Never, Calls
<1>3. Cardinality(Holders') = Cardinality(Holders) - 1
  BY <1>2, SetsAreFinite, FS_RemoveElement
<1>4. free \in Int /\ free' = free + 1
  BY DEF ReleaseSlot, TypeOK
<1> QED BY <1>2, <1>3, <1>4, SetsAreFinite, SumOfSlots
-----------------------------------------------------------------------------
(* Records and files. *)

\* A step that leaves the records of the other jobs as they are.
OnlyRecordOf(j) ==
  /\ \A k \in DOMAIN records \ {j} : k \in DOMAIN records' /\ records'[k] = records[k]
  /\ DOMAIN records' \subseteq DOMAIN records \cup {j}

LEMMA NewRecord ==
  ASSUME NEW j \in Jobs, records \in [DOMAIN records -> Rows],
         records' = [k \in DOMAIN records \cup {j} |->
                       IF k = j THEN Record("pending", {}) ELSE records[k]]
  PROVE  /\ records' \in [DOMAIN records' -> Rows] /\ OnlyRecordOf(j)
         /\ j \in DOMAIN records'
         /\ records'[j].status = "pending" /\ records'[j].result = {}
BY DEF Record, Rows, OnlyRecordOf

LEMMA RecordIsStarted ==
  ASSUME NEW j \in DOMAIN records, records \in [DOMAIN records -> Rows],
         records' = [records EXCEPT ![j].status = "running"]
  PROVE  /\ records' \in [DOMAIN records' -> Rows] /\ OnlyRecordOf(j)
         /\ j \in DOMAIN records' /\ records'[j].status = "running"
BY DEF Rows, OnlyRecordOf

LEMMA RecordIsEnded ==
  ASSUME NEW j \in DOMAIN records, records \in [DOMAIN records -> Rows],
         NEW status \in Ended, NEW result \in SUBSET {"podcast", "mp3"},
         records' = [records EXCEPT ![j] = Record(status, result)]
  PROVE  /\ records' \in [DOMAIN records' -> Rows] /\ OnlyRecordOf(j)
         /\ j \in DOMAIN records'
         /\ records'[j].status = status /\ records'[j].result = result
BY DEF Record, Rows, OnlyRecordOf

LEMMA RowsAreTyped ==
  ASSUME records \in [DOMAIN records -> Rows]
  PROVE  \A j \in DOMAIN records :
           /\ records[j].status \in {"pending", "running"} \cup Ended
           /\ records[j].result \subseteq {"podcast", "mp3"}
BY DEF Rows

\* A step of one thread that only adds files, and leaves its own record
\* either as unfinished as it should be or true.
LEMMA RecordsStayTrue ==
  ASSUME NEW j \in Jobs, TypeOK, Unfinished, MixedFirst, Backed,
         OnlyRecordOf(j), files \subseteq files', UNCHANGED old,
         \A k \in Jobs \ {j} : at'[k] = at[k], at'[j] # "none",
         at'[j] \in Calls \cup {"start"} =>
           /\ j \in DOMAIN records' /\ j \notin old
           /\ records'[j].status \notin Ended,
         at'[j] \in {"mp3", "probe"} => <<j, "podcast">> \in files',
         j \in DOMAIN records' /\ records'[j].status = "completed" =>
           \A kind \in {"podcast"} \cup records'[j].result : <<j, kind>> \in files'
  PROVE  Unfinished' /\ MixedFirst' /\ Backed'
<1>1. Unfinished'
  <2> SUFFICES ASSUME NEW k \in Jobs, k # j
               PROVE  /\ at'[k] = "none" => k \notin DOMAIN records' /\ k \notin old'
                      /\ Busy(k)' => /\ k \in DOMAIN records' /\ k \notin old'
                                     /\ records'[k].status \notin Ended
    BY DEF Unfinished, Busy
  <2>1. at'[k] = at[k]
    OBVIOUS
  <2> QED BY <2>1 DEF Unfinished, Busy, OnlyRecordOf
<1>2. MixedFirst'
  BY DEF MixedFirst
<1>3. Backed'
  BY DEF Backed, OnlyRecordOf
<1> QED BY <1>1, <1>2, <1>3
-----------------------------------------------------------------------------
(* Every action keeps the inductive invariant. *)

Typed ==
  /\ free \in 0 .. Slots /\ DOMAIN records \subseteq Jobs /\ old \subseteq Jobs
  /\ records \in [DOMAIN records -> Rows]
  /\ at \in [Jobs -> Calls \cup {"none", "start", "never", "release", "over"}]
  /\ files \subseteq Jobs \X Kinds

LEMMA TypedIsTypeOK == (Typed => TypeOK) /\ (Typed' => TypeOK')
BY DEF Typed, TypeOK, Rows, Kinds

LEMMA AdmissionKeeps ==
  ASSUME NEW j \in Jobs, IInv, GeneratePodcast(j)
  PROVE  IInv'
<1> USE DEF IInv
<1>1. PICK x \in {"start", "never"} : at' = [at EXCEPT ![j] = x]
  BY DEF GeneratePodcast
<1>2. /\ at' \in [Jobs -> Calls \cup {"none", "start", "never", "release", "over"}]
      /\ at'[j] = x /\ \A k \in Jobs \ {j} : at'[k] = at[k]
  BY <1>1, MovesKeepTypes
<1>3. /\ records' \in [DOMAIN records' -> Rows] /\ OnlyRecordOf(j)
      /\ j \in DOMAIN records' /\ records'[j].status = "pending"
  BY NewRecord DEF GeneratePodcast
<1>4. j \notin old
  BY DEF GeneratePodcast, Unfinished
<1>5. SlotsAreReturned'
  BY AdmissionCounts DEF GeneratePodcast
<1>6. TypeOK'
  <2>1. free' \in 0 .. Slots
    BY JobsAssumption DEF GeneratePodcast, TypeOK
  <2>2. DOMAIN records' \subseteq Jobs /\ old' \subseteq Jobs /\ files' \subseteq Jobs \X Kinds
    BY <1>3 DEF GeneratePodcast, OnlyRecordOf, TypeOK, Kinds
  <2> QED BY <2>1, <2>2, <1>2, <1>3, TypedIsTypeOK DEF Typed
<1>7. Unfinished' /\ MixedFirst' /\ Backed'
  BY <1>2, <1>3, <1>4, RecordsStayTrue DEF GeneratePodcast, Ended
<1> QED BY <1>3, <1>5, <1>6, <1>7

LEMMA StartKeeps ==
  ASSUME NEW j \in Jobs, IInv, StartGeneration(j)
  PROVE  IInv'
<1> USE DEF IInv
<1>1. /\ at' \in [Jobs -> Calls \cup {"none", "start", "never", "release", "over"}]
      /\ at'[j] = "script" /\ \A k \in Jobs \ {j} : at'[k] = at[k]
  BY MovesKeepTypes DEF StartGeneration, Calls
<1>2. /\ records' \in [DOMAIN records' -> Rows] /\ OnlyRecordOf(j)
      /\ j \in DOMAIN records' /\ records'[j].status = "running"
  BY RecordIsStarted DEF StartGeneration
<1>3. j \notin old
  BY DEF StartGeneration, Unfinished, Busy
<1>4. SlotsAreReturned'
  BY MovesCount DEF StartGeneration, Holders, Calls
<1>5. TypeOK'
  <2>1. /\ free' \in 0 .. Slots /\ DOMAIN records' \subseteq Jobs
        /\ old' \subseteq Jobs /\ files' \subseteq Jobs \X Kinds
    BY <1>2 DEF StartGeneration, OnlyRecordOf, TypeOK, Kinds
  <2> QED BY <2>1, <1>1, <1>2, TypedIsTypeOK DEF Typed
<1>6. Unfinished' /\ MixedFirst' /\ Backed'
  BY <1>1, <1>2, <1>3, RecordsStayTrue DEF StartGeneration, Ended
<1> QED BY <1>2, <1>4, <1>5, <1>6

LEMMA RaiseKeeps ==
  ASSUME NEW j \in Jobs, IInv, CallRaises(j)
  PROVE  IInv'
<1> USE DEF IInv
<1>1. /\ at' \in [Jobs -> Calls \cup {"none", "start", "never", "release", "over"}]
      /\ at'[j] = "release" /\ \A k \in Jobs \ {j} : at'[k] = at[k]
  BY MovesKeepTypes DEF CallRaises
<1>2. /\ records' \in [DOMAIN records' -> Rows] /\ OnlyRecordOf(j)
      /\ j \in DOMAIN records' /\ records'[j].status = "failed"
  <2>1. "failed" \in Ended /\ {} \in SUBSET {"podcast", "mp3"}
    BY DEF Ended
  <2>2. j \in DOMAIN records /\ records' = [records EXCEPT ![j] = Record("failed", {})]
    BY DEF CallRaises
  <2> QED BY <2>1, <2>2, RecordIsEnded
<1>3. SlotsAreReturned'
  BY MovesCount DEF CallRaises, Holders
<1>4. TypeOK'
  <2>1. /\ free' \in 0 .. Slots /\ DOMAIN records' \subseteq Jobs
        /\ old' \subseteq Jobs /\ files' \subseteq Jobs \X Kinds
    BY <1>2 DEF CallRaises, OnlyRecordOf, TypeOK, Kinds
  <2> QED BY <2>1, <1>1, <1>2, TypedIsTypeOK DEF Typed
<1>5. Unfinished' /\ MixedFirst' /\ Backed'
  BY <1>1, <1>2, RecordsStayTrue DEF CallRaises, Calls
<1> QED BY <1>2, <1>3, <1>4, <1>5

LEMMA ReleaseKeeps ==
  ASSUME NEW j \in Jobs, IInv, ReleaseSlot(j)
  PROVE  IInv'
<1> USE DEF IInv
<1>1. /\ at' \in [Jobs -> Calls \cup {"none", "start", "never", "release", "over"}]
      /\ at'[j] = "over" /\ \A k \in Jobs \ {j} : at'[k] = at[k]
  BY MovesKeepTypes DEF ReleaseSlot
<1>2. UNCHANGED <<records, files, old>> /\ OnlyRecordOf(j)
  BY DEF ReleaseSlot, OnlyRecordOf
<1>3. SlotsAreReturned'
  BY ReleaseCounts
<1>4. TypeOK'
  <2>1. free' \in 0 .. Slots
    <3>1. j \in Holders /\ free \in 0 .. Slots
      BY DEF ReleaseSlot, Holders, TypeOK
    <3>2. free < Slots
      BY <3>1, SomeSlotIsOut
    <3> QED BY <3>1, <3>2, JobsAssumption DEF ReleaseSlot
  <2>2. /\ DOMAIN records' \subseteq Jobs /\ old' \subseteq Jobs
        /\ files' \subseteq Jobs \X Kinds /\ records' \in [DOMAIN records' -> Rows]
    BY <1>2 DEF TypeOK, Kinds
  <2> QED BY <2>1, <2>2, <1>1, TypedIsTypeOK DEF Typed
<1>5. Unfinished' /\ MixedFirst' /\ Backed'
  BY <1>1, <1>2, RecordsStayTrue DEF Calls, Backed
<1> QED BY <1>2, <1>3, <1>4, <1>5

LEMMA ReturnKeeps ==
  ASSUME NEW j \in Jobs, IInv, CallReturns(j)
  PROVE  IInv'
<1> USE DEF IInv
<1>1. at[j] \in Calls /\ After[at[j]] \in (Calls \ {"script"}) \cup {"release"}
  BY CallOrder DEF CallReturns
<1>2. /\ at' \in [Jobs -> Calls \cup {"none", "start", "never", "release", "over"}]
      /\ at'[j] = After[at[j]] /\ \A k \in Jobs \ {j} : at'[k] = at[k]
  BY <1>1, MovesKeepTypes DEF CallReturns
<1>3. j \in DOMAIN records /\ j \notin old /\ records[j].status \notin Ended
  BY <1>1 DEF Unfinished, Busy
<1>4. /\ files \subseteq files' /\ files' \subseteq files \cup ({j} \X Kinds)
      /\ at[j] = "mix" => <<j, "podcast">> \in files'
  <2>1. CASE at[j] = "mp3"
    BY <2>1 DEF CallReturns, Kinds
  <2>2. CASE at[j] # "mp3"
    <3>1. files' = files \cup ({j} \X Written[at[j]])
      BY <2>2 DEF CallReturns
    <3> QED BY <1>1, <2>2, <3>1, CallsWrite
  <2> QED BY <2>1, <2>2
<1>5. /\ records' \in [DOMAIN records' -> Rows] /\ OnlyRecordOf(j)
      /\ j \in DOMAIN records'
      /\ at[j] = "probe" =>
           \A kind \in {"podcast"} \cup records'[j].result : <<j, kind>> \in files'
      /\ at[j] # "probe" => records'[j] = records[j]
  <2>1. CASE at[j] = "probe"
    <3> DEFINE result == {"podcast"} \cup (IF <<j, "mp3">> \in files THEN {"mp3"} ELSE {})
    <3>1. records' = [records EXCEPT ![j] = Record("completed", result)]
      BY <1>3, <2>1 DEF CallReturns
    <3>2. "completed" \in Ended /\ result \in SUBSET {"podcast", "mp3"}
      BY DEF Ended
    <3>3. \A kind \in {"podcast"} \cup result : <<j, kind>> \in files'
      BY <1>4, <2>1 DEF MixedFirst
    <3> HIDE DEF result
    <3>4. /\ records' \in [DOMAIN records' -> Rows] /\ OnlyRecordOf(j)
          /\ j \in DOMAIN records' /\ records'[j].result = result
      BY <1>3, <3>1, <3>2, RecordIsEnded
    <3> QED BY <2>1, <3>3, <3>4
  <2>2. CASE at[j] # "probe"
    BY <1>3, <2>2 DEF CallReturns, OnlyRecordOf
  <2> QED BY <2>1, <2>2
<1>6. SlotsAreReturned'
  BY <1>1, MovesCount DEF CallReturns, Holders
<1>7. TypeOK'
  <2>1. /\ free' \in 0 .. Slots /\ DOMAIN records' \subseteq Jobs
        /\ old' \subseteq Jobs /\ files' \subseteq Jobs \X Kinds
    BY <1>4, <1>5 DEF CallReturns, OnlyRecordOf, TypeOK, Kinds
  <2> QED BY <2>1, <1>2, <1>5, TypedIsTypeOK DEF Typed
<1>8. at[j] = "probe" => at'[j] = "release"
  BY <1>2 DEF After
<1>9. at'[j] \in {"mp3", "probe"} => <<j, "podcast">> \in files'
  BY <1>1, <1>2, <1>4, CallOrder DEF MixedFirst
<1>10. Unfinished' /\ MixedFirst' /\ Backed'
  <2>1. at'[j] # "none" /\ UNCHANGED old
    BY <1>1, <1>2 DEF Calls, CallReturns
  <2>2. at'[j] \in Calls \cup {"start"} => at[j] # "probe"
    BY <1>8 DEF Calls
  <2>3. at'[j] \in Calls \cup {"start"} => records'[j].status \notin Ended
    BY <1>3, <1>5, <2>2
  <2>4. records'[j].status = "completed" => at[j] = "probe"
    BY <1>3, <1>5 DEF Ended
  <2> QED BY <1>2, <1>3, <1>4, <1>5, <1>9, <2>1, <2>3, <2>4, RecordsStayTrue
<1> QED BY <1>5, <1>6, <1>7, <1>10

LEMMA AgesKeeps ==
  ASSUME NEW j \in Jobs, IInv, Ages(j)
  PROVE  IInv'
<1> USE DEF IInv, Ages
<1>1. TypeOK' /\ records' \in [DOMAIN records' -> Rows]
  BY DEF TypeOK
<1>2. SlotsAreReturned' /\ MixedFirst' /\ Backed'
  BY DEF SlotsAreReturned, Holders, MixedFirst, Backed
<1>3. Unfinished'
  BY DEF Unfinished, Busy
<1> QED BY <1>1, <1>2, <1>3

LEMMA EvictionKeeps ==
  ASSUME IInv, EvictStaleJobs
  PROVE  IInv'
<1> USE DEF IInv
<1>1. /\ DOMAIN records' = DOMAIN records \ old
      /\ \A j \in DOMAIN records' : records'[j] = records[j]
      /\ records' \in [DOMAIN records' -> Rows]
      /\ UNCHANGED <<free, at, files, old>>
  BY DEF EvictStaleJobs
<1>2. TypeOK'
  BY <1>1 DEF TypeOK
<1>3. SlotsAreReturned' /\ MixedFirst' /\ Backed'
  BY <1>1 DEF SlotsAreReturned, Holders, MixedFirst, Backed
<1>4. Unfinished'
  BY <1>1 DEF Unfinished, Busy
<1> QED BY <1>1, <1>2, <1>3, <1>4
-----------------------------------------------------------------------------

LEMMA IInvInit == Init => IInv
<1> SUFFICES ASSUME Init PROVE IInv
  OBVIOUS
<1> USE DEF Init
<1>1. DOMAIN records = {} /\ records \in [DOMAIN records -> Rows]
  OBVIOUS
<1>2. \A j \in Jobs : at[j] = "none"
  OBVIOUS
<1>3. TypeOK
  BY <1>1, JobsAssumption DEF TypeOK
<1>4. SlotsAreReturned
  <2>1. Holders = {} /\ Never = {}
    BY <1>2 DEF Holders, Never, Calls
  <2> QED BY <2>1, FS_EmptySet, SumOfSlots, JobsAssumption
<1>5. Unfinished /\ MixedFirst /\ Backed
  BY <1>1, <1>2 DEF Unfinished, Busy, Calls, MixedFirst, Backed
<1> QED BY <1>1, <1>3, <1>4, <1>5 DEF IInv

LEMMA IInvNext == IInv /\ [Next]_vars => IInv'
<1> SUFFICES ASSUME IInv, [Next]_vars PROVE IInv'
  OBVIOUS
<1>1. ASSUME NEW j \in Jobs, GeneratePodcast(j) \/ ThreadStep(j) \/ Ages(j)
      PROVE  IInv'
  BY <1>1, AdmissionKeeps, StartKeeps, ReturnKeeps, RaiseKeeps, ReleaseKeeps, AgesKeeps
     DEF ThreadStep
<1>2. CASE EvictStaleJobs
  BY <1>2, EvictionKeeps
<1>3. CASE UNCHANGED vars
  BY <1>3 DEF vars, IInv, TypeOK, SlotsAreReturned, Holders, Unfinished, Busy,
              MixedFirst, Backed
<1> QED BY <1>1, <1>2, <1>3 DEF Next

\* IInv holds throughout, for any jobs and any number of slots: what the record of
\* a job says agrees with where its thread is (_run_full_generation).
THEOREM InvariantHolds == Spec => []IInv
BY IInvInit, IInvNext, PTL DEF Spec

LEMMA IInvIsEnough == IInv => SlotsAreReturned /\ JobsAreTrue
<1> SUFFICES ASSUME IInv PROVE JobsAreTrue
  BY DEF IInv
<1>1. TypeOK
  BY DEF IInv
<1>2. \A j \in Jobs : at[j] \in Calls \cup {"start"} => j \in DOMAIN records
  BY DEF IInv, Unfinished, Busy
<1>3. \A j \in DOMAIN records : records[j].status = "completed" => Download(j) \in files
  BY DEF IInv, Backed, Download
<1> QED BY <1>1, <1>2, <1>3 DEF JobsAreTrue

\* A slot is out exactly while the thread of an accepted job is between its
\* start and its finally, or for good where the thread could not be started
\* (_run_full_generation, generate_podcast).
THEOREM SlotsComeBack == Spec => []SlotsAreReturned
<1>1. IInv => SlotsAreReturned
  BY IInvIsEnough
<1> QED BY <1>1, InvariantHolds, PTL

\* The sweep that every request makes never takes the record of a job that
\* still runs, and a job reported as completed has the file its download
\* names (_evict_stale_jobs, download_result).
THEOREM TableIsTrue == Spec => []JobsAreTrue
<1>1. IInv => JobsAreTrue
  BY IInvIsEnough
<1> QED BY <1>1, InvariantHolds, PTL
=============================================================================
