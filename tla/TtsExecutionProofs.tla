------------------------ MODULE TtsExecutionProofs ------------------------
(***************************************************************************)
(* Proofs about TtsExecution for any number of plans, attempts and pool    *)
(* threads.                                                                *)
(*                                                                         *)
(* That a plan is charged once is not inductive: it needs to be known that *)
(* every charge belongs to the attempt under way, that a render which has  *)
(* not sent yet has none, and that an answer filed as retryable came       *)
(* without one, so that going round the loop leaves no charge behind.      *)
(* That the books show it needs to be known when a reservation is open:    *)
(* from its entry until the use is entered or the outcome recorded.  The   *)
(* types of the other variables come last (RestOfTypes), for the argument  *)
(* needs none of them.                                                     *)
(***************************************************************************)
EXTENDS TtsExecution, TLAPS

Unsent   == {"reserve", "record", "dispatch", "send"}
Open     == {"record", "dispatch", "send", "answered", "publish", "charge"}

Charged(p) == <<p, number[p]>> \in charged
Row(p)     == outcome[p][number[p]]
Entered(p) == ledger[p][number[p]]

\* The types the argument needs.
Types ==
  /\ at \in [Plans -> {"idle", "reserve", "record", "dispatch", "send",
                       "answered", "publish", "charge", "release", "end"}]
  /\ future \in [Plans -> {"none", "queued", "running", "returned", "raised",
                           "cancelled"}]
  /\ number \in [Plans -> Attempts]
  /\ answer \in [Plans -> Answers]
  /\ outcome \in [Plans -> [Attempts -> Outcomes]]
  /\ ledger \in [Plans -> [Attempts -> SUBSET Entries]]
  /\ charged \subseteq Plans \X Attempts

ChargesBelong ==
  \A p \in Plans, n \in Attempts : <<p, n>> \in charged => n = number[p]

LaterAttemptsAreEmpty ==
  \A p \in Plans, n \in Attempts : n > number[p] => ledger[p][n] = {}

\* What is known of the request of plan p at each place of render.
RequestInv(p) ==
  /\ main = "planning" => future[p] = "none"
  /\ future[p] \in {"none", "queued"} => at[p] = "idle" /\ ~Charged(p)
  /\ at[p] \in Unsent => ~Charged(p)
  /\ answer[p] \in {"retryable", "refused"} => ~Charged(p)
  /\ at[p] = "send" => Row(p) = "dispatched" \/ (deleted /\ Row(p) = "none")
  /\ Charged(p) => \/ Row(p) \in {"dispatched", "published", "unknown_outcome"}
                   \/ deleted /\ Row(p) = "none"

\* And of its entries.
EntriesInv(p) ==
  /\ future[p] \in {"none", "queued"} => Entered(p) = {}
  /\ at[p] = "reserve" => Entered(p) = {}
  /\ at[p] \in Open => "reserved" \in Entered(p) /\ "released" \notin Entered(p)
  /\ at[p] = "release" /\ Charged(p) =>
       "actual" \in Entered(p) \/ Row(p) = "unknown_outcome" \/ deleted
  /\ Charged(p) => Accounted(p, number[p]) \/ deleted

IInv ==
  /\ Types /\ ChargesBelong /\ LaterAttemptsAreEmpty
  /\ \A p \in Plans : RequestInv(p) /\ EntriesInv(p)

-----------------------------------------------------------------------------

\* Every attempt number starts at one, so there is a first attempt.
LEMMA FirstAttempt == 1 \in Attempts
BY TtsAssumption DEF Attempts

\* Before anything is submitted no plan has been sent or charged.
LEMMA IInvInit == Init => IInv
<1> SUFFICES ASSUME Init PROVE IInv
  OBVIOUS
<1>1. Types
  BY FirstAttempt DEF Init, Types, Answers, Outcomes, Entries
<1>2. charged = {} /\ \A p \in Plans : at[p] = "idle" /\ future[p] = "none"
                                 /\ answer[p] = "none"
  BY DEF Init
<1>3. \A p \in Plans, n \in Attempts : ledger[p][n] = {}
  BY DEF Init
<1>4. \A p \in Plans : number[p] \in Attempts
  BY <1>1 DEF Types
<1> QED
  BY <1>1, <1>2, <1>3, <1>4 DEF IInv, ChargesBelong, LaterAttemptsAreEmpty,
     RequestInv, EntriesInv, Charged, Entered, Unsent, Open

\* The steps of the main thread change futures only, and queue only plans that
\* were never submitted.
LEMMA IInvMain == IInv /\ MainStep => IInv'
<1> SUFFICES ASSUME IInv, MainStep PROVE IInv'
  OBVIOUS
<1> USE DEF IInv, ChargesBelong, LaterAttemptsAreEmpty, Types, RequestInv,
            EntriesInv, Accounted, Charged, Row, Entered, Unsent, Open, rows, world
<1>1. CASE Submit
  <2>1. \A p \in Plans : at[p] = "idle" /\ ~Charged(p) /\ Entered(p) = {}
    BY <1>1 DEF Submit
  <2> QED
    BY <1>1, <2>1 DEF Submit
<1>2. CASE JoinPool
  BY <1>2 DEF JoinPool
<1>3. CASE Assemble
  BY <1>3 DEF Assemble
<1>4. CASE MainRaises
  BY <1>4 DEF MainRaises
<1>5. ASSUME NEW p \in Plans, CancelQueued(p) PROVE IInv'
  BY <1>5 DEF CancelQueued
<1>6. ASSUME NEW p \in Plans, NoticeFailure(p) \/ Collect(p) PROVE IInv'
  BY <1>6 DEF NoticeFailure, Collect
<1> QED
  BY <1>1, <1>2, <1>3, <1>4, <1>5, <1>6 DEF MainStep

\* A step of the render of q leaves the other plans alone.
LEMMA IInvRender == ASSUME NEW q \in Plans, IInv, RenderStep(q) PROVE IInv'
<1> USE DEF IInv, ChargesBelong, LaterAttemptsAreEmpty, Types, RequestInv,
            EntriesInv, Accounted, Charged, Row, Entered, Unsent, Open, pool, rows, world
<1>0. Attempts \subseteq Nat /\ number[q] \in Nat
  BY DEF Attempts
<1>1. CASE Reserve(q)
  BY <1>0, <1>1 DEF Reserve, Enter, Goto, Entries
<1>2. CASE RecordPreSend(q)
  BY <1>2 DEF RecordPreSend, Record, Goto, Outcomes
<1>3. CASE RecordDispatched(q)
  BY <1>3 DEF RecordDispatched, Record, Goto, Outcomes
<1>4. CASE Send(q)
  <2>1. /\ UNCHANGED <<main, future, number, outcome, ledger, deleted>>
        /\ at[q] = "send" /\ at' = [at EXCEPT ![q] = "answered"]
    BY <1>4 DEF Send, Goto
  <2>2. CASE UNCHANGED charged
    <3>1. \E a \in Answers : answer' = [answer EXCEPT ![q] = a]
      BY <1>4 DEF Send, Answers
    <3> QED
      BY <2>1, <2>2, <3>1
  <2>3. CASE charged' = charged \cup {<<q, number[q]>>}
    <3>1. \/ UNCHANGED charged
          \/ \E a \in {"audio", "lost"} : answer' = [answer EXCEPT ![q] = a]
      BY <1>4, <2>3 DEF Send
    <3>2. CASE \E a \in {"audio", "lost"} : answer' = [answer EXCEPT ![q] = a]
      BY <2>1, <2>3, <3>2 DEF Answers
    <3> QED
      BY <2>2, <3>1, <3>2
  <2> QED
    BY <1>4, <2>2, <2>3 DEF Send
<1>5. CASE StoreClip(q)
  <2>1. UNCHANGED <<main, future, number, outcome, ledger, charged, deleted>>
    BY <1>5 DEF StoreClip
  <2>2. CASE at' = [at EXCEPT ![q] = "publish"] /\ UNCHANGED answer
    BY <1>5, <2>1, <2>2 DEF StoreClip
  <2>3. CASE answer' = [answer EXCEPT ![q] = "lost"] /\ UNCHANGED at
    BY <1>5, <2>1, <2>3 DEF StoreClip, Answers
  <2> QED
    BY <1>5, <2>2, <2>3 DEF StoreClip, Goto
<1>6. CASE RecordPublished(q)
  BY <1>6 DEF RecordPublished, Record, Goto, Outcomes
<1>7. CASE EnterActual(q)
  BY <1>0, <1>7 DEF EnterActual, Enter, Goto, Entries
<1>8. CASE RecordFailure(q)
  BY <1>8 DEF RecordFailure, Record, Goto, AttemptOutcome, Outcomes
<1>9. CASE Release(q)
  BY <1>0, <1>9 DEF Release, Enter, Goto, Entries
<1>10. CASE Retry(q)
  <2>1. number[q] \in Nat /\ number[q] < MaxAttempts /\ MaxAttempts \in Nat
    BY <1>10, TtsAssumption DEF Retry, MayRetry, Attempts
  <2>2. number[q] + 1 \in Attempts /\ \A n \in Attempts : n > number[q] + 1 => n > number[q]
    BY <2>1 DEF Attempts
  <2>3. \A n \in Attempts : <<q, n>> \notin charged
    BY <1>10 DEF Retry, MayRetry, AttemptOutcome
  <2>4. ledger[q][number[q] + 1] = {}
    BY <2>1, <2>2
  <2> QED
    BY <1>10, <2>2, <2>3, <2>4 DEF Retry, Goto, Answers
<1>11. CASE Finish(q)
  BY <1>11 DEF Finish, Goto, Answers
<1>12. CASE WriteRaises(q)
  BY <1>12 DEF WriteRaises, Goto, Answers
<1> QED
  BY <1>1, <1>2, <1>3, <1>4, <1>5, <1>6, <1>7, <1>8, <1>9, <1>10, <1>11, <1>12
     DEF RenderStep

\* A pool thread takes up a plan that no thread has rendered before.
LEMMA IInvStart == ASSUME NEW q \in Plans, IInv, StartRender(q) PROVE IInv'
BY DEF IInv, ChargesBelong, LaterAttemptsAreEmpty, Types, RequestInv, EntriesInv,
       Accounted, Charged, Row, Entered, Unsent, Open, rows, world, StartRender, Goto

\* A deletion takes rows of attempts and no entry; a stop takes neither.
LEMMA IInvAround == IInv /\ (DeleteProject \/ Stop) => IInv'
<1> SUFFICES ASSUME IInv, DeleteProject \/ Stop PROVE IInv'
  OBVIOUS
<1> USE DEF IInv, ChargesBelong, LaterAttemptsAreEmpty, Types, RequestInv,
            EntriesInv, Accounted, Charged, Row, Entered, Unsent, Open, pool, rows, world
<1>1. CASE DeleteProject
  BY <1>1 DEF DeleteProject, Outcomes
<1>2. CASE Stop
  BY <1>2 DEF Stop, Answers
<1> QED
  BY <1>1, <1>2

\* Every step of the call keeps the invariant.
LEMMA IInvNext == IInv /\ [Next]_vars => IInv'
<1> SUFFICES ASSUME IInv, [Next]_vars PROVE IInv'
  OBVIOUS
<1>1. CASE MainStep
  BY <1>1, IInvMain
<1>2. ASSUME NEW q \in Plans, StartRender(q) PROVE IInv'
  BY <1>2, IInvStart
<1>3. ASSUME NEW q \in Plans, RenderStep(q) PROVE IInv'
  BY <1>3, IInvRender
<1>4. CASE DeleteProject \/ Stop
  BY <1>4, IInvAround
<1>5. CASE UNCHANGED vars
  BY <1>5 DEF vars, pool, rows, world, IInv, ChargesBelong, LaterAttemptsAreEmpty,
              Types, RequestInv, EntriesInv, Accounted, Charged, Row, Entered,
              Unsent, Open
<1> QED
  BY <1>1, <1>2, <1>3, <1>4, <1>5 DEF Next, CallStep

\* IInv holds throughout the call, for every number of plans, attempts and
\* pool threads.
THEOREM Invariant == Spec => []IInv
<1>1. Init => IInv
  BY IInvInit
<1>2. IInv /\ [Next]_vars => IInv'
  BY IInvNext
<1> QED
  BY <1>1, <1>2, PTL DEF Spec

-----------------------------------------------------------------------------

\* However many attempts a snapshot allows and however the pool threads
\* interleave, the provider renders a plan once: render goes round its loop
\* only after an answer that says the request was not taken.
THEOREM RenderedOnce == Spec => []ChargedAtMostOnce
<1>1. IInv => ChargedAtMostOnce
  BY DEF IInv, ChargesBelong, ChargedAtMostOnce
<1> QED
  BY <1>1, Invariant, PTL

\* Whatever stops, raises or is deleted and whenever: the row of a rendering that
\* was charged says dispatched, published or unknown_outcome, and the ledger shows
\* its use or an open reservation wherever the outcome is known.
THEOREM ChargesAreFiled == Spec => []ChargesAreNotMisfiled
<1>1. IInv => ChargesAreNotMisfiled
  BY DEF IInv, ChargesBelong, RequestInv, EntriesInv, Charged, Row,
     ChargesAreNotMisfiled
<1> QED
  BY <1>1, Invariant, PTL

-----------------------------------------------------------------------------
(***************************************************************************)
(* The books when the call ends.  A render is under way exactly while its  *)
(* future runs, so nothing runs once the pool is joined; and unless a      *)
(* write raised, every attempt but the one under way is settled.           *)
(***************************************************************************)

Settled(p, n) ==
  /\ "reserved" \in ledger[p][n] <=> "released" \in ledger[p][n]
  /\ ~deleted => /\ "actual" \in ledger[p][n] <=> outcome[p][n] = "published"
                 /\ outcome[p][n] \notin {"pre_send", "dispatched"}

World ==
  /\ clip \subseteq Plans
  /\ faults \in Nat /\ deleted \in BOOLEAN
  /\ deleted => faults >= 1

PoolInv(p) ==
  /\ at[p] # "idle" <=> future[p] = "running"
  /\ Ended => future[p] \notin {"queued", "running"}
  /\ main = "assembled" => future[p] = "returned"

LaterRowsAreEmpty ==
  \A p \in Plans, n \in Attempts : n > number[p] => outcome[p][n] = "none"

\* Where the attempt under way stands, if no write raised.
AttemptInv(p) ==
  /\ at[p] = "reserve" => Row(p) = "none"
  /\ future[p] \in {"none", "queued"} => Row(p) = "none"
  /\ at[p] \in Open => "actual" \notin Entered(p)
  /\ at[p] = "charge" => Row(p) = "published" \/ deleted
  /\ at[p] = "release" =>
       /\ "reserved" \in Entered(p) /\ "released" \notin Entered(p)
       /\ ~deleted => /\ "actual" \in Entered(p) <=> Row(p) = "published"
                      /\ Row(p) \notin {"pre_send", "dispatched"}
  /\ at[p] \in {"idle", "end"} => Settled(p, number[p])

BooksInv(p) ==
  NoWriteRaised /\ main # "stopped" =>
    /\ AttemptInv(p)
    /\ \A n \in Attempts : n # number[p] => Settled(p, n)

\* Where the clip and its use stand.
ClipInv(p) ==
  /\ answer[p] = "audio" /\ at[p] \in {"publish", "charge", "release", "end"} =>
       p \in clip
  /\ answer[p] = "audio" /\ at[p] \in {"release", "end"} => "actual" \in Entered(p)
  /\ at[p] \in {"publish", "charge"} => answer[p] = "audio"
  /\ future[p] = "returned" => p \in clip /\ "actual" \in Entered(p)

EndInv ==
  /\ World /\ LaterRowsAreEmpty
  /\ \A p \in Plans : PoolInv(p) /\ BooksInv(p) /\ ClipInv(p)

\* What has been collected has returned, and an assembly follows the plans.
JoinInv ==
  /\ collected \in Seq(Plans) /\ assembly \in Seq(Plans)
  /\ \A i \in DOMAIN collected : future[collected[i]] = "returned"
  /\ main = "assembled" => ~deleted /\ assembly = [p \in Plans |-> p]

\* Every plan is looked up under its own key.
LEMMA JoinedInOrder ==
  ASSUME collected \in Seq(Plans), Collected = Plans
  PROVE  Joined = [p \in Plans |-> p] /\ Joined \in Seq(Plans)
<1>1. ASSUME NEW p \in Plans
      PROVE  collected[CHOOSE i \in DOMAIN collected : collected[i] = p] = p
  <2>1. \E i \in DOMAIN collected : collected[i] = p
    BY DEF Collected
  <2> QED BY <2>1
<1>2. Joined = [p \in Plans |-> p]
  BY <1>1 DEF Joined
<1>3. NumPlans \in Nat
  BY TtsAssumption
<1> QED BY <1>2, <1>3 DEF Plans

\* A future that has returned stays so until the process stops.
LEMMA JoinInvNext == IInv /\ EndInv /\ JoinInv /\ [Next]_vars => JoinInv'
<1> SUFFICES ASSUME IInv, EndInv, JoinInv, [Next]_vars PROVE JoinInv'
  OBVIOUS
<1>0. /\ future \in [Plans -> {"none", "queued", "running", "returned", "raised", "cancelled"}]
      /\ \A p \in Plans : at[p] # "idle" <=> future[p] = "running"
      /\ \A p \in Plans : main = "planning" => future[p] = "none"
      /\ \A i \in DOMAIN collected : collected[i] \in Plans
  BY DEF IInv, Types, RequestInv, EndInv, PoolInv, JoinInv
<1>1. ASSUME UNCHANGED joining, main' = main \/ main' # "assembled",
             main = "assembled" => UNCHANGED deleted,
             \A p \in Plans : future[p] = "returned" => future'[p] = "returned"
      PROVE  JoinInv'
  BY <1>0, <1>1 DEF JoinInv, joining
<1>2. CASE MainStep
  <2>1. CASE Submit
    <3>1. collected = <<>>
      BY <1>0, <2>1 DEF Submit, JoinInv
    <3> QED BY <2>1, <3>1 DEF Submit, JoinInv, joining
  <2>2. CASE JoinPool \/ MainRaises
    BY <1>1, <2>2 DEF JoinPool, MainRaises, world
  <2>3. CASE Assemble
    BY <2>3, JoinedInOrder DEF Assemble, AllCollected, JoinInv, world
  <2>4. ASSUME NEW p \in Plans, Collect(p) PROVE JoinInv'
    <3>1. /\ collected' = Append(collected, p) /\ future[p] = "returned"
          /\ UNCHANGED <<main, future, assembly>> /\ main # "assembled"
      BY <2>4 DEF Collect
    <3>2. collected' \in Seq(Plans)
      BY <3>1 DEF JoinInv
    <3>3. ASSUME NEW i \in DOMAIN collected'
          PROVE  future'[collected'[i]] = "returned"
      BY <3>1, <3>3 DEF JoinInv
    <3> QED BY <3>1, <3>2, <3>3 DEF JoinInv
  <2>5. ASSUME NEW p \in Plans, NoticeFailure(p) PROVE JoinInv'
    BY <2>5 DEF NoticeFailure, JoinInv
  <2>6. ASSUME NEW p \in Plans, CancelQueued(p) PROVE JoinInv'
    BY <1>0, <1>1, <2>6 DEF CancelQueued, world
  <2> QED BY <1>2, <2>1, <2>2, <2>3, <2>4, <2>5, <2>6 DEF MainStep
<1>3. ASSUME NEW p \in Plans, StartRender(p) PROVE JoinInv'
  BY <1>0, <1>1, <1>3 DEF StartRender, world
<1>4. ASSUME NEW p \in Plans, RenderStep(p) PROVE JoinInv'
  <2>1. CASE \/ Reserve(p) \/ RecordPreSend(p) \/ RecordDispatched(p)
             \/ Send(p) \/ StoreClip(p) \/ RecordPublished(p) \/ EnterActual(p)
             \/ RecordFailure(p) \/ Release(p) \/ Retry(p)
    <3>1. UNCHANGED <<main, future, joining, deleted>>
      BY <2>1 DEF Reserve, RecordPreSend, RecordDispatched, Send, StoreClip,
         RecordPublished, EnterActual, RecordFailure, Release, Retry, pool, world
    <3> QED BY <1>1, <3>1
  <2>2. CASE Finish(p) \/ WriteRaises(p)
    <3>1. /\ at[p] # "idle"
          /\ UNCHANGED <<main, joining, deleted>>
          /\ \E v \in {"returned", "raised"} : future' = [future EXCEPT ![p] = v]
      BY <2>2 DEF Finish, WriteRaises, world
    <3> QED BY <1>0, <1>1, <3>1
  <2> QED BY <1>4, <2>1, <2>2 DEF RenderStep
<1>5. CASE DeleteProject
  BY <1>1, <1>5 DEF DeleteProject, pool, Ended
<1>6. CASE Stop
  BY <1>6 DEF Stop, JoinInv
<1>7. CASE UNCHANGED vars
  BY <1>1, <1>7 DEF vars, pool, world
<1> QED BY <1>2, <1>3, <1>4, <1>5, <1>6, <1>7 DEF Next, CallStep

\* Before anything is submitted every attempt is settled, having no row.
LEMMA EndInvInit == Init => EndInv
<1> SUFFICES ASSUME Init PROVE EndInv
  OBVIOUS
<1>1. \A p \in Plans : /\ at[p] = "idle" /\ future[p] = "none"
                       /\ answer[p] = "none" /\ number[p] \in Attempts
  BY FirstAttempt DEF Init
<1>2. \A p \in Plans, n \in Attempts : ledger[p][n] = {} /\ outcome[p][n] = "none"
  BY DEF Init
<1>3. main = "planning" /\ faults = 0 /\ deleted = FALSE /\ clip = {}
  BY DEF Init
<1>4. \A p \in Plans : AttemptInv(p)
  BY <1>1, <1>2 DEF AttemptInv, Settled, Row, Entered, Open
<1>5. World
  <2>1. clip \subseteq Plans /\ faults \in Nat
    BY <1>3
  <2>2. deleted \in BOOLEAN /\ ~deleted
    BY <1>3, Zenon
  <2> QED
    BY <2>1, <2>2 DEF World
<1>6. LaterRowsAreEmpty
  BY <1>2 DEF LaterRowsAreEmpty
<1>7. \A p \in Plans : PoolInv(p) /\ ClipInv(p)
  BY <1>1, <1>3 DEF PoolInv, ClipInv, Ended
<1>8. \A p \in Plans : BooksInv(p)
  BY <1>2, <1>4 DEF BooksInv, Settled
<1> QED
  BY <1>5, <1>6, <1>7, <1>8 DEF EndInv

\* The main thread ends the call only when no future is queued or runs.
LEMMA EndInvMain == IInv /\ EndInv /\ JoinInv /\ MainStep => EndInv'
<1> SUFFICES ASSUME IInv, EndInv, JoinInv, MainStep PROVE EndInv'
  OBVIOUS
<1>0. Types /\ \A p \in Plans : RequestInv(p)
  BY DEF IInv
<1> USE <1>0 DEF EndInv, World, LaterRowsAreEmpty, PoolInv, BooksInv, AttemptInv,
            Settled, ClipInv, Row, Entered, Ended, Open, NoWriteRaised, rows, world
<1>1. CASE Submit
  BY <1>1 DEF Submit, RequestInv, Types
<1>2. CASE JoinPool
  BY <1>2 DEF JoinPool, PoolDone
<1>3. CASE Assemble
  <2>1. \A p \in Plans : future[p] = "returned"
    BY <1>3 DEF Assemble, AllCollected, JoinInv, Collected
  <2> QED BY <1>3, <2>1 DEF Assemble
<1>4. CASE MainRaises
  <2>1. main = "planning" \/ \A p \in Plans : future[p] = "returned"
    BY <1>4 DEF MainRaises, AllCollected, JoinInv, Collected
  <2> QED BY <1>4, <2>1 DEF MainRaises, RequestInv
<1>5. ASSUME NEW p \in Plans, CancelQueued(p) PROVE EndInv'
  BY <1>5 DEF CancelQueued, Types
<1>6. ASSUME NEW p \in Plans, NoticeFailure(p) \/ Collect(p) PROVE EndInv'
  BY <1>6 DEF NoticeFailure, Collect
<1> QED
  BY <1>1, <1>2, <1>3, <1>4, <1>5, <1>6 DEF MainStep

\* A render settles the attempt it leaves.
LEMMA EndInvRender ==
  ASSUME NEW q \in Plans, IInv, EndInv, RenderStep(q) PROVE EndInv'
<1>0. /\ Types /\ LaterAttemptsAreEmpty /\ EntriesInv(q)
      /\ Attempts \subseteq Nat /\ number[q] \in Nat /\ number[q] \in Attempts
  BY DEF IInv, Types, Attempts
<1> USE <1>0 DEF EndInv, World, LaterRowsAreEmpty, PoolInv, BooksInv, AttemptInv,
            Settled, ClipInv, Row, Entered, Ended, Open, NoWriteRaised, pool, rows,
            world, Types, EntriesInv
<1>1. CASE Reserve(q)
  BY <1>1 DEF Reserve, Enter, Goto, Entries
<1>2. CASE RecordPreSend(q)
  BY <1>2 DEF RecordPreSend, Record, Goto, Outcomes
<1>3. CASE RecordDispatched(q)
  BY <1>3 DEF RecordDispatched, Record, Goto, Outcomes
<1>4. CASE Send(q)
  BY <1>4 DEF Send, Goto, Answers
<1>5. CASE StoreClip(q)
  BY <1>5 DEF StoreClip, Goto, Answers
<1>6. CASE RecordPublished(q)
  BY <1>6 DEF RecordPublished, Record, Goto, Outcomes
<1>7. CASE EnterActual(q)
  BY <1>7 DEF EnterActual, Enter, Goto, Entries
<1>8. CASE RecordFailure(q)
  BY <1>8 DEF RecordFailure, Record, Goto, AttemptOutcome, Outcomes
<1>9. CASE Release(q)
  BY <1>9 DEF Release, Enter, Goto, Entries
<1>10. CASE Retry(q)
  BY <1>10, TtsAssumption DEF Retry, MayRetry, Attempts, Goto, Answers
<1>11. CASE Finish(q)
  BY <1>11 DEF Finish, Goto, Answers
<1>12. CASE WriteRaises(q)
  BY <1>12 DEF WriteRaises, Goto, Answers
<1> QED
  BY <1>1, <1>2, <1>3, <1>4, <1>5, <1>6, <1>7, <1>8, <1>9, <1>10, <1>11, <1>12
     DEF RenderStep

\* No step leads out of the invariant.
LEMMA EndInvNext == IInv /\ EndInv /\ JoinInv /\ [Next]_vars => EndInv'
<1> SUFFICES ASSUME IInv, EndInv, JoinInv, [Next]_vars PROVE EndInv'
  OBVIOUS
<1>0. Types /\ LaterAttemptsAreEmpty /\ \A p \in Plans : EntriesInv(p)
  BY DEF IInv
<1>1. CASE MainStep
  BY <1>1, EndInvMain
<1>2. ASSUME NEW q \in Plans, RenderStep(q) PROVE EndInv'
  BY <1>2, EndInvRender
<1> USE <1>0 DEF EndInv, World, LaterRowsAreEmpty, PoolInv, BooksInv, AttemptInv,
            Settled, ClipInv, Row, Entered, Ended, Open, NoWriteRaised, pool, rows,
            world, Types, EntriesInv
<1>3. ASSUME NEW q \in Plans, StartRender(q) PROVE EndInv'
  BY <1>3 DEF StartRender, Goto
<1>4. CASE DeleteProject
  BY <1>4 DEF DeleteProject, Outcomes
<1>5. CASE Stop
  BY <1>5 DEF Stop, Answers
<1>6. CASE UNCHANGED vars
  BY <1>6 DEF vars
<1> QED
  BY <1>1, <1>2, <1>3, <1>4, <1>5, <1>6 DEF Next, CallStep

\* The invariants hold throughout the call.
THEOREM EndInvariant == Spec => [](IInv /\ EndInv /\ JoinInv)
<1>1. Init => EndInv /\ JoinInv
  BY EndInvInit DEF Init, JoinInv
<1>2. IInv /\ EndInv /\ JoinInv /\ [Next]_vars => EndInv' /\ JoinInv'
  BY EndInvNext, JoinInvNext
<1> QED
  BY <1>1, <1>2, Invariant, PTL DEF Spec

\* Whatever order plans fail in, when the call ends nothing of it runs, and unless
\* a write raised each reservation is released and each use entered.
THEOREM BooksClose == Spec => []BooksAreClosed
<1>1. IInv /\ EndInv => BooksAreClosed
  <2> SUFFICES ASSUME IInv, EndInv, Ended, NEW p \in Plans, NEW n \in Attempts
               PROVE  /\ future[p] \notin {"queued", "running"}
                      /\ NoWriteRaised => Settled(p, n)
    <3>1. IInv /\ EndInv /\ Ended => \A p \in Plans, n \in Attempts :
            future[p] \notin {"queued", "running"} /\ (NoWriteRaised => Settled(p, n))
      OBVIOUS
    <3> QED
      BY <3>1, FirstAttempt DEF BooksAreClosed, Settled
  <2>1. future[p] \notin {"queued", "running"} /\ at[p] = "idle"
    BY DEF EndInv, PoolInv
  <2> QED
    BY <2>1 DEF EndInv, BooksInv, AttemptInv, Ended
<1> QED
  BY <1>1, EndInvariant, PTL

\* An assembly joins the clips of all plans in the order of the plans, each in
\* place and with its use entered, and is not written for a deleted project.
THEOREM AssembledFromAll == Spec => []AssemblyIsComplete
<1>1. IInv /\ EndInv /\ JoinInv => AssemblyIsComplete
  BY DEF IInv, Types, EndInv, World, PoolInv, ClipInv, JoinInv, AssemblyIsComplete, Entered
<1> QED
  BY <1>1, EndInvariant, PTL

-----------------------------------------------------------------------------

\* The types that the argument above does not need.
RestOfTypes ==
  /\ main \in {"planning", "waiting", "cancelling", "assembled", "raised", "stopped"}
  /\ clip \subseteq Plans
  /\ faults \in 0 .. MaxFaults /\ deleted \in BOOLEAN

LEMMA RestIsKept == RestOfTypes /\ [Next]_vars => RestOfTypes'
<1> SUFFICES ASSUME RestOfTypes, [Next]_vars PROVE RestOfTypes'
  OBVIOUS
<1> USE DEF RestOfTypes
<1>1. \A n \in 0 .. MaxFaults : n < MaxFaults => n + 1 \in 0 .. MaxFaults
  BY TtsAssumption
<1>2. ASSUME UNCHANGED <<clip, world>>,
             main' \in {"planning", "waiting", "cancelling", "assembled", "raised", "stopped"}
      PROVE  RestOfTypes'
  BY <1>2 DEF world
<1>3. CASE MainStep
  <2>1. CASE Submit \/ JoinPool \/ Assemble
    BY <1>2, <2>1 DEF Submit, JoinPool, Assemble, world
  <2>2. CASE MainRaises
    BY <1>1, <2>2 DEF MainRaises
  <2>3. ASSUME NEW p \in Plans, Collect(p) \/ NoticeFailure(p) \/ CancelQueued(p)
        PROVE  RestOfTypes'
    BY <1>2, <2>3 DEF Collect, NoticeFailure, CancelQueued, world
  <2> QED BY <1>3, <2>1, <2>2, <2>3 DEF MainStep
<1>4. ASSUME NEW p \in Plans, StartRender(p) \/ RenderStep(p) PROVE RestOfTypes'
  <2>1. CASE \/ StartRender(p) \/ Reserve(p) \/ RecordPreSend(p) \/ RecordDispatched(p)
             \/ Send(p) \/ RecordPublished(p) \/ EnterActual(p) \/ RecordFailure(p)
             \/ Release(p) \/ Retry(p) \/ Finish(p)
    <3>1. UNCHANGED <<clip, faults, deleted, main>>
      BY <2>1 DEF StartRender, Reserve, RecordPreSend, RecordDispatched, Send,
                  RecordPublished, EnterActual, RecordFailure, Release, Retry, Finish,
                  pool, world
    <3> QED BY <3>1
  <2>2. CASE StoreClip(p)
    BY <2>2 DEF StoreClip, pool, world
  <2>3. CASE WriteRaises(p)
    BY <1>1, <2>3 DEF WriteRaises
  <2> QED BY <1>4, <2>1, <2>2, <2>3 DEF RenderStep
<1>5. CASE DeleteProject
  <2>1. faults' \in 0 .. MaxFaults
    BY <1>1, <1>5 DEF DeleteProject
  <2>2. deleted' = TRUE /\ UNCHANGED <<main, clip>>
    BY <1>5 DEF DeleteProject, pool
  <2> QED BY <2>1, <2>2
<1>6. CASE Stop
  BY <1>2, <1>6 DEF Stop
<1>7. CASE UNCHANGED vars
  BY <1>7 DEF vars, pool, world
<1> QED BY <1>3, <1>4, <1>5, <1>6, <1>7 DEF Next, CallStep

\* Every attempt is numbered within max_attempts, and every row of an attempt
\* holds an outcome and entries that the tables know.
THEOREM ExecutionTypes == Spec => []TypeOK
<1>1. ASSUME Init PROVE RestOfTypes
  <2>1. deleted \in BOOLEAN
    BY <1>1 DEF Init
  <2>2. 0 \in 0 .. MaxFaults
    BY TtsAssumption
  <2> QED BY <1>1, <2>1, <2>2 DEF Init, RestOfTypes
<1>2. IInv /\ JoinInv /\ RestOfTypes => TypeOK
  BY DEF IInv, Types, JoinInv, RestOfTypes, TypeOK
<1> QED BY <1>1, <1>2, RestIsKept, EndInvariant, PTL DEF Spec
=============================================================================
