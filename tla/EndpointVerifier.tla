--------------------------- MODULE EndpointVerifier ---------------------------
(***************************************************************************)
(* The live verifier of the deployed service                               *)
(* (.gjc/verifier/endpoint_verifier.py) against the service it verifies.   *)
(*                                                                         *)
(* After creating one project it polls list and detail in turn, compares   *)
(* each answer with the last one of the same endpoint, and at a terminal   *)
(* progress checks and downloads the artifacts, deletes the project and    *)
(* asks for it once more.  A failed check ends it with a verdict.          *)
(*                                                                         *)
(* The two endpoints have a memory each and share nothing but the project, *)
(* so a behaviour follows the answers of one of them, whichever (surface); *)
(* the other's requests are time that passes, but for the final checks,    *)
(* which only a detail answer leads to.                                    *)
(*                                                                         *)
(* Requests whose answer is lost are repeated (request).  A repeated GET is *)
(* read anew, a repeated DELETE answers as before; a repeated POST of the  *)
(* project meets the preview that the first one has consumed.              *)
(*                                                                         *)
(* Another client of the same owner may cancel or delete the project       *)
(* meanwhile; meddled remembers it.                                        *)
(***************************************************************************)
EXTENDS ProjectSnapshot, Sequences

VARIABLES
  surface,  \* the endpoint whose answers are followed
  goal,     \* what it asks for next
  seen,     \* version and stages of the last answer
  textSeen, \* _verified_text_version against the last version (TextSeen)
  readySeen,\* whether _ready_version is set
  verdict,  \* "none" while it runs, then "verified" or the failure
  meddled   \* history: another client has cancelled or deleted

clientVars   == <<surface, goal, seen, textSeen, readySeen, verdict>>
verifierVars == <<vars, readVars, clientVars, meddled>>

\* The first answers of both endpoints must show no progress: the manifest that
\* the creation returned ("create"; read like a detail, once the project is
\* there for workers to claim), and one poll of each.
FirstPolls == {"create", "first_poll"}
Polls == FirstPolls \cup {"poll"}
Goals == Polls \cup {"create_again", "download_segment", "download_final", "delete",
                     "check_project", "check_artifacts", "stop"}

\* Verdicts that accuse the service of having lost or mixed up what it
\* published.
IntegrityVerdicts ==
  {"invalid_verified_text", "ready_without_segment_artifact",
   "missing_terminal_artifact", "terminal_stages_incomplete",
   "progress_version_regression", "deleted_project_still_available",
   "deleted_artifact_still_available"}

\* Verdicts about an answer that misses rows, or that is none.
Rejections ==
  {"http_error", "project_missing_from_list", "invalid_segment_order",
   "invalid_progress", "unrecognized_error_envelope"}

\* An error without a code the verifier knows has one verdict in the code; the
\* record of the requests tells the creation's from the others.
Verdicts ==
  IntegrityVerdicts \cup Rejections \cup
  {"none", "verified", "stage_progress_regression",
   "initial_progress_not_zero", "ready_without_prior_verified_text",
   "terminal_project_not_ready", "unrecognized_error_on_create", "gave_up"}

Unseen == [version |-> -1, stages |-> NoProgress]

VerifierTypeOK ==
  /\ ReadTypeOK
  /\ surface \in Surfaces /\ goal \in Goals
  /\ seen.version \in {-1} \cup Nat
  /\ textSeen \in {"never", "at_last_version", "earlier"}
  /\ readySeen \in BOOLEAN
  /\ verdict \in Verdicts
  /\ meddled \in BOOLEAN

\* The preview of one minute has one section, or the verifier stops there.
VerifierInit ==
  /\ NumSegments = 1
  /\ Init /\ ReadInit
  /\ surface \in Surfaces
  /\ goal = IF surface = "detail" THEN "create" ELSE "first_poll"
  /\ seen = Unseen
  /\ textSeen = "never" /\ readySeen = FALSE
  /\ verdict = "none" /\ meddled = FALSE

-----------------------------------------------------------------------------
(***************************************************************************)
(* The checks of an answer, in the order of the code; each yields its      *)
(* verdict, or "none".                                                     *)
(***************************************************************************)

First(checks) ==
  LET failed == {i \in DOMAIN checks : checks[i][1]} IN
  IF failed = {} THEN "none"
  ELSE checks[CHOOSE i \in failed : \A j \in failed : i <= j][2]

Rank(state) ==
  CASE state = "pending" -> 0
    [] state = "running" -> 1
    [] OTHER             -> 2

Regresses(old, new) ==
  \/ new.completed < old.completed
  \/ Rank(new.state) < Rank(old.state)

StageRegressed ==
  \E n \in StageNames : Regresses(seen.stages[n], rows.stages[n])

\* Whether the answer itself is as the verifier expects one.
AnswerVerdict ==
  First(<< <<~rows.found, IF surface = "list" THEN "project_missing_from_list"
                          ELSE "http_error">>,
           <<rows.lost = "stages", "unrecognized_error_envelope">>,
           <<rows.lost = "segments", "invalid_segment_order">>,
           <<rows.lost = "generation", "invalid_progress">>,
           <<rows.version < seen.version, "progress_version_regression">>,
           <<StageRegressed, "stage_progress_regression">>,
           <<goal \in FirstPolls
               /\ \E n \in StageNames : rows.stages[n].completed # 0,
             "initial_progress_not_zero">> >>)

\* _validate_text_and_artifacts, of a detail answer.
\* The code keeps the version at which a text was first seen, and asks whether
\* there is one and whether it is the version of the answer at hand.
TextSeen ==
  IF textSeen = "never"
  THEN IF rows.texts = {} THEN "never" ELSE "at_last_version"
  ELSE IF rows.version = seen.version THEN textSeen ELSE "earlier"
ReadySeen == readySeen \/ rows.ready # {}

TextVerdict ==
  First(<< <<~(rows.texts \subseteq rows.provenance), "invalid_verified_text">>,
           <<rows.ready # {} /\ (~(rows.ready \subseteq rows.texts)
                                   \/ TextSeen # "earlier"),
             "ready_without_prior_verified_text">>,
           <<~(rows.ready \subseteq rows.artifacts),
             "ready_without_segment_artifact">> >>)

\* _validate_terminal, before the downloads.
TerminalVerdict ==
  First(<< <<rows.status # "ready" \/ rows.outcome # "ready" \/ rows.final = 0,
             "terminal_project_not_ready">>,
           <<\E n \in StageNames :
               rows.stages[n] # [state |-> "completed",
                                 completed |-> Cardinality(RowsOf(n))],
             "terminal_stages_incomplete">>,
           <<~(Scopes \subseteq rows.artifacts) \/ TextSeen = "never" \/ ~ReadySeen,
             "missing_terminal_artifact">> >>)

-----------------------------------------------------------------------------
(***************************************************************************)
(* The scenario.                                                           *)
(***************************************************************************)

Proceed(g) == goal' = g /\ UNCHANGED verdict

\* What was remembered of the answers is not looked at after the polls.
ForgetPolls == seen' = Unseen /\ textSeen' = "never" /\ readySeen' = FALSE
KeepPolls   == UNCHANGED <<seen, textSeen, readySeen>>
Conclude(v) == verdict' = v /\ goal' = "stop" /\ ForgetPolls

Poll ==
  /\ goal \in Polls
  /\ Ask(surface)
  /\ UNCHANGED <<clientVars, meddled>>

\* The answer is lost, or comes after the timeout of the request, which is
\* repeated.
AnswerLost ==
  /\ place = "answered"
  /\ goal' = IF goal = "create" THEN "create_again" ELSE goal
  /\ EndRequest
  /\ UNCHANGED <<vars, surface, seen, textSeen, readySeen, verdict, meddled>>

\* The project is there and its preview consumed: preview_binding_consumed, which
\* is not among the SAFE_ERROR_CODES.
CreateAgain ==
  /\ goal = "create_again"
  /\ Conclude("unrecognized_error_on_create")
  /\ UNCHANGED <<vars, readVars, surface, meddled>>

Remember == seen' = [version |-> rows.version, stages |-> rows.stages]

TakeListAnswer ==
  /\ Answered("list")
  /\ IF AnswerVerdict # "none" THEN Conclude(AnswerVerdict)
     ELSE Proceed("poll") /\ Remember /\ UNCHANGED <<textSeen, readySeen>>
  /\ EndRequest
  /\ UNCHANGED <<vars, surface, meddled>>

\* A terminal progress ends the polling, but not in the first answers.
TakeDetailAnswer ==
  /\ Answered("detail")
  /\ LET v == IF AnswerVerdict # "none" THEN AnswerVerdict ELSE TextVerdict
         last == goal = "poll" /\ rows.disposition = "terminal" IN
     IF v # "none" THEN Conclude(v)
     ELSE IF last /\ TerminalVerdict # "none" THEN Conclude(TerminalVerdict)
     ELSE IF last THEN Proceed("download_segment") /\ ForgetPolls
     ELSE /\ Proceed(IF goal = "create" THEN "first_poll" ELSE "poll")
          /\ Remember
          /\ textSeen' = TextSeen /\ readySeen' = ReadySeen
  /\ EndRequest
  /\ UNCHANGED <<vars, surface, meddled>>

\* Downloading reads the artifact and the project; a missing one answers 404.
Download(s, g, next) ==
  /\ goal = g
  /\ IF artifacts[s] > 0 /\ ~deleted THEN Proceed(next) /\ KeepPolls ELSE Conclude("http_error")
  /\ UNCHANGED <<vars, readVars, surface, meddled>>

\* Mutant: a repeated DELETE of the same project is a 404.
CleanupOnce ==
  /\ goal = "delete"
  /\ \/ ~deleted /\ DeleteProject /\ KeepPolls
        /\ \E g \in {"delete", "check_project"} : Proceed(g)
     \/ deleted /\ Conclude("http_error") /\ UNCHANGED storeVars
  /\ UNCHANGED <<workerVars, calls, faultVars, readVars, surface, meddled>>

\* DELETE may be repeated: a project deleted before, or since the handler looked,
\* answers the same.
Cleanup ==
  /\ goal = "delete"
  /\ IF deleted THEN UNCHANGED storeVars ELSE DeleteProject
  /\ \E g \in {"delete", "check_project"} : Proceed(g) /\ KeepPolls
  /\ UNCHANGED <<workerVars, calls, faultVars, readVars, surface, meddled>>

CheckRetired ==
  /\ \/ /\ goal = "check_project"
        /\ IF deleted THEN Proceed("check_artifacts") /\ KeepPolls
           ELSE Conclude("deleted_project_still_available")
     \/ /\ goal = "check_artifacts"
        /\ Conclude(IF \A s \in Scopes : artifacts[s] = 0 THEN "verified"
                    ELSE "deleted_artifact_still_available")
  /\ UNCHANGED <<vars, readVars, surface, meddled>>

\* The budget of requests, the deadline or the last attempt of a request.
GiveUp ==
  /\ goal # "stop"
  /\ Conclude("gave_up")
  /\ EndRequest
  /\ UNCHANGED <<vars, surface, meddled>>

Verify ==
  \/ Poll \/ AnswerLost \/ CreateAgain \/ TakeListAnswer \/ TakeDetailAnswer
  \/ Download(1, "download_segment", "download_final")
  \/ Download(Project, "download_final", "delete")
  \/ Cleanup \/ CheckRetired \/ GiveUp

\* An answer that is on its way is taken (or lost) first: what happens to the
\* rows before that makes no difference to it, nor what happens after the end.
Serve ==
  /\ goal # "stop" /\ place # "answered"
  /\ \/ \E w \in Workers :
          WorkerStep(w) \/ StepRaises(w) \/ Claim(w) \/ Crash(w)
     \/ OrphanedLeaseExpires \/ LeaseExpiresUnderHolder
  /\ UNCHANGED <<readVars, clientVars, meddled>>

\* Another client, as often as the rows let it.
Meddle ==
  /\ goal # "stop" /\ place # "answered"
  /\ ClientCancels \/ ClientDeletes
  /\ meddled' = TRUE
  /\ UNCHANGED <<readVars, clientVars>>

VerifierNext ==
  \/ Serve \/ Meddle \/ Verify
  \/ Read /\ UNCHANGED <<clientVars, meddled>>

VerifierSpec == VerifierInit /\ [][VerifierNext]_verifierVars

-----------------------------------------------------------------------------
(***************************************************************************)
(* Properties.                                                             *)
(***************************************************************************)

\* Whatever crashes, stalls, is cancelled or deleted meanwhile, the verifier
\* never finds that the service lost or mixed up what it published: a text
\* without provenance, a ready segment or a ready episode without its artifact,
\* a version that goes back, a project that outlives its deletion.
NothingPublishedIsMissed == verdict \notin IntegrityVerdicts

\* Its other verdicts have a cause.  A stage goes back only after a second claim
\* (tts is run again) or when somebody cancelled (the generation row is read
\* before the stage rows), and an answer misses rows only when somebody deleted.
\* Without faults and meddlers it complains in four cases only: the answer of its
\* creation was lost and it created again; it came too late to see a stage empty
\* or a text without audio; the project failed; or the project row it read was
\* older than the progress.
AlarmsHaveACause ==
  /\ verdict = "stage_progress_regression" => epoch > 1 \/ meddled
  /\ verdict \in Rejections => meddled
  /\ crashes = 0 /\ stalls = 0 /\ ~meddled =>
       verdict \in {"none", "gave_up", "verified", "unrecognized_error_on_create",
                   "initial_progress_not_zero", "ready_without_prior_verified_text",
                   "terminal_project_not_ready"}
=============================================================================
