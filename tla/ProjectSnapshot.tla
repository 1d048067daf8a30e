--------------------------- MODULE ProjectSnapshot ---------------------------
(***************************************************************************)
(* One reader of the project: GET /api/v1/projects ("list") and            *)
(* GET /api/v1/projects/{id} ("detail"), core/persistence.py 692-846.      *)
(*                                                                         *)
(* Both read with several SELECTs on a connection in autocommit, so the    *)
(* transactions of the workers and of other clients fall between them: each *)
(* SELECT is a step here.  place says which comes next; rows holds what was *)
(* read; at "answered" it is what the client gets.                         *)
(***************************************************************************)
EXTENDS SegmentPipeline

VARIABLES
  reading,   \* the endpoint being read, "none" between requests
  place,     \* the next SELECT
  rows       \* what the SELECTs of this request have returned

readVars == <<reading, place, rows>>

Surfaces == {"list", "detail"}
Places   == {"start", "segments", "provenance", "artifacts", "generation",
             "stages", "answered"}

\* _STAGE_ORDER.
StageNames == {"research", "text_generation", "fact_checking", "tts", "mixing",
               "finalizing"}

NoProgress == [n \in StageNames |-> [state |-> "pending", completed |-> 0]]

\* found says whether the projects row was there, lost which later SELECT first
\* missed the rows of a project deleted meanwhile.
NoRows ==
  [found |-> FALSE, lost |-> "nothing", status |-> "queued", final |-> 0,
   ready |-> {}, texts |-> {}, checked |-> {}, provenance |-> {},
   artifacts |-> {}, disposition |-> "active", outcome |-> "none",
   version |-> 0, stages |-> NoProgress]

ReadTypeOK ==
  /\ reading \in Surfaces \cup {"none"}
  /\ place \in Places
  /\ DOMAIN rows = DOMAIN NoRows
  /\ rows.ready \cup rows.texts \cup rows.checked \cup rows.provenance \subseteq Segments
  /\ rows.artifacts \subseteq Scopes
  /\ \A n \in StageNames :
       rows.stages[n].completed \in 0 .. NumSegments + 1

ReadInit == reading = "none" /\ place = "start" /\ rows = NoRows

-----------------------------------------------------------------------------
(***************************************************************************)
(* _get_generation_progress: the stages of a progress, from the generation *)
(* row read before and the stage rows read now.                            *)
(***************************************************************************)

RowsOf(n)    == {k \in Stages : k[2] = n}
InState(n, s) == {k \in RowsOf(n) : stage[k] = s}
AllDone(n)   == InState(n, "completed") = RowsOf(n)

StageState(n) ==
  IF rows.outcome = "cancelled" /\ ~AllDone(n) THEN "cancelled"
  ELSE IF InState(n, "failed") # {} THEN "failed"
  ELSE IF AllDone(n) THEN "completed"
  ELSE IF InState(n, "running") \cup InState(n, "completed") # {} THEN "running"
  ELSE "pending"

Progress ==
  [n \in StageNames |->
     [state |-> StageState(n),
      completed |-> Cardinality(InState(n, "completed"))]]

-----------------------------------------------------------------------------
(***************************************************************************)
(* The SELECTs.                                                            *)
(***************************************************************************)

ReadySegments == {s \in Segments : segStatus[s] = "ready"}

Missed(what) == [rows EXCEPT !.lost = IF @ = "nothing" THEN what ELSE @]

Select(p, found, q) ==
  /\ reading # "none" /\ place = p
  /\ rows' = found
  /\ place' = q
  /\ UNCHANGED <<vars, reading>>

\* A request begins with the projects row.  The list counts the segments in the
\* same statement.
Ask(surface) ==
  LET row == [NoRows EXCEPT !.found = TRUE, !.status = projStatus,
                            !.final = finalReady] IN
  /\ reading = "none"
  /\ reading' = surface
  /\ \/ deleted /\ rows' = NoRows /\ place' = "answered"
     \/ /\ ~deleted /\ surface = "list"
        /\ rows' = [row EXCEPT !.ready = ReadySegments] /\ place' = "generation"
     \/ /\ ~deleted /\ surface = "detail"
        /\ rows' = row /\ place' = "segments"
  /\ UNCHANGED vars

\* A segment's text is set by the transaction that validates it.
SelectSegments ==
  Select("segments",
         IF deleted THEN Missed("segments")
         ELSE [rows EXCEPT !.ready = ReadySegments, !.texts = validated],
         "provenance")

\* Mutant: one segment more than there are.
SelectProvenanceOnceMore ==
  LET s == Cardinality(rows.checked) + 1 IN
  Select("provenance",
         [rows EXCEPT !.checked = @ \cup {s},
                      !.provenance = @ \cup (validated \cap {s})],
         IF s > NumSegments THEN "artifacts" ELSE "provenance")

\* One SELECT per segment, in order.
SelectProvenance ==
  LET s == Cardinality(rows.checked) + 1 IN
  Select("provenance",
         [rows EXCEPT !.checked = @ \cup {s},
                      !.provenance = @ \cup (validated \cap {s})],
         IF s = NumSegments THEN "artifacts" ELSE "provenance")

SelectArtifacts ==
  Select("artifacts",
         [rows EXCEPT !.artifacts = {s \in Scopes : artifacts[s] > 0}],
         "generation")

SelectGeneration ==
  Select("generation",
         IF deleted THEN Missed("generation")
         ELSE [rows EXCEPT !.disposition = disposition, !.outcome = outcome,
                           !.version = version],
         "stages")

\* Mutant: the project's status is taken from a last look at its row.
SelectStagesAndProject ==
  Select("stages",
         IF deleted THEN Missed("stages")
         ELSE [rows EXCEPT !.stages = Progress, !.final = finalReady],
         "answered")

SelectStages ==
  Select("stages",
         IF deleted THEN Missed("stages")
         ELSE [rows EXCEPT !.stages = Progress],
         "answered")

Read ==
  \/ SelectSegments \/ SelectProvenance \/ SelectArtifacts
  \/ SelectGeneration \/ SelectStages

Answered(surface) == reading = surface /\ place = "answered"

\* The answer is taken, or the request given up.
EndRequest == reading' = "none" /\ place' = "start" /\ rows' = NoRows

\* A reader of a project that runs.
ReaderNext ==
  \/ Next /\ UNCHANGED readVars
  \/ \E surface \in Surfaces : Ask(surface)
  \/ Read
  \/ EndRequest /\ UNCHANGED vars

ReaderSpec == Init /\ ReadInit /\ [][ReaderNext]_<<vars, readVars>>

\* A deletion between the SELECTs leaves a detail without segments, or an answer
\* without progress, or stages without units, which the response model refuses.
Whole == rows.found /\ rows.lost = "nothing"

-----------------------------------------------------------------------------
(***************************************************************************)
(* What an answer promises, although it was read in pieces.                *)
(***************************************************************************)

\* A text comes with its validated provenance, a ready segment with its text
\* and its artifact, and never ahead of the progress; a project offered for
\* download with every segment, the episode and a progress that ended ready.
\* The order of the SELECTs is what makes it so.
AnswersAreBacked ==
  place = "answered" /\ Whole =>
    /\ reading = "detail" =>
         /\ rows.texts \subseteq rows.provenance
         /\ rows.ready \subseteq rows.texts \cap rows.artifacts
    /\ Cardinality(rows.ready) <= rows.stages["mixing"].completed
    /\ rows.final = 1 =>
         /\ rows.ready = Segments
         /\ reading = "detail" => Project \in rows.artifacts
         /\ rows.outcome = "ready"
         /\ \A n \in StageNames : rows.stages[n].state = "completed"
=============================================================================
