--------------------------- MODULE DialoguePlanning ---------------------------
(***************************************************************************)
(* From a draft to the requests sent to the speech provider.  The answer   *)
(* of the verifying model passes a gate (script_generator.py               *)
(* parse_verification_result, segment_pipeline.py                          *)
(* _canonical_verified_dialogue); what passes is published as the text of  *)
(* the segment, and a worker that renders the segment plans the requests   *)
(* from it (tts_engine.py plan_dialogue_requests): whole turns packed into *)
(* scenes, or each turn split into fragments.                              *)
(*                                                                         *)
(* A text is a sequence of lines.  A line carries the marker of a speaker  *)
(* and words, or is "plain" (words only; a marker without words is one of  *)
(* these), or "blank".  Words are characters of three classes, and as the  *)
(* parser strips each line they neither begin nor end with a space.        *)
(***************************************************************************)
EXTENDS Integers, SequencesExt

CONSTANTS
  Drafts,                  \* the texts the writing model may produce
  Rewrites,                \* what the verifying model may return instead
  MaxSceneTurns,           \* limits of the TTS profile
  MaxSceneCharacters,
  MaxFragmentCharacters

\* _resolve_tts admits no smaller ones.
ASSUME Limits ==
  {MaxSceneTurns, MaxSceneCharacters, MaxFragmentCharacters} \subseteq Nat \ {0}

Roles      == {"interviewer", "guest"}
LineKinds  == Roles \cup {"plain", "blank"}
Characters == {"letter", "mark", "space"}    \* a mark is one of . ! ?
Strategies == {"text_to_dialogue_v3", "stitched_text_to_speech"}

Trimmed ==
  {w \in Seq(Characters) : w # <<>> /\ w[1] # "space" /\ w[Len(w)] # "space"}
Line ==
  [kind : Roles \cup {"plain"}, words : Trimmed] \cup [kind : {"blank"}, words : {<<>>}]

ASSUME TextsAreLines == Drafts \cup Rewrites \subseteq Seq(Line)

NoText == <<>>    \* verified_text null, absent or only white space

VARIABLES
  strategy,   \* of the TTS profile
  draft,      \* result of text_generation
  verdict,    \* what the gate made of the verifier's answer
  text,       \* segments.text, once published
  step,       \* "verify", "plan", "turns", "planned", "refused"
  turns,      \* turns not yet planned
  open,       \* turns of the scene being packed, or the rest of one turn
  plans,      \* the requests so far, each a sequence of turns
  error       \* what a refusal raised

dialogueVars ==
  <<strategy, draft, verdict, text, step, turns, open, plans, error>>

NoVerdict == [outcome |-> "none", issues |-> FALSE, text |-> NoText]

DialogueInit ==
  /\ strategy \in Strategies
  /\ draft \in Drafts
  /\ verdict = NoVerdict /\ text = NoText
  /\ step = "verify"
  /\ turns = <<>> /\ open = <<>> /\ plans = <<>>
  /\ error = "none"

Refuse(e) == step' = "refused" /\ error' = e

-----------------------------------------------------------------------------
(***************************************************************************)
(* parse_dialogue_turns.                                                   *)
(***************************************************************************)

\* It raises unless the first line that is not blank has a marker.
Parses(t) ==
  \E i \in DOMAIN t : t[i].kind \in Roles /\ \A j \in 1 .. i - 1 : t[j].kind = "blank"

\* Mutant: plain lines are not part of a turn.
MarkedTurns(t) ==
  LET marked == SelectSeq(t, LAMBDA line : line.kind \in Roles) IN
  [i \in DOMAIN marked |-> [role |-> marked[i].kind, words |-> marked[i].words]]

\* A marker begins a turn; a plain line goes on with it after a space.
WithLine(sofar, line) ==
  CASE line.kind = "blank" -> sofar
    [] line.kind = "plain" ->
         [sofar EXCEPT ![Len(sofar)].words = @ \o <<"space">> \o line.words]
    [] OTHER -> Append(sofar, [role |-> line.kind, words |-> line.words])

Turns(t) == FoldLeft(WithLine, <<>>, t)

-----------------------------------------------------------------------------
(***************************************************************************)
(* The gate.                                                               *)
(***************************************************************************)

\* A verifier may still answer in the older form, with is_factful.
Answers ==
  {[form |-> f, outcome |-> o, issues |-> i, text |-> t] :
     f \in {"outcome", "is_factful"},
     o \in {"accepted", "corrected", "blocked"},
     i \in BOOLEAN,
     t \in {draft, NoText} \cup Rewrites}

Normalised(a) ==
  [outcome |-> IF a.form = "is_factful" /\ a.outcome # "accepted"
               THEN "blocked" ELSE a.outcome,
   issues  |-> a.issues,
   text    |-> IF a.form = "is_factful" /\ a.outcome # "accepted"
               THEN NoText ELSE a.text]

WellFormed(v) ==
  \/ v.outcome = "accepted"  /\ v.text # NoText /\ ~v.issues
  \/ v.outcome = "corrected" /\ v.text # NoText /\ v.issues
  \/ v.outcome = "blocked"   /\ v.text = NoText /\ v.issues

\* Mutant: the draft stands in for a malformed correction, too.
PublishedAnyway(v) == IF Parses(v.text) THEN v.text ELSE draft

\* _canonical_verified_dialogue: an accepted text that does not parse is
\* replaced by the draft.
Published(v) ==
  IF Parses(v.text) \/ v.outcome # "accepted" THEN v.text ELSE draft

\* parse_verification_result, _verification_payload, _canonical_verified_dialogue
\* and the UPDATE of segments.text, with the answer as it came.
Verify ==
  /\ step = "verify"
  /\ \E a \in Answers :
       LET v == Normalised(a) IN
       /\ verdict' = v
       /\ \/ ~WellFormed(v) /\ Refuse("structured_output_failure")
             /\ UNCHANGED text
          \/ WellFormed(v) /\ v.outcome = "blocked" /\ Refuse("validation_failed")
             /\ UNCHANGED text
          \/ WellFormed(v) /\ v.outcome # "blocked"
             /\ IF Parses(Published(v))
                THEN text' = Published(v) /\ step' = "plan" /\ UNCHANGED error
                ELSE Refuse("invalid_dialogue_turn") /\ UNCHANGED text
  /\ UNCHANGED <<strategy, draft, turns, open, plans>>

-----------------------------------------------------------------------------
(***************************************************************************)
(* plan_dialogue_requests.                                                 *)
(***************************************************************************)

Plan ==
  /\ step = "plan"
  /\ IF Parses(text) THEN step' = "turns" /\ turns' = Turns(text) /\ UNCHANGED error
     ELSE Refuse("invalid_dialogue_turn") /\ UNCHANGED turns
  /\ UNCHANGED <<strategy, draft, verdict, text, open, plans>>

\* char_count.
Size(ts) == FoldLeft(LAMBDA n, t : n + Len(t.words), 0, ts)

\* Mutant: the turn at hand is not counted.
FullBefore(turn) ==
  Len(open) >= MaxSceneTurns \/ Size(open) > MaxSceneCharacters

Full(turn) ==
  \/ Len(open) >= MaxSceneTurns
  \/ Size(open) + Len(turn.words) > MaxSceneCharacters

PackTurn ==
  /\ step = "turns" /\ strategy = "text_to_dialogue_v3" /\ turns # <<>>
  /\ IF Len(Head(turns).words) > MaxSceneCharacters
     THEN Refuse("tts_turn_too_long") /\ UNCHANGED <<turns, open, plans>>
     ELSE /\ IF open # <<>> /\ Full(Head(turns))
             THEN plans' = Append(plans, open) /\ open' = <<Head(turns)>>
             ELSE open' = Append(open, Head(turns)) /\ UNCHANGED plans
          /\ turns' = Tail(turns)
          /\ UNCHANGED <<step, error>>
  /\ UNCHANGED <<strategy, draft, verdict, text>>

\* _split_dialogue_fragment takes one turn after the other.
TakeTurn ==
  /\ step = "turns" /\ strategy = "stitched_text_to_speech"
  /\ turns # <<>> /\ open = <<>>
  /\ open' = <<Head(turns)>> /\ turns' = Tail(turns)
  /\ UNCHANGED <<strategy, draft, verdict, text, step, plans, error>>

Strip(w) ==
  LET inked == {i \in DOMAIN w : w[i] # "space"} IN
  IF inked = {} THEN <<>> ELSE SubSeq(w, Min(inked), Max(inked))

\* rfind(c, 0, maximum + 1), with places counted from 1 and 0 for none: it
\* looks one place past the maximum.
LastOf(w, c) == Max({0} \cup {i \in 1 .. MaxFragmentCharacters + 1 : w[i] = c})

\* A mark, wherever, is preferred to a space.
Boundary(w) == IF LastOf(w, "mark") > 0 THEN LastOf(w, "mark") ELSE LastOf(w, "space")

\* One round of the loop; the fragment is a request of its own.
Split ==
  LET turn == Head(open)
      w    == turn.words
      b    == Boundary(w)
      Cut(f) == Append(plans, <<[turn EXCEPT !.words = f]>>)
  IN
  /\ step = "turns" /\ strategy = "stitched_text_to_speech" /\ open # <<>>
  /\ \/ /\ Len(w) <= MaxFragmentCharacters
        /\ plans' = Cut(w) /\ open' = <<>> /\ UNCHANGED <<step, error>>
     \/ /\ Len(w) > MaxFragmentCharacters /\ b <= 1
        /\ Refuse("tts_unsplittable_token") /\ UNCHANGED <<open, plans>>
     \/ /\ Len(w) > MaxFragmentCharacters /\ b > 1
        /\ plans' = Cut(Strip(SubSeq(w, 1, b)))
        /\ LET rest == Strip(SubSeq(w, b + 1, Len(w))) IN
           open' = IF rest = <<>> THEN <<>> ELSE <<[turn EXCEPT !.words = rest]>>
        /\ UNCHANGED <<step, error>>
  /\ UNCHANGED <<strategy, draft, verdict, text, turns>>

\* The last scene, and the end.
EndPlan ==
  /\ step = "turns" /\ turns = <<>>
  /\ open = <<>> \/ strategy = "text_to_dialogue_v3"
  /\ plans' = IF open = <<>> THEN plans ELSE Append(plans, open)
  /\ open' = <<>> /\ step' = "planned"
  /\ UNCHANGED <<strategy, draft, verdict, text, turns, error>>

DialogueNext == Verify \/ Plan \/ PackTurn \/ TakeTurn \/ Split \/ EndPlan

DialogueSpec == DialogueInit /\ [][DialogueNext]_dialogueVars

-----------------------------------------------------------------------------
(***************************************************************************)
(* Properties.                                                             *)
(***************************************************************************)

\* The characters of w that are heard, with who says them.
Heard(role, w) ==
  FlattenSeq([i \in DOMAIN w |-> IF w[i] = "space" THEN <<>> ELSE <<<<role, w[i]>>>>])

HeardIn(ts) == FlattenSeq([i \in DOMAIN ts |-> Heard(ts[i].role, ts[i].words)])

\* Who speaks line i of t: the last marker at or above it.
SpeakerOf(t, i) == t[Max({j \in 1 .. i : t[j].kind \in Roles})].kind

HeardOf(t) ==
  FlattenSeq([i \in DOMAIN t |->
                IF t[i].kind = "blank" THEN <<>>
                ELSE Heard(SpeakerOf(t, i), t[i].words)])

\* At every point of the planning the requests made, the one in the making and
\* the turns to come say the published text, every word once, in order, by its
\* speaker - although it is cut at marks and spaces, and plain lines are joined.
RequestsSayTheText ==
  /\ step \in {"turns", "planned"} =>
       HeardIn(FlattenSeq(plans) \o open \o turns) = HeardOf(text)
  /\ step = "planned" => plans # <<>> /\ turns = <<>> /\ open = <<>>

\* No request is empty, mixes fragments, or is larger than the profile allows,
\* but for a fragment one character longer that ends with a mark: the search for
\* a mark looks one place too far.
RequestsAreWithinLimits ==
  \A p \in Range(plans) :
    /\ p # <<>> /\ \A t \in Range(p) : t.words # <<>>
    /\ strategy = "text_to_dialogue_v3" =>
         Len(p) <= MaxSceneTurns /\ Size(p) <= MaxSceneCharacters
    /\ strategy = "stitched_text_to_speech" =>
         /\ Len(p) = 1
         /\ \/ Size(p) <= MaxFragmentCharacters
            \/ /\ Size(p) = MaxFragmentCharacters + 1
               /\ p[1].words[Size(p)] = "mark"

\* Nobody speaks a text the verifier did not pass: it is the one it returned
\* without blocking, or the draft, if it accepted that.  And what is published
\* parses, so once a text is published only the length of a turn can stop the
\* planning, or a stretch longer than a fragment that has no place to cut it: no
\* mark but the one it may begin with, and then its spaces are no places either.
OnlyVerifiedTextIsPlanned ==
  /\ text # NoText =>
       /\ verdict.outcome \in {"accepted", "corrected"}
       /\ text = verdict.text \/ (text = draft /\ verdict.outcome = "accepted")
  /\ text # NoText /\ step = "refused" =>
       \/ /\ error = "tts_turn_too_long"
          /\ \E t \in Range(Turns(text)) : Len(t.words) > MaxSceneCharacters
       \/ /\ error = "tts_unsplittable_token"
          /\ \E t \in Range(Turns(text)) : \E i \in DOMAIN t.words :
               /\ i + MaxFragmentCharacters <= Len(t.words)
               /\ t.words[i] # "space"
               /\ \A j \in i + 1 .. i + MaxFragmentCharacters :
                    /\ t.words[j] # "mark"
                    /\ t.words[i] = "letter" => t.words[j] # "space"
=============================================================================
