-------------------------- MODULE MCDialoguePlanning --------------------------
(***************************************************************************)
(* Texts for TLC: every text of up to three short lines, and every single  *)
(* turn of up to seven characters, alone and with a short one after it.    *)
(***************************************************************************)
EXTENDS DialoguePlanning

Words(n) ==
  {w \in UNION {[1 .. m -> Characters] : m \in 1 .. n} : w = Strip(w)}

ShortWords == {<<"letter">>, <<"letter", "mark">>, <<"letter", "letter", "letter">>}

Lines(words) ==
  [kind : Roles \cup {"plain"}, words : words]
    \cup {[kind |-> "blank", words |-> <<>>]}

Answer == [kind |-> "guest", words |-> <<"letter">>]

MCDrafts ==
  UNION {[1 .. n -> Lines(ShortWords)] : n \in 0 .. 3}
    \cup {<<[kind |-> "interviewer", words |-> w]>> : w \in Words(7)}
    \cup {<<[kind |-> "interviewer", words |-> w], Answer>> : w \in Words(5)}

\* One that parses and one that does not.
MCRewrites == {<<Answer>>, <<[kind |-> "plain", words |-> <<"letter">>]>>}
=============================================================================
