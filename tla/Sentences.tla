------------------------------ MODULE Sentences ------------------------------
(***************************************************************************)
(* file-processing/sentence-generator: sentence-template.c prints a        *)
(* sentence for every combination of words and template that makes one,    *)
(* sentence-synthesis.c prints random ones.  Both conjugate verbs, each    *)
(* with a copy of its own of the function.  A verb is a sequence of        *)
(* letters.                                                                *)
(***************************************************************************)
EXTENDS Integers, Sequences, SequencesExt

CONSTANTS
  Verbs,               \* a sequence of verbs
  OUT_SIZE,            \* the buffer for a conjugated verb: 30 in the code
  NAMES, ADVERBS, ADJECTIVES,  \* how many there are of them: 5, 7 and 10
  COUNT                \* the sentences that sentence-synthesis.c is asked for

pronouns == <<"He", "She", "They", "People", "We", "I", "You">>

Letters == UNION {ToSet(Verbs[v]) : v \in DOMAIN Verbs}

ASSUME SentencesAssumption ==
  /\ Verbs \in Seq(Seq(Letters) \ {<<>>})
  /\ OUT_SIZE \in Nat /\ OUT_SIZE > 6
  /\ {NAMES, ADVERBS, ADJECTIVES, COUNT} \subseteq Nat \ {0}

VARIABLES
  gen,                 \* "start", the program that runs, or "done"
  turn,                \* the turns of the loops so far
  total,               \* what sentence-template.c counts
  printed_count,       \* history: the sentences printed so far
  latest               \* history: subject and verb of those printed last

genVars == <<gen, turn, total, printed_count, latest>>

GenInit ==
  gen = "start" /\ turn = 0 /\ total = 0 /\ printed_count = 0 /\ latest = <<>>

-----------------------------------------------------------------------------
(* conjugate_verb_third_person(), twice.                                   *)

\* strncpy() and the terminator behind what it copied.
Copy(verb, limit) == SubSeq(verb, 1, IF Len(verb) < limit THEN Len(verb) ELSE limit)

Letter(verb, len) == IF len >= 1 THEN verb[len] ELSE ""

\* Mutant: the letter before the y is not looked at.
AnyY(verb, len) == Letter(verb, len) = "y"
ConsonantY(verb, len) ==
  /\ len > 1 /\ Letter(verb, len) = "y"
  /\ Letter(verb, len - 1) \notin {"a", "e", "i", "o", "u"}

WithEnding(verb, out) ==
  LET len == Len(out) IN
  IF \/ Letter(verb, len) \in {"o", "s", "x", "z"}
     \/ Letter(verb, len) = "h" /\ Letter(verb, len - 1) \in {"c", "s"}
    THEN out \o <<"e", "s">>
  ELSE IF ConsonantY(verb, len) THEN SubSeq(out, 1, len - 1) \o <<"i", "e", "s">>
  ELSE Append(out, "s")

\* Mutant: room for the terminator only.
RoomForNul == OUT_SIZE - 1
RoomForEnding == OUT_SIZE - 3
synthesis_conjugate(verb) == WithEnding(verb, Copy(verb, RoomForEnding))

template_conjugate(verb) ==
  LET out == Copy(verb, OUT_SIZE - 2) IN
  IF Len(out) + 2 >= OUT_SIZE THEN Append(out, "s") ELSE WithEnding(verb, out)

-----------------------------------------------------------------------------
(* The templates.                                                          *)

is_third_person_singular(pronoun) == pronoun \in {"He", "She"}

\* The sentences of each template, none or one: subject, verb as it is in the
\* text, and as it is printed.
Sentence(subject, verb, shown) == <<[subject |-> subject, verb |-> verb, shown |-> shown]>>
template_1(pronoun, verb, conjugated) ==
  Sentence(pronoun, verb, IF is_third_person_singular(pronoun) THEN conjugated ELSE verb)
template_2(pronoun, verb, conjugated) ==
  IF is_third_person_singular(pronoun) THEN Sentence(pronoun, verb, conjugated) ELSE <<>>
template_3(verb, conjugated) == Sentence("name", verb, conjugated)
template_4(verb, conjugated) == Sentence("name", verb, conjugated)

Prints(sentences) ==
  /\ latest' = sentences
  /\ printed_count' = printed_count + Len(sentences)

Counts(pronoun) == IF is_third_person_singular(pronoun) THEN 4 ELSE 3

\* One turn of the five nested loops, the innermost over the pronouns, the one
\* over the verbs inside that over the names only.
Turns == NAMES * Len(Verbs) * ADVERBS * ADJECTIVES * Len(pronouns)
AllTemplates ==
  /\ gen = "template"
  /\ turn < Turns
  /\ LET pronoun    == pronouns[(turn % Len(pronouns)) + 1]
         inner      == ADVERBS * ADJECTIVES * Len(pronouns)
         verb       == Verbs[((turn \div inner) % Len(Verbs)) + 1]
         conjugated == template_conjugate(verb)
     IN  /\ Prints(template_1(pronoun, verb, conjugated)
                     \o template_2(pronoun, verb, conjugated)
                     \o template_3(verb, conjugated) \o template_4(verb, conjugated))
         /\ total' = total + Counts(pronoun)
  /\ turn' = turn + 1
  /\ UNCHANGED gen

generate_random_sentence ==
  /\ gen = "synthesis"
  /\ turn < COUNT
  /\ \E v \in DOMAIN Verbs, p \in DOMAIN pronouns :
       LET verb       == Verbs[v]
           conjugated == synthesis_conjugate(verb)
       IN  \/ Prints(template_1(pronouns[p], verb, conjugated))
           \/ Prints(template_2(pronouns[p], verb, conjugated))
           \/ Prints(template_3(verb, conjugated))
           \/ Prints(template_4(verb, conjugated))
  /\ turn' = turn + 1
  /\ UNCHANGED <<gen, total>>

StartGenerator ==
  /\ gen = "start"
  /\ gen' \in {"template", "synthesis"}
  /\ UNCHANGED <<turn, total, printed_count, latest>>

EndOfLoops ==
  /\ turn = IF gen = "template" THEN Turns ELSE COUNT
  /\ gen \in {"template", "synthesis"}
  /\ gen' = "done"
  /\ UNCHANGED <<turn, total, printed_count, latest>>

GenCompute == AllTemplates \/ generate_random_sentence \/ EndOfLoops
GenNext == StartGenerator \/ GenCompute

-----------------------------------------------------------------------------
(* Properties.                                                             *)

\* Conjugating does not write behind the buffer, however long the verb is: the
\* ending and the terminator fit behind what was copied.
VerbFits ==
  gen \in {"template", "synthesis"} =>
    \A s \in DOMAIN latest :
      latest[s].shown # latest[s].verb => Len(latest[s].shown) + 1 <= OUT_SIZE

\* The third persons of some verbs, the program's own and others.
ThirdPerson ==
  << [verb |-> <<"e", "a", "t">>,           third |-> <<"e", "a", "t", "s">>],
     [verb |-> <<"p", "l", "a", "y">>,      third |-> <<"p", "l", "a", "y", "s">>],
     [verb |-> <<"t", "r", "y">>,           third |-> <<"t", "r", "i", "e", "s">>],
     [verb |-> <<"g", "o">>,                third |-> <<"g", "o", "e", "s">>],
     [verb |-> <<"w", "a", "s", "h">>,      third |-> <<"w", "a", "s", "h", "e", "s">>],
     [verb |-> <<"c", "o", "d", "e">>,      third |-> <<"c", "o", "d", "e", "s">>] >>

\* Subject and verb agree in every sentence that either program prints.
Agreement ==
  \A s \in DOMAIN latest :
    IF latest[s].subject \in {"He", "She", "name"}
    THEN \A t \in DOMAIN ThirdPerson :
           latest[s].verb = ThirdPerson[t].verb => latest[s].shown = ThirdPerson[t].third
    ELSE latest[s].shown = latest[s].verb
=============================================================================
