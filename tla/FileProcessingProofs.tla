------------------------- MODULE FileProcessingProofs -------------------------
(***************************************************************************)
(* Proofs about the programs of src/file-processing: the sentences for     *)
(* every vocabulary, the tokens and the summary for every file, and the    *)
(* addresses for every file of lines.                                      *)
(***************************************************************************)
EXTENDS Summary, Email, Sentences, DataLemmas, SequenceTheorems, FiniteSetTheorems, TLAPS

-----------------------------------------------------------------------------
(* The sentences.                                                          *)

Alphabet == Letters \cup {"a", "c", "d", "e", "g", "h", "i", "l", "o", "p", "r", "s", "t", "w", "y"}

LEMMA AppendIs ==
  ASSUME NEW S, NEW s \in Seq(S), NEW c \in S, NEW u \in Seq(S), Len(u) = Len(s) + 1,
         \A k \in 1 .. Len(s) : u[k] = s[k], u[Len(s) + 1] = c
  PROVE  Append(s, c) = u
<1>1. Append(s, c) \in Seq(S) /\ Len(Append(s, c)) = Len(s) + 1
  BY AppendProperties
<1>2. \A k \in 1 .. (Len(s) + 1) : Append(s, c)[k] = u[k]
  BY AppendProperties
<1> QED
  BY <1>1, <1>2, SeqEqual

LEMMA ConcatIs ==
  ASSUME NEW S, NEW s \in Seq(S), NEW w \in Seq(S), NEW u \in Seq(S), Len(u) = Len(s) + Len(w),
         \A k \in 1 .. Len(s) : u[k] = s[k], \A k \in 1 .. Len(w) : u[Len(s) + k] = w[k]
  PROVE  s \o w = u
<1>1. s \o w \in Seq(S) /\ Len(s \o w) = Len(s) + Len(w)
  BY ConcatProperties
<1>2. \A k \in 1 .. (Len(s) + Len(w)) : (s \o w)[k] = u[k]
  <2> SUFFICES ASSUME NEW k \in 1 .. (Len(s) + Len(w)) PROVE (s \o w)[k] = u[k]
    OBVIOUS
  <2>1. (s \o w)[k] = IF k <= Len(s) THEN s[k] ELSE w[k - Len(s)]
    BY ConcatProperties
  <2>2. CASE k <= Len(s)
    BY <2>1, <2>2
  <2>3. CASE ~ (k <= Len(s))
    <3>1. k - Len(s) \in 1 .. Len(w) /\ Len(s) + (k - Len(s)) = k
      BY <2>3
    <3> QED
      BY <2>1, <2>3, <3>1
  <2> QED
    BY <2>2, <2>3
<1> QED
  BY <1>1, <1>2, SeqEqual

LEMMA CopyFacts ==
  ASSUME NEW verb \in Seq(Alphabet), NEW limit \in Nat
  PROVE  /\ Copy(verb, limit) \in Seq(Alphabet)
         /\ Len(Copy(verb, limit)) <= limit /\ Len(Copy(verb, limit)) <= Len(verb)
         /\ Len(verb) <= limit => Copy(verb, limit) = verb
         /\ Len(Copy(verb, limit)) \in Nat
<1>1. Len(verb) \in Nat
  OBVIOUS
<1>2. CASE Len(verb) < limit
  <2>1. Copy(verb, limit) = SubSeq(verb, 1, Len(verb))
    BY <1>2 DEF Copy
  <2>2. SubSeq(verb, 1, Len(verb)) = verb
    OBVIOUS
  <2> QED
    BY <1>1, <1>2, <2>1, <2>2
<1>3. CASE ~ (Len(verb) < limit)
  <2>1. Copy(verb, limit) = SubSeq(verb, 1, limit)
    BY <1>3 DEF Copy
  <2>2. SubSeq(verb, 1, limit) \in Seq(Alphabet) /\ Len(SubSeq(verb, 1, limit)) = limit
    BY <1>1, <1>3
  <2>3. SubSeq(verb, 1, Len(verb)) = verb
    OBVIOUS
  <2>4. Len(verb) <= limit => Len(verb) = limit
    BY <1>1, <1>3
  <2>5. Len(verb) <= limit => Copy(verb, limit) = verb
    BY <2>1, <2>3, <2>4
  <2> QED
    BY <1>1, <1>3, <2>1, <2>2, <2>5
<1> QED
  BY <1>2, <1>3

LEMMA EndingFacts ==
  ASSUME NEW verb \in Seq(Alphabet), NEW out \in Seq(Alphabet)
  PROVE  WithEnding(verb, out) \in Seq(Alphabet) /\ Len(WithEnding(verb, out)) <= Len(out) + 2
<1> DEFINE len == Len(out)
           esses == out \o <<"e", "s">>
           ies == SubSeq(out, 1, len - 1) \o <<"i", "e", "s">>
<1>1. len \in Nat /\ <<"e", "s">> \in Seq(Alphabet) /\ <<"i", "e", "s">> \in Seq(Alphabet)
      /\ Len(<<"e", "s">>) = 2 /\ Len(<<"i", "e", "s">>) = 3
  BY DEF Alphabet
<1>0. "s" \in Alphabet
  BY DEF Alphabet
<1>2. esses \in Seq(Alphabet) /\ Len(esses) = len + 2
  BY <1>1, ConcatProperties
<1>3. ConsonantY(verb, len) => ies \in Seq(Alphabet) /\ Len(ies) = len + 2
  <2> SUFFICES ASSUME len > 1 PROVE ies \in Seq(Alphabet) /\ Len(ies) = len + 2
    BY DEF ConsonantY
  <2>1. SubSeq(out, 1, len - 1) \in Seq(Alphabet) /\ Len(SubSeq(out, 1, len - 1)) = len - 1
    BY <1>1
  <2>2. ies \in Seq(Alphabet) /\ Len(ies) = Len(SubSeq(out, 1, len - 1)) + 3
    BY <1>1, <2>1, ConcatProperties
  <2> QED
    BY <1>1, <2>1, <2>2
<1>4. Append(out, "s") \in Seq(Alphabet) /\ Len(Append(out, "s")) = len + 1
  BY <1>0, AppendProperties
<1>5. \/ WithEnding(verb, out) = esses
      \/ WithEnding(verb, out) = Append(out, "s")
      \/ ConsonantY(verb, len) /\ WithEnding(verb, out) = ies
  BY DEF WithEnding
<1>6. PICK long \in Nat : long = len
  BY <1>1
<1> HIDE DEF esses, ies, len
<1>7. CASE ConsonantY(verb, len) /\ WithEnding(verb, out) = ies
  BY <1>3, <1>6, <1>7 DEF len
<1>8. CASE WithEnding(verb, out) = esses
  BY <1>2, <1>6, <1>8 DEF len
<1>9. CASE WithEnding(verb, out) = Append(out, "s")
  BY <1>4, <1>6, <1>9 DEF len
<1> QED
  BY <1>5, <1>7, <1>8, <1>9

Conjugated(verb) == {template_conjugate(verb), synthesis_conjugate(verb)}

LEMMA ConjugatedFits ==
  ASSUME NEW verb \in Seq(Alphabet), NEW shown \in Conjugated(verb)
  PROVE  shown \in Seq(Alphabet) /\ Len(shown) + 1 <= OUT_SIZE
<1>1. OUT_SIZE \in Nat /\ OUT_SIZE > 6 /\ OUT_SIZE - 2 \in Nat /\ OUT_SIZE - 3 \in Nat
  BY SentencesAssumption
<1>2. CASE shown = synthesis_conjugate(verb)
  <2> DEFINE out == Copy(verb, OUT_SIZE - 3)
  <2>1. out \in Seq(Alphabet) /\ Len(out) <= OUT_SIZE - 3 /\ Len(out) \in Nat
    BY <1>1, CopyFacts
  <2>2. shown = WithEnding(verb, out)
    BY <1>2 DEF synthesis_conjugate, RoomForEnding
  <2> HIDE DEF out
  <2>3. shown \in Seq(Alphabet) /\ Len(shown) <= Len(out) + 2
    BY <2>1, <2>2, EndingFacts
  <2> QED
    BY <1>1, <2>1, <2>3
<1>3. CASE shown = template_conjugate(verb)
  <2> DEFINE out == Copy(verb, OUT_SIZE - 2)
  <2>1. out \in Seq(Alphabet) /\ Len(out) <= OUT_SIZE - 2 /\ Len(out) \in Nat
    BY <1>1, CopyFacts
  <2>2. shown = IF Len(out) + 2 >= OUT_SIZE THEN Append(out, "s") ELSE WithEnding(verb, out)
    BY <1>3 DEF template_conjugate
  <2> HIDE DEF out
  <2>3. Append(out, "s") \in Seq(Alphabet) /\ Len(Append(out, "s")) = Len(out) + 1
    <3>1. "s" \in Alphabet
      BY DEF Alphabet
    <3> QED
      BY <2>1, <3>1, AppendProperties
  <2>4. WithEnding(verb, out) \in Seq(Alphabet) /\ Len(WithEnding(verb, out)) <= Len(out) + 2
    BY <2>1, EndingFacts
  <2> QED
    BY <1>1, <2>1, <2>2, <2>3, <2>4
<1> QED
  BY <1>2, <1>3 DEF Conjugated

LEMMA ConjugatedUncut ==
  ASSUME NEW verb \in Seq(Alphabet), Len(verb) <= 4, NEW shown \in Conjugated(verb)
  PROVE  shown = WithEnding(verb, verb)
<1>1. OUT_SIZE \in Nat /\ OUT_SIZE > 6 /\ OUT_SIZE - 2 \in Nat /\ OUT_SIZE - 3 \in Nat
      /\ Len(verb) \in Nat
  BY SentencesAssumption
<1>2. Len(verb) <= OUT_SIZE - 2 /\ Len(verb) <= OUT_SIZE - 3 /\ ~ (Len(verb) + 2 >= OUT_SIZE)
  BY <1>1
<1>3. Copy(verb, OUT_SIZE - 2) = verb /\ Copy(verb, OUT_SIZE - 3) = verb
  BY <1>1, <1>2, CopyFacts
<1> QED
  BY <1>2, <1>3 DEF Conjugated, template_conjugate, synthesis_conjugate, RoomForEnding

LEMMA ThirdPersonIsRight ==
  ASSUME NEW t \in DOMAIN ThirdPerson
  PROVE  /\ ThirdPerson[t].verb \in Seq(Alphabet) /\ Len(ThirdPerson[t].verb) <= 4
         /\ WithEnding(ThirdPerson[t].verb, ThirdPerson[t].verb) = ThirdPerson[t].third
<1> DEFINE eat == <<"e", "a", "t">>
           play == <<"p", "l", "a", "y">>
           try == <<"t", "r", "y">>
           go == <<"g", "o">>
           wash == <<"w", "a", "s", "h">>
           code == <<"c", "o", "d", "e">>
<1>1. WithEnding(eat, eat) = <<"e", "a", "t", "s">>
  <2>1. WithEnding(eat, eat) = Append(eat, "s")
    BY DEF WithEnding, Letter, ConsonantY
  <2>3. eat \in Seq(Alphabet) /\ <<"e", "a", "t", "s">> \in Seq(Alphabet) /\ "s" \in Alphabet
    BY DEF Alphabet
  <2>5. /\ Len(<<"e", "a", "t", "s">>) = Len(eat) + 1
        /\ \A k \in 1 .. Len(eat) : <<"e", "a", "t", "s">>[k] = eat[k]
        /\ <<"e", "a", "t", "s">>[Len(eat) + 1] = "s"
    OBVIOUS
  <2>4. Append(eat, "s") = <<"e", "a", "t", "s">>
    BY <2>3, <2>5, AppendIs
  <2> QED
    BY <2>1, <2>4
<1>2. WithEnding(play, play) = <<"p", "l", "a", "y", "s">>
  <2>1. WithEnding(play, play) = Append(play, "s")
    BY DEF WithEnding, Letter, ConsonantY
  <2>3. play \in Seq(Alphabet) /\ <<"p", "l", "a", "y", "s">> \in Seq(Alphabet) /\ "s" \in Alphabet
    BY DEF Alphabet
  <2>5. /\ Len(<<"p", "l", "a", "y", "s">>) = Len(play) + 1
        /\ \A k \in 1 .. Len(play) : <<"p", "l", "a", "y", "s">>[k] = play[k]
        /\ <<"p", "l", "a", "y", "s">>[Len(play) + 1] = "s"
    OBVIOUS
  <2>4. Append(play, "s") = <<"p", "l", "a", "y", "s">>
    BY <2>3, <2>5, AppendIs
  <2> QED
    BY <2>1, <2>4
<1>3. WithEnding(try, try) = <<"t", "r", "i", "e", "s">>
  <2>1. WithEnding(try, try) = SubSeq(try, 1, 2) \o <<"i", "e", "s">>
    BY DEF WithEnding, Letter, ConsonantY
  <2>2. SubSeq(try, 1, 2) = <<"t", "r">>
    <3>1. SubSeq(try, 1, 2) \in Seq(Alphabet) /\ Len(SubSeq(try, 1, 2)) = 2
      BY DEF Alphabet
    <3>2. <<"t", "r">> \in Seq(Alphabet)
      BY DEF Alphabet
    <3>3. \A k \in 1 .. 2 : SubSeq(try, 1, 2)[k] = <<"t", "r">>[k]
      OBVIOUS
    <3> QED
      BY <3>1, <3>2, <3>3, SeqEqual
  <2>3. <<"t", "r">> \in Seq(Alphabet) /\ <<"t", "r", "i", "e", "s">> \in Seq(Alphabet) /\ <<"i", "e", "s">> \in Seq(Alphabet)
    BY DEF Alphabet
  <2>5. /\ Len(<<"t", "r", "i", "e", "s">>) = Len(<<"t", "r">>) + Len(<<"i", "e", "s">>)
        /\ \A k \in 1 .. Len(<<"t", "r">>) : <<"t", "r", "i", "e", "s">>[k] = <<"t", "r">>[k]
        /\ \A k \in 1 .. Len(<<"i", "e", "s">>) : <<"t", "r", "i", "e", "s">>[Len(<<"t", "r">>) + k] = <<"i", "e", "s">>[k]
    OBVIOUS
  <2>4. <<"t", "r">> \o <<"i", "e", "s">> = <<"t", "r", "i", "e", "s">>
    BY <2>3, <2>5, ConcatIs
  <2> QED
    BY <2>1, <2>2, <2>4
<1>4. WithEnding(go, go) = <<"g", "o", "e", "s">>
  <2>1. WithEnding(go, go) = go \o <<"e", "s">>
    BY DEF WithEnding, Letter, ConsonantY
  <2>3. go \in Seq(Alphabet) /\ <<"g", "o", "e", "s">> \in Seq(Alphabet) /\ <<"e", "s">> \in Seq(Alphabet)
    BY DEF Alphabet
  <2>5. /\ Len(<<"g", "o", "e", "s">>) = Len(go) + Len(<<"e", "s">>)
        /\ \A k \in 1 .. Len(go) : <<"g", "o", "e", "s">>[k] = go[k]
        /\ \A k \in 1 .. Len(<<"e", "s">>) : <<"g", "o", "e", "s">>[Len(go) + k] = <<"e", "s">>[k]
    OBVIOUS
  <2>4. go \o <<"e", "s">> = <<"g", "o", "e", "s">>
    BY <2>3, <2>5, ConcatIs
  <2> QED
    BY <2>1, <2>4
<1>5. WithEnding(wash, wash) = <<"w", "a", "s", "h", "e", "s">>
  <2>1. WithEnding(wash, wash) = wash \o <<"e", "s">>
    BY DEF WithEnding, Letter, ConsonantY
  <2>3. wash \in Seq(Alphabet) /\ <<"w", "a", "s", "h", "e", "s">> \in Seq(Alphabet) /\ <<"e", "s">> \in Seq(Alphabet)
    BY DEF Alphabet
  <2>5. /\ Len(<<"w", "a", "s", "h", "e", "s">>) = Len(wash) + Len(<<"e", "s">>)
        /\ \A k \in 1 .. Len(wash) : <<"w", "a", "s", "h", "e", "s">>[k] = wash[k]
        /\ \A k \in 1 .. Len(<<"e", "s">>) : <<"w", "a", "s", "h", "e", "s">>[Len(wash) + k] = <<"e", "s">>[k]
    OBVIOUS
  <2>4. wash \o <<"e", "s">> = <<"w", "a", "s", "h", "e", "s">>
    BY <2>3, <2>5, ConcatIs
  <2> QED
    BY <2>1, <2>4
<1>6. WithEnding(code, code) = <<"c", "o", "d", "e", "s">>
  <2>1. WithEnding(code, code) = Append(code, "s")
    BY DEF WithEnding, Letter, ConsonantY
  <2>3. code \in Seq(Alphabet) /\ <<"c", "o", "d", "e", "s">> \in Seq(Alphabet) /\ "s" \in Alphabet
    BY DEF Alphabet
  <2>5. /\ Len(<<"c", "o", "d", "e", "s">>) = Len(code) + 1
        /\ \A k \in 1 .. Len(code) : <<"c", "o", "d", "e", "s">>[k] = code[k]
        /\ <<"c", "o", "d", "e", "s">>[Len(code) + 1] = "s"
    OBVIOUS
  <2>4. Append(code, "s") = <<"c", "o", "d", "e", "s">>
    BY <2>3, <2>5, AppendIs
  <2> QED
    BY <2>1, <2>4
<1>7. DOMAIN ThirdPerson = 1 .. 6
  BY DEF ThirdPerson
<1>8. {eat, play, try, go, wash, code} \subseteq Seq(Alphabet)
  BY DEF Alphabet
<1>9. /\ ThirdPerson[1].verb = eat /\ ThirdPerson[1].third = <<"e", "a", "t", "s">>
      /\ ThirdPerson[2].verb = play /\ ThirdPerson[2].third = <<"p", "l", "a", "y", "s">>
      /\ ThirdPerson[3].verb = try /\ ThirdPerson[3].third = <<"t", "r", "i", "e", "s">>
      /\ ThirdPerson[4].verb = go /\ ThirdPerson[4].third = <<"g", "o", "e", "s">>
      /\ ThirdPerson[5].verb = wash /\ ThirdPerson[5].third = <<"w", "a", "s", "h", "e", "s">>
      /\ ThirdPerson[6].verb = code /\ ThirdPerson[6].third = <<"c", "o", "d", "e", "s">>
  BY DEF ThirdPerson
<1>10. /\ Len(eat) <= 4 /\ Len(play) <= 4 /\ Len(try) <= 4
       /\ Len(go) <= 4 /\ Len(wash) <= 4 /\ Len(code) <= 4
  OBVIOUS
<1> HIDE DEF eat, play, try, go, wash, code
<1>11. t \in {1, 2, 3, 4, 5, 6}
  BY <1>7
<1> QED
  BY <1>1, <1>2, <1>3, <1>4, <1>5, <1>6, <1>8, <1>9, <1>10, <1>11

Singular == {"He", "She", "name"}
RightSentences ==
  {r \in [subject : Singular \cup {"They", "People", "We", "I", "You"},
          verb : {Verbs[v] : v \in DOMAIN Verbs}, shown : Seq(Alphabet)] :
     IF r.subject \in Singular THEN r.shown \in Conjugated(r.verb) ELSE r.shown = r.verb}
GenInv == turn \in Nat /\ latest \in Seq(RightSentences)

LEMMA VerbsAreSpelled ==
  ASSUME NEW v \in DOMAIN Verbs
  PROVE  Verbs[v] \in Seq(Alphabet)
<1>1. Verbs[v] \in Seq(Letters)
  BY SentencesAssumption
<1>2. Letters \subseteq Alphabet
  BY DEF Alphabet
<1> QED
  BY <1>1, <1>2

LEMMA OneSentence ==
  ASSUME NEW subject \in Singular \cup {"They", "People", "We", "I", "You"},
         NEW v \in DOMAIN Verbs, NEW shown,
         IF subject \in Singular THEN shown \in Conjugated(Verbs[v]) ELSE shown = Verbs[v]
  PROVE  Sentence(subject, Verbs[v], shown) \in Seq(RightSentences)
<1>1. Verbs[v] \in Seq(Alphabet)
  BY VerbsAreSpelled
<1>2. shown \in Seq(Alphabet)
  BY <1>1, ConjugatedFits
<1>3. [subject |-> subject, verb |-> Verbs[v], shown |-> shown] \in RightSentences
  BY <1>2 DEF RightSentences
<1> QED
  BY <1>3 DEF Sentence

LEMMA TemplatesAreRight ==
  ASSUME NEW k \in DOMAIN pronouns, NEW v \in DOMAIN Verbs, NEW shown \in Conjugated(Verbs[v])
  PROVE  /\ template_1(pronouns[k], Verbs[v], shown) \in Seq(RightSentences)
         /\ template_2(pronouns[k], Verbs[v], shown) \in Seq(RightSentences)
         /\ template_3(Verbs[v], shown) \in Seq(RightSentences)
         /\ template_4(Verbs[v], shown) \in Seq(RightSentences)
<1>1. pronouns[k] \in {"He", "She", "They", "People", "We", "I", "You"}
  BY DEF pronouns
<1>2. is_third_person_singular(pronouns[k]) <=> pronouns[k] \in Singular
  BY <1>1 DEF is_third_person_singular, Singular
<1>3. template_1(pronouns[k], Verbs[v], shown) \in Seq(RightSentences)
  <2> DEFINE said == IF is_third_person_singular(pronouns[k]) THEN shown ELSE Verbs[v]
  <2>1. IF pronouns[k] \in Singular THEN said \in Conjugated(Verbs[v]) ELSE said = Verbs[v]
    BY <1>2
  <2>2. pronouns[k] \in Singular \cup {"They", "People", "We", "I", "You"}
    BY <1>1 DEF Singular
  <2> QED
    BY <2>1, <2>2, OneSentence DEF template_1
<1>4. template_2(pronouns[k], Verbs[v], shown) \in Seq(RightSentences)
  BY <1>1, <1>2, OneSentence DEF template_2
<1>5. Sentence("name", Verbs[v], shown) \in Seq(RightSentences)
  BY OneSentence DEF Singular
<1> QED
  BY <1>3, <1>4, <1>5 DEF template_3, template_4

LEMMA GenInitInv == GenInit => GenInv
  BY DEF GenInit, GenInv

LEMMA AllTemplatesInv == GenInv /\ AllTemplates => GenInv'
<1> SUFFICES ASSUME GenInv, AllTemplates PROVE GenInv'
  OBVIOUS
<1> DEFINE inner == ADVERBS * ADJECTIVES * Len(pronouns)
           k == (turn % Len(pronouns)) + 1
           v == ((turn \div inner) % Len(Verbs)) + 1
           shown == template_conjugate(Verbs[v])
<1>1. turn \in Nat /\ turn < Turns /\ turn' = turn + 1
  BY DEF AllTemplates, GenInv
<1>2. Len(pronouns) = 7 /\ DOMAIN pronouns = 1 .. 7
  BY DEF pronouns
<1>3. k \in DOMAIN pronouns
  BY <1>1, <1>2
<1>4. inner \in Nat \ {0}
  <2>1. ADVERBS \in Nat \ {0} /\ ADJECTIVES \in Nat \ {0}
    BY SentencesAssumption
  <2>2. ADVERBS * ADJECTIVES \in Nat \ {0}
    BY <2>1
  <2> QED
    BY <1>2, <2>2
<1>5. Len(Verbs) \in Nat \ {0}
  <2>1. Len(Verbs) \in Nat
    BY SentencesAssumption
  <2>2. Len(Verbs) = 0 => Turns = 0
    BY <1>2, SentencesAssumption DEF Turns
  <2> QED
    BY <1>1, <2>1, <2>2
<1>6. v \in DOMAIN Verbs
  <2>1. PICK long \in Nat \ {0} : long = Len(Verbs) /\ DOMAIN Verbs = 1 .. long
    BY <1>5, SentencesAssumption
  <2>2. PICK i \in Nat \ {0} : i = inner
    BY <1>4
  <2>3. turn \div i \in Nat
    BY <1>1
  <2>4. (turn \div i) % long \in 0 .. (long - 1)
    BY <2>3
  <2> QED
    BY <2>1, <2>2, <2>4
<1>7. shown \in Conjugated(Verbs[v])
  BY DEF Conjugated
<1>8. latest' = template_1(pronouns[k], Verbs[v], shown)
                  \o template_2(pronouns[k], Verbs[v], shown)
                  \o template_3(Verbs[v], shown) \o template_4(Verbs[v], shown)
  BY DEF AllTemplates, Prints
<1> HIDE DEF k, v, shown
<1>9. latest' \in Seq(RightSentences)
  BY <1>3, <1>6, <1>7, <1>8, TemplatesAreRight, ConcatProperties
<1> QED
  BY <1>1, <1>9 DEF GenInv

LEMMA RandomSentenceInv == GenInv /\ generate_random_sentence => GenInv'
<1> SUFFICES ASSUME GenInv, generate_random_sentence PROVE GenInv'
  OBVIOUS
<1>1. turn \in Nat /\ turn' = turn + 1
  BY DEF generate_random_sentence, GenInv
<1>2. PICK v \in DOMAIN Verbs, k \in DOMAIN pronouns :
        \/ Prints(template_1(pronouns[k], Verbs[v], synthesis_conjugate(Verbs[v])))
        \/ Prints(template_2(pronouns[k], Verbs[v], synthesis_conjugate(Verbs[v])))
        \/ Prints(template_3(Verbs[v], synthesis_conjugate(Verbs[v])))
        \/ Prints(template_4(Verbs[v], synthesis_conjugate(Verbs[v])))
  BY DEF generate_random_sentence
<1>3. synthesis_conjugate(Verbs[v]) \in Conjugated(Verbs[v])
  BY DEF Conjugated
<1>4. latest' \in Seq(RightSentences)
  BY <1>2, <1>3, TemplatesAreRight DEF Prints
<1> QED
  BY <1>1, <1>4 DEF GenInv

LEMMA GenNextInv == GenInv /\ [GenNext]_genVars => GenInv'
<1> SUFFICES ASSUME GenInv, [GenNext]_genVars PROVE GenInv'
  OBVIOUS
<1>1. CASE UNCHANGED genVars
  BY <1>1 DEF genVars, GenInv
<1>2. CASE StartGenerator \/ EndOfLoops
  BY <1>2 DEF StartGenerator, EndOfLoops, GenInv
<1> QED
  BY <1>1, <1>2, AllTemplatesInv, RandomSentenceInv DEF GenNext, GenCompute

LEMMA GenInvProves == GenInv => VerbFits /\ Agreement
<1> SUFFICES ASSUME GenInv, NEW s \in DOMAIN latest
             PROVE  /\ latest[s].shown # latest[s].verb => Len(latest[s].shown) + 1 <= OUT_SIZE
                    /\ IF latest[s].subject \in {"He", "She", "name"}
                       THEN \A t \in DOMAIN ThirdPerson :
                              latest[s].verb = ThirdPerson[t].verb =>
                                latest[s].shown = ThirdPerson[t].third
                       ELSE latest[s].shown = latest[s].verb
  BY Zenon DEF VerbFits, Agreement
<1>1. PICK r \in RightSentences : r = latest[s]
  BY DEF GenInv
<1>2. IF r.subject \in Singular THEN r.shown \in Conjugated(r.verb) ELSE r.shown = r.verb
  BY DEF RightSentences
<1>3. r.verb \in Seq(Alphabet)
  BY VerbsAreSpelled DEF RightSentences
<1>4. r.shown # r.verb => Len(r.shown) + 1 <= OUT_SIZE
  BY <1>2, <1>3, ConjugatedFits
<1>5. ASSUME NEW t \in DOMAIN ThirdPerson, r.subject \in Singular, r.verb = ThirdPerson[t].verb
      PROVE  r.shown = ThirdPerson[t].third
  BY <1>2, <1>5, ThirdPersonIsRight, ConjugatedUncut
<1> QED
  BY <1>1, <1>2, <1>4, <1>5, Zenon DEF Singular

-----------------------------------------------------------------------------
(* The tokens of a line.                                                   *)

Least2(x, y) == IF x <= y THEN x ELSE y

LEMMA MinOfTwo ==
  ASSUME NEW x \in Int, NEW y \in Int
  PROVE  Min({x, y}) = Least2(x, y)
<1>1. Least2(x, y) \in {x, y} /\ \A z \in {x, y} : Least2(x, y) <= z
  BY DEF Least2
<1>2. \A z \in {x, y} : (\A w \in {x, y} : z <= w) => z = Least2(x, y)
  BY DEF Least2
<1> QED
  BY <1>1, <1>2 DEF Min

\* A line of a file, and how many of its fields have begun by a place.
Text == Seq(Nat \ {NUL})
Rank(text, k) == Cardinality(StartsUpTo(text, k))

LEMMA StartsFacts ==
  ASSUME NEW text \in Text
  PROVE  /\ Len(text) \in Nat /\ InFields(text) \subseteq 1 .. Len(text)
         /\ FieldStarts(text) \subseteq InFields(text)
         /\ \A k \in FieldStarts(text) : k - 1 \notin InFields(text)
         /\ IsFiniteSet(FieldStarts(text))
         /\ \A k \in 1 .. Len(text) : text[k] \in Nat /\ text[k] # NUL
                                      /\ (k \in InFields(text) <=> text[k] # delim)
<1>1. Len(text) \in Nat /\ DOMAIN text = 1 .. Len(text)
      /\ \A k \in 1 .. Len(text) : text[k] \in Nat /\ text[k] # NUL
  BY DEF Text
<1>2. InFields(text) \subseteq 1 .. Len(text) /\ FieldStarts(text) \subseteq InFields(text)
  BY <1>1 DEF InFields, FieldStarts
<1>3. IsFiniteSet(1 .. Len(text))
  BY <1>1, FS_Interval
<1>4. IsFiniteSet(FieldStarts(text))
  BY <1>2, <1>3, FS_Subset
<1> QED
  BY <1>1, <1>2, <1>4 DEF InFields, FieldStarts

LEMMA RankFacts ==
  ASSUME NEW text \in Text, NEW k \in Nat
  PROVE  /\ IsFiniteSet(StartsUpTo(text, k)) /\ Rank(text, k) \in Nat
         /\ Rank(text, 0) = 0
         /\ k >= Len(text) => StartsUpTo(text, k) = FieldStarts(text)
         /\ k \in FieldStarts(text) => Rank(text, k) >= 1
<1>1. IsFiniteSet(FieldStarts(text)) /\ StartsUpTo(text, k) \subseteq FieldStarts(text)
      /\ FieldStarts(text) \subseteq 1 .. Len(text) /\ Len(text) \in Nat
  BY StartsFacts DEF StartsUpTo
<1>2. IsFiniteSet(StartsUpTo(text, k))
  BY <1>1, FS_Subset
<1>3. Rank(text, k) \in Nat
  BY <1>2, FS_CardinalityType DEF Rank
<1>4. StartsUpTo(text, 0) = {}
  BY <1>1 DEF StartsUpTo
<1>5. Rank(text, 0) = 0
  BY <1>4, FS_EmptySet DEF Rank
<1>6. k >= Len(text) => StartsUpTo(text, k) = FieldStarts(text)
  BY <1>1 DEF StartsUpTo
<1>7. k \in FieldStarts(text) => k \in StartsUpTo(text, k)
  BY DEF StartsUpTo
<1>8. k \in FieldStarts(text) => Rank(text, k) # 0
  BY <1>2, <1>7, FS_EmptySet DEF Rank
<1> QED
  BY <1>2, <1>3, <1>5, <1>6, <1>8

LEMMA RankGrows ==
  ASSUME NEW text \in Text, NEW k \in Nat, NEW m \in Nat, k <= m
  PROVE  /\ Rank(text, k) <= Rank(text, m)
         /\ (\A j \in (k + 1) .. m : j \notin FieldStarts(text)) => Rank(text, k) = Rank(text, m)
         /\ \A j \in (k + 1) .. m : j \in FieldStarts(text)
              /\ (\A i \in (k + 1) .. m : i # j => i \notin FieldStarts(text))
              => Rank(text, m) = Rank(text, k) + 1
         /\ m \in FieldStarts(text) /\ k < m => Rank(text, k) < Rank(text, m)
<1>1. IsFiniteSet(StartsUpTo(text, k)) /\ IsFiniteSet(StartsUpTo(text, m))
      /\ Rank(text, k) \in Nat /\ Rank(text, m) \in Nat
      /\ FieldStarts(text) \subseteq Nat
  BY RankFacts, StartsFacts
<1>2. StartsUpTo(text, k) \subseteq StartsUpTo(text, m)
  BY <1>1 DEF StartsUpTo
<1>3. Rank(text, k) <= Rank(text, m)
  BY <1>1, <1>2, FS_Subset DEF Rank
<1>4. ASSUME \A j \in (k + 1) .. m : j \notin FieldStarts(text)
      PROVE  Rank(text, k) = Rank(text, m)
  <2>1. StartsUpTo(text, k) = StartsUpTo(text, m)
    BY <1>1, <1>4 DEF StartsUpTo
  <2> QED
    BY <2>1 DEF Rank
<1>5. ASSUME NEW j \in (k + 1) .. m, j \in FieldStarts(text),
             \A i \in (k + 1) .. m : i # j => i \notin FieldStarts(text)
      PROVE  Rank(text, m) = Rank(text, k) + 1
  <2>1. StartsUpTo(text, m) = StartsUpTo(text, k) \cup {j} /\ j \notin StartsUpTo(text, k)
    BY <1>1, <1>5 DEF StartsUpTo
  <2> QED
    BY <1>1, <2>1, FS_AddElement DEF Rank
<1>6. ASSUME m \in FieldStarts(text), k < m PROVE Rank(text, k) # Rank(text, m)
  <2>1. m \in StartsUpTo(text, m) /\ m \notin StartsUpTo(text, k)
    BY <1>6 DEF StartsUpTo
  <2> QED
    BY <1>1, <1>2, <2>1, FS_Subset DEF Rank
<1> QED
  BY <1>1, <1>3, <1>4, <1>5, <1>6

\* A field ends where the delimiter that follows it says.
LEMMA FieldEndIs ==
  ASSUME NEW text \in Text, NEW k \in InFields(text), NEW j \in InFields(text), k <= j,
         k .. j \subseteq InFields(text), j + 1 \notin InFields(text)
  PROVE  FieldEnd(text, k) = j
<1>1. InFields(text) \subseteq Nat
  BY StartsFacts
<1>2. ASSUME NEW i \in InFields(text), k <= i, k .. i \subseteq InFields(text),
             i + 1 \notin InFields(text)
      PROVE  i = j
  <2>1. i < j => i + 1 \in k .. j
    BY <1>1, <1>2
  <2>2. j < i => j + 1 \in k .. i
    BY <1>1, <1>2
  <2> QED
    BY <1>1, <1>2, <2>1, <2>2
<1> QED
  BY <1>2 DEF FieldEnd

\* The field that begins at k of text is in buf at pos, with its terminator.
IsAt(buf, text, pos, k) ==
  LET long == FieldEnd(text, k) - k + 1
  IN  /\ pos \in Nat \ {0} /\ long \in Nat \ {0} /\ pos + long <= Len(buf)
      /\ FieldEnd(text, k) \in Nat
      /\ k + long - 1 <= Len(text)
      /\ buf[pos + long] = NUL
      /\ \A j \in 0 .. (long - 1) : buf[pos + j] = text[k + j]

\* The fields that begin in the first i characters of text, as many as there is
\* room for, are in buf, where toks says.
FieldsKept(text, buf, toks, i) ==
  /\ Len(buf) <= i
  /\ Len(toks) = Least2(Rank(text, i), max_tokens_size)
  /\ \A k \in FieldStarts(text) : k <= i /\ Rank(text, k) <= max_tokens_size =>
       IsAt(buf, text, toks[Rank(text, k)], k)
  /\ \A r \in 1 .. Rank(text, i) :
       \E k \in FieldStarts(text) : k <= i /\ Rank(text, k) = r

TokInv ==
  /\ scan \in {"idle", "scan", "done"}
  /\ str \in Text
  /\ idx \in 1 .. (Len(str) + 1) /\ start \in 1 .. (Len(str) + 2)
  /\ buffer \in Seq(Nat \cup {NUL}) /\ tokens \in Seq(Nat)
  /\ scan = "scan" => /\ start <= idx /\ start .. (idx - 1) \subseteq InFields(str)
                      /\ start - 1 \notin InFields(str)
  /\ scan = "done" => start = Len(str) + 2
  /\ FieldsKept(str, buffer, tokens, start - 1)

LEMMA NothingYet ==
  ASSUME NEW text \in Text
  PROVE  /\ Len(text) \in Nat /\ 0 \notin InFields(text)
         /\ FieldsKept(text, <<>>, <<>>, 1 - 1)
<1>1. Len(text) \in Nat /\ Rank(text, 0) = 0 /\ FieldStarts(text) \subseteq 1 .. Len(text)
      /\ InFields(text) \subseteq 1 .. Len(text)
  BY StartsFacts, RankFacts
<1>2. Least2(0, max_tokens_size) = 0
  BY TokenizerAssumption DEF Least2
<1>3. Len(<<>>) = 0 /\ 1 - 1 = 0
  OBVIOUS
<1>4. \A k \in FieldStarts(text) : ~(k <= 0)
  BY <1>1
<1> QED
  BY <1>1, <1>2, <1>3, <1>4 DEF FieldsKept

LEMMA TokInitInv == TokInit => TokInv
<1> SUFFICES ASSUME TokInit PROVE TokInv
  OBVIOUS
<1>1. <<>> \in Text /\ Len(<<>>) = 0
  BY DEF Text
<1>2. /\ scan = "idle" /\ str = <<>> /\ idx = 1 /\ start = 1 /\ buffer = <<>> /\ tokens = <<>>
  BY DEF TokInit
<1> QED
  BY <1>1, <1>2, NothingYet DEF TokInv

LEMMA BeginTokensInv ==
  ASSUME NEW text \in Text, BeginTokens(text)
  PROVE  TokInv'
<1>1. /\ scan' = "scan" /\ str' = text /\ idx' = 1 /\ start' = 1
      /\ buffer' = <<>> /\ tokens' = <<>>
  BY DEF BeginTokens
<1>2. FieldsKept(str', buffer', tokens', start' - 1)
  BY <1>1, NothingYet
<1>3. start' .. (idx' - 1) \subseteq InFields(str') /\ start' - 1 \notin InFields(str')
  BY <1>1, NothingYet
<1>4. idx' \in 1 .. (Len(str') + 1) /\ start' \in 1 .. (Len(str') + 2)
  BY <1>1, NothingYet
<1> QED
  BY <1>1, <1>2, <1>3, <1>4 DEF TokInv

\* What is written behind what the buffer holds leaves that as it is.
Grown(buf, text, i, j) == buf \o SubSeq(text, i, j) \o <<NUL>>
HasGrown(grown, buf, text, i, j) ==
  /\ grown \in Seq(Nat \cup {NUL}) /\ Len(grown) = Len(buf) + (j - i + 1) + 1
  /\ Len(buf) \in Nat
  /\ \A m \in 1 .. Len(buf) : grown[m] = buf[m]
  /\ \A m \in 0 .. (j - i) : grown[Len(buf) + 1 + m] = text[i + m]
  /\ grown[Len(buf) + 1 + (j - i + 1)] = NUL
LEMMA BufferGrows ==
  ASSUME NEW text \in Text, NEW buf \in Seq(Nat \cup {NUL}), NEW i \in 1 .. Len(text),
         NEW j \in i .. Len(text), NEW grown, grown = Grown(buf, text, i, j)
  PROVE  HasGrown(grown, buf, text, i, j)
<1> DEFINE field == SubSeq(text, i, j)
           both == buf \o field
<1>1. Len(text) \in Nat /\ \A m \in 1 .. Len(text) : text[m] \in Nat \cup {NUL}
  BY StartsFacts
<1>2. field \in Seq(Nat \cup {NUL}) /\ Len(field) = j - i + 1
      /\ \A m \in 1 .. (j - i + 1) : field[m] = text[i + m - 1]
  <2>1. \A m \in i .. j : text[m] \in Nat \cup {NUL}
    BY <1>1
  <2>2. i \in Int /\ j \in Int /\ i <= j
    BY <1>1
  <2> QED
    BY <2>1, <2>2, SubSeqProperties
<1> HIDE DEF field
<1>3. both \in Seq(Nat \cup {NUL}) /\ Len(both) = Len(buf) + Len(field) /\ Len(buf) \in Nat
      /\ \A m \in 1 .. Len(buf) + Len(field) :
           both[m] = IF m <= Len(buf) THEN buf[m] ELSE field[m - Len(buf)]
  <2>1. Len(buf) \in Nat
    OBVIOUS
  <2> QED
    BY <1>2, <2>1, ConcatProperties
<1> HIDE DEF both
<1>4. <<NUL>> \in Seq(Nat \cup {NUL}) /\ Len(<<NUL>>) = 1 /\ <<NUL>>[1] = NUL
  OBVIOUS
<1>5. grown \in Seq(Nat \cup {NUL}) /\ Len(grown) = Len(both) + 1
      /\ \A m \in 1 .. Len(both) + 1 :
           grown[m] = IF m <= Len(both) THEN both[m] ELSE <<NUL>>[m - Len(both)]
  BY <1>3, <1>4, ConcatProperties DEF both, field, Grown
<1>6. i \in Nat /\ j \in Nat /\ i <= j
  BY <1>1
<1>7. PICK l \in Nat : l = Len(buf)
  BY <1>3
<1>8. Len(both) = l + (j - i + 1) /\ Len(grown) = l + (j - i + 1) + 1
  BY <1>2, <1>3, <1>5, <1>7
<1>9. ASSUME NEW m \in 1 .. l PROVE grown[m] = buf[m]
  <2>1. m \in 1 .. l + (j - i + 1) /\ m \in 1 .. l + (j - i + 1) + 1
    BY <1>6
  <2> QED
    BY <1>2, <1>3, <1>5, <1>7, <1>8, <2>1
<1>10. ASSUME NEW m \in 0 .. (j - i) PROVE grown[l + 1 + m] = text[i + m]
  <2>1. /\ l + 1 + m \in 1 .. l + (j - i + 1) /\ l + 1 + m \in 1 .. l + (j - i + 1) + 1
        /\ m + 1 \in 1 .. (j - i + 1) /\ (l + 1 + m) - l = m + 1 /\ i + (m + 1) - 1 = i + m
        /\ ~(l + 1 + m <= l) /\ l + 1 + m <= l + (j - i + 1)
    BY <1>6
  <2>2. grown[l + 1 + m] = both[l + 1 + m]
    BY <1>5, <1>8, <2>1
  <2>3. both[l + 1 + m] = field[m + 1]
    BY <1>2, <1>3, <1>7, <2>1
  <2> QED
    BY <1>2, <2>1, <2>2, <2>3
<1>11. grown[l + 1 + (j - i + 1)] = NUL
  <2>1. /\ l + 1 + (j - i + 1) \in 1 .. l + (j - i + 1) + 1
        /\ (l + 1 + (j - i + 1)) - (l + (j - i + 1)) = 1
        /\ ~(l + 1 + (j - i + 1) <= l + (j - i + 1))
    BY <1>6
  <2> QED
    BY <1>4, <1>5, <1>8, <2>1
<1> QED
  BY <1>5, <1>7, <1>8, <1>9, <1>10, <1>11 DEF HasGrown

LEMMA IsAtStays ==
  ASSUME NEW text \in Text, NEW buf \in Seq(Nat \cup {NUL}), NEW grown \in Seq(Nat \cup {NUL}),
         Len(grown) >= Len(buf), \A m \in 1 .. Len(buf) : grown[m] = buf[m],
         NEW pos, NEW k \in Nat, IsAt(buf, text, pos, k)
  PROVE  IsAt(grown, text, pos, k)
<1>1. PICK long \in Nat \ {0} : long = FieldEnd(text, k) - k + 1
  BY DEF IsAt
<1>2. pos \in Nat \ {0} /\ pos + long <= Len(buf) /\ Len(buf) \in Nat /\ Len(grown) \in Nat
  BY <1>1 DEF IsAt
<1>3. pos + long \in 1 .. Len(buf) /\ \A j \in 0 .. (long - 1) : pos + j \in 1 .. Len(buf)
  BY <1>2
<1>4. /\ k + long - 1 <= Len(text) /\ FieldEnd(text, k) \in Nat
      /\ buf[pos + long] = NUL
      /\ \A j \in 0 .. (long - 1) : buf[pos + j] = text[k + j]
  BY <1>1 DEF IsAt
<1>5. pos + long <= Len(grown) /\ grown[pos + long] = NUL
  BY <1>2, <1>3, <1>4
<1>6. \A j \in 0 .. (long - 1) : grown[pos + j] = text[k + j]
  BY <1>3, <1>4
<1> QED
  BY <1>1, <1>2, <1>4, <1>5, <1>6 DEF IsAt

\* The end of a token that is not empty, or is.
LEMMA OneFieldMore ==
  ASSUME NEW text \in Text, NEW s \in 1 .. (Len(text) + 1), NEW i \in 1 .. (Len(text) + 1),
         s <= i, s .. (i - 1) \subseteq InFields(text), s - 1 \notin InFields(text),
         i \notin InFields(text)
  PROVE  /\ s < i => /\ s \in FieldStarts(text) /\ FieldEnd(text, s) = i - 1
                     /\ Rank(text, s) = Rank(text, s - 1) + 1
                     /\ Rank(text, i) = Rank(text, s - 1) + 1
         /\ s = i => Rank(text, i) = Rank(text, s - 1)
         /\ \A k \in FieldStarts(text) : k <= i => k <= s - 1 \/ (k = s /\ s < i)
<1>1. Len(text) \in Nat /\ s \in Nat /\ i \in Nat /\ s - 1 \in Nat
      /\ FieldStarts(text) \subseteq InFields(text)
      /\ InFields(text) \subseteq Nat
      /\ \A k \in FieldStarts(text) : k - 1 \notin InFields(text)
  BY StartsFacts
<1>2. ASSUME s < i PROVE s \in FieldStarts(text)
  <2>1. s \in InFields(text)
    BY <1>1, <1>2
  <2> QED
    BY <2>1 DEF FieldStarts
<1>3. ASSUME s < i PROVE FieldEnd(text, s) = i - 1
  <2>1. s \in InFields(text) /\ i - 1 \in InFields(text) /\ s <= i - 1 /\ (i - 1) + 1 = i
    BY <1>1, <1>3
  <2> QED
    BY <2>1, FieldEndIs
<1>4. ASSUME NEW j \in FieldStarts(text), j \in s .. i PROVE j = s /\ s < i
  <2>1. j # i
    BY <1>1
  <2>2. j # s => j - 1 \in s .. (i - 1)
    BY <1>1, <1>4
  <2> QED
    BY <1>1, <1>4, <2>1, <2>2
<1>5. ASSUME s < i
      PROVE  Rank(text, s) = Rank(text, s - 1) + 1 /\ Rank(text, i) = Rank(text, s - 1) + 1
  <2>1. s \in ((s - 1) + 1) .. s /\ s \in ((s - 1) + 1) .. i /\ s - 1 <= s /\ s - 1 <= i
    BY <1>1, <1>5
  <2>2. \A j \in ((s - 1) + 1) .. i : j # s => j \notin FieldStarts(text)
    BY <1>1, <1>4
  <2>3. \A j \in ((s - 1) + 1) .. s : j # s => j \notin FieldStarts(text)
    BY <1>1
  <2> QED
    BY <1>1, <1>2, <1>5, <2>1, <2>2, <2>3, RankGrows
<1>6. ASSUME s = i PROVE Rank(text, i) = Rank(text, s - 1)
  <2>1. \A j \in ((s - 1) + 1) .. i : j \notin FieldStarts(text)
    BY <1>1, <1>4, <1>6
  <2> QED
    BY <1>1, <1>6, <2>1, RankGrows
<1>7. ASSUME NEW k \in FieldStarts(text), k <= i PROVE k <= s - 1 \/ (k = s /\ s < i)
  <2>1. k \in Nat /\ (k <= s - 1 \/ k \in s .. i)
    BY <1>1, <1>7
  <2> QED
    BY <1>4, <2>1
<1> QED
  BY <1>2, <1>3, <1>5, <1>6, <1>7

LEMMA TokenizeInv == TokInv /\ tokenize_by_space => TokInv'
<1> SUFFICES ASSUME TokInv, tokenize_by_space PROVE TokInv'
  OBVIOUS
<1>0. PICK text \in Text, buf \in Seq(Nat \cup {NUL}), toks \in Seq(Nat) :
        text = str /\ buf = buffer /\ toks = tokens
  BY DEF TokInv
<1>1. PICK i \in 1 .. (Len(text) + 1), s \in 1 .. (Len(text) + 1) :
        text = str /\ buf = buffer /\ toks = tokens /\ i = idx /\ s = start /\ s <= i
  <2>1. scan = "scan" /\ start <= idx /\ start \in 1 .. (Len(str) + 2)
        /\ idx \in 1 .. (Len(str) + 1)
    BY DEF tokenize_by_space, TokInv
  <2>2. Len(text) \in Nat
    BY StartsFacts
  <2>3. start \in 1 .. (Len(text) + 1)
    BY <1>0, <2>1, <2>2
  <2> QED
    BY <1>0, <2>1, <2>3
<1>2. /\ Len(text) \in Nat /\ i \in Nat /\ s \in Nat /\ s - 1 \in Nat
      /\ InFields(text) \subseteq 1 .. Len(text) /\ FieldStarts(text) \subseteq InFields(text)
      /\ \A k \in 1 .. Len(text) : k \in InFields(text) <=> text[k] # delim
  BY StartsFacts
<1>3. /\ s .. (i - 1) \subseteq InFields(text) /\ s - 1 \notin InFields(text)
      /\ FieldsKept(text, buf, toks, s - 1)
  BY <1>1 DEF TokInv, tokenize_by_space
<1>3a. /\ Len(buf) <= s - 1
       /\ Len(toks) = Least2(Rank(text, s - 1), max_tokens_size)
       /\ \A k \in FieldStarts(text) : k <= s - 1 /\ Rank(text, k) <= max_tokens_size =>
            IsAt(buf, text, toks[Rank(text, k)], k)
       /\ \A r \in 1 .. Rank(text, s - 1) :
            \E k \in FieldStarts(text) : k <= s - 1 /\ Rank(text, k) = r
  BY <1>3 DEF FieldsKept
<1>4. /\ scan = "scan" /\ str' = text
      /\ AtEnd <=> i > Len(text)
      /\ i > Len(text) => scan' = "done" /\ idx' = i
      /\ ~(i > Len(text)) => scan' = "scan" /\ idx' = i + 1
  BY <1>1 DEF tokenize_by_space, AtEnd
<1>5. CASE i \in InFields(text)
  <2>1. ~(i > Len(text)) /\ text[i] # delim
    BY <1>2, <1>5
  <2>2. buffer' = buf /\ tokens' = toks /\ start' = s /\ idx' = i + 1 /\ scan' = "scan"
    BY <1>1, <1>4, <2>1 DEF tokenize_by_space
  <2>3. s .. ((i + 1) - 1) \subseteq InFields(text)
    BY <1>2, <1>3, <1>3a, <1>5
  <2>4. i + 1 \in 1 .. (Len(text) + 1) /\ s <= i + 1
    BY <1>1, <1>2, <2>1
  <2>5. s \in 1 .. (Len(text) + 2)
    BY <1>2
  <2> QED
    BY <1>3, <1>3a, <1>4, <2>2, <2>3, <2>4, <2>5 DEF TokInv
<1>6. CASE i \notin InFields(text)
  <2> DEFINE field == SubSeq(text, s, i - 1)
             room == max_tokens_size
  <2>1. i > Len(text) \/ (i \in 1 .. Len(text) /\ text[i] = delim)
    BY <1>2, <1>6
  <2>2. /\ s < i => /\ s \in FieldStarts(text) /\ FieldEnd(text, s) = i - 1
                    /\ Rank(text, s) = Rank(text, s - 1) + 1
                    /\ Rank(text, i) = Rank(text, s - 1) + 1
        /\ s = i => Rank(text, i) = Rank(text, s - 1)
        /\ \A k \in FieldStarts(text) : k <= i => k <= s - 1 \/ (k = s /\ s < i)
    BY <1>1, <1>3, <1>6, OneFieldMore
  <2>3. start' = i + 1 /\ i + 1 \in 1 .. (Len(text) + 2) /\ (i + 1) - 1 = i
    BY <1>1, <1>2, <2>1 DEF tokenize_by_space, NextStart, AtEnd
  <2>4. /\ scan' \in {"scan", "done"}
        /\ scan' = "scan" => /\ start' = idx' /\ start' .. (idx' - 1) \subseteq InFields(text)
                             /\ start' - 1 \notin InFields(text)
        /\ scan' = "done" => start' = Len(text) + 2
        /\ idx' \in 1 .. (Len(text) + 1)
    BY <1>2, <1>4, <1>6, <2>3
  <2>5. field = <<>> <=> s = i
    <3>1. \A m \in s .. (i - 1) : text[m] \in Nat
      BY <1>2, StartsFacts
    <3>2. s < i => Len(field) = i - s
      BY <1>2, <3>1, SubSeqProperties
    <3>3. s = i => field = <<>>
      BY <1>2, SubSeqEmpty
    <3>4. Len(<<>>) = 0
      OBVIOUS
    <3> QED
      BY <1>1, <1>2, <3>2, <3>3, <3>4
  <2>6. IF field # <<>> /\ Len(toks) < room
        THEN tokens' = Append(toks, Len(buf) + 1) /\ buffer' = buf \o field \o <<NUL>>
        ELSE tokens' = toks /\ buffer' = buf
    BY <1>1, <2>1 DEF tokenize_by_space, AtEnd
  <2> HIDE DEF field, room
  <2>7. room \in Nat \ {0} /\ Rank(text, s - 1) \in Nat
    BY <1>2, TokenizerAssumption, RankFacts DEF room
  <2>10. /\ scan' \in {"idle", "scan", "done"} /\ str' \in Text
         /\ idx' \in 1 .. (Len(str') + 1) /\ start' \in 1 .. (Len(str') + 2)
         /\ scan' = "scan" => /\ start' <= idx' /\ start' .. (idx' - 1) \subseteq InFields(str')
                              /\ start' - 1 \notin InFields(str')
         /\ scan' = "done" => start' = Len(str') + 2
    <3>1. PICK next \in Nat : next = i + 1
      BY <1>2
    <3>2. start' = next
      BY <2>3, <3>1
    <3>3. scan' = "scan" => idx' = next
      BY <2>4, <3>2
    <3>4. next <= next
      BY <3>1
    <3>5. scan' = "scan" => start' <= idx'
      BY <3>2, <3>3, <3>4
    <3>6. start' \in 1 .. (Len(text) + 2)
      BY <2>3
    <3>7. scan' \in {"idle", "scan", "done"}
      BY <2>4
    <3> QED
      BY <1>4, <2>4, <3>5, <3>6, <3>7, Zenon
  <2>8. CASE s < i /\ Len(toks) < room
    <3>1. /\ tokens' = Append(toks, Len(buf) + 1) /\ buffer' = buf \o field \o <<NUL>>
      BY <1>2, <2>5, <2>6, <2>8
    <3>2. s \in 1 .. Len(text) /\ i - 1 \in s .. Len(text)
      BY <1>2, <2>8
    <3>3. PICK grown \in Seq(Nat \cup {NUL}), l \in Nat :
             /\ grown = buffer' /\ l = Len(buf) /\ Len(grown) = l + (i - s) + 1
             /\ \A m \in 1 .. l : grown[m] = buf[m]
             /\ \A m \in 0 .. (i - s - 1) : grown[l + 1 + m] = text[s + m]
             /\ grown[l + 1 + (i - s)] = NUL
      <4>1. PICK last \in s .. Len(text) : last = i - 1
        BY <3>2
      <4>2. last - s = i - s - 1 /\ last - s + 1 = i - s
        BY <1>2, <4>1
      <4>3. PICK g : g = Grown(buf, text, s, last)
        OBVIOUS
      <4>4. /\ g \in Seq(Nat \cup {NUL}) /\ Len(g) = Len(buf) + (last - s + 1) + 1
            /\ Len(buf) \in Nat
            /\ \A m \in 1 .. Len(buf) : g[m] = buf[m]
            /\ \A m \in 0 .. (last - s) : g[Len(buf) + 1 + m] = text[s + m]
            /\ g[Len(buf) + 1 + (last - s + 1)] = NUL
        <5>1. text \in Text /\ buf \in Seq(Nat \cup {NUL}) /\ s \in 1 .. Len(text) /\ last \in s .. Len(text)
          BY <3>2
        <5>2. HasGrown(g, buf, text, s, last)
          BY <5>1, <4>3, BufferGrows
        <5> QED
          BY <5>2 DEF HasGrown
      <4>5. buffer' = g
        BY <3>1, <4>1, <4>3 DEF field, Grown
      <4> QED
        BY <4>2, <4>4, <4>5
    <3>4. PICK more \in Seq(Nat), c \in Nat :
            /\ more = tokens' /\ c = Len(toks) /\ Len(more) = c + 1
            /\ \A m \in 1 .. c : more[m] = toks[m]
            /\ more[c + 1] = l + 1
      <4>1. l + 1 \in Nat /\ Len(toks) \in Nat
        OBVIOUS
      <4>2. PICK elt \in Nat : elt = l + 1 /\ tokens' = Append(toks, elt)
        BY <3>1, <3>3, <4>1
      <4>3. /\ Append(toks, elt) \in Seq(Nat) /\ Len(Append(toks, elt)) = Len(toks) + 1
            /\ \A m \in 1 .. Len(toks) : Append(toks, elt)[m] = toks[m]
            /\ Append(toks, elt)[Len(toks) + 1] = elt
        BY AppendProperties
      <4> QED
        BY <4>1, <4>2, <4>3
    <3>5. c = Rank(text, s - 1) /\ c < room
      BY <1>3, <1>3a, <2>7, <2>8, <3>4 DEF Least2, room
    <3>6. Rank(text, i) = c + 1 /\ Rank(text, s) = c + 1
      BY <2>2, <2>8, <3>5
    <3>7. Len(more) = Least2(Rank(text, i), max_tokens_size)
      BY <2>7, <3>4, <3>5, <3>6 DEF Least2, room
    <3>8. Len(grown) <= i
      BY <1>2, <1>3, <1>3a, <3>3
    <3>9. IsAt(grown, text, l + 1, s)
      <4> DEFINE long == i - s
      <4>1. FieldEnd(text, s) - s + 1 = long /\ FieldEnd(text, s) \in Nat
        BY <1>2, <2>2, <2>8
      <4>2. long \in Nat \ {0} /\ (l + 1) + long <= Len(grown) /\ s + long - 1 <= Len(text)
        BY <1>2, <2>8, <3>2, <3>3
      <4>3. grown[(l + 1) + long] = NUL /\ \A j \in 0 .. (long - 1) : grown[(l + 1) + j] = text[s + j]
        BY <3>3
      <4>4. l + 1 \in Nat \ {0}
        OBVIOUS
      <4> HIDE DEF long
      <4> QED
        BY <4>1, <4>2, <4>3, <4>4 DEF IsAt
    <3>10. ASSUME NEW k \in FieldStarts(text), k <= i, Rank(text, k) <= max_tokens_size
           PROVE  IsAt(grown, text, more[Rank(text, k)], k)
      <4>1. CASE k = s
        BY <3>4, <3>6, <3>9, <4>1
      <4>2. CASE k # s
        <5>1. k <= s - 1 /\ k \in Nat
          BY <1>2, <2>2, <3>10, <4>2
        <5>2. Rank(text, k) \in 1 .. c
          BY <1>2, <3>5, <5>1, RankFacts, RankGrows
        <5>3. IsAt(buf, text, toks[Rank(text, k)], k)
          BY <1>3, <1>3a, <3>10, <5>1
        <5>4. Len(grown) >= Len(buf) /\ \A m \in 1 .. Len(buf) : grown[m] = buf[m]
          BY <2>8, <3>3
        <5>5. IsAt(grown, text, toks[Rank(text, k)], k)
          BY <5>1, <5>3, <5>4, IsAtStays
        <5> QED
          BY <3>4, <5>2, <5>5
      <4> QED
        BY <4>1, <4>2
    <3>11. ASSUME NEW r \in 1 .. Rank(text, i)
           PROVE  \E k \in FieldStarts(text) : k <= i /\ Rank(text, k) = r
      <4>1. CASE r = c + 1
        <5>1. s \in FieldStarts(text) /\ s <= i
          BY <1>2, <2>2, <2>8
        <5> QED
          BY <3>6, <4>1, <5>1
      <4>2. CASE r # c + 1
        <5>1. r \in 1 .. Rank(text, s - 1)
          <6>1. r \in 1 .. (c + 1)
            BY <3>6
          <6> QED
            BY <3>5, <4>2, <6>1
        <5>2. PICK k \in FieldStarts(text) : k <= s - 1 /\ Rank(text, k) = r
          BY <1>3, <1>3a, <5>1
        <5>3. k <= i
          BY <1>1, <1>2, <5>2
        <5> QED
          BY <5>2, <5>3
      <4> QED
        BY <4>1, <4>2
    <3>12. start' - 1 = i /\ buffer' = grown /\ tokens' = more /\ str' = text /\ start' = i + 1
      BY <1>4, <2>3, <3>3, <3>4
    <3>13. FieldsKept(text, grown, more, i)
      BY <3>7, <3>8, <3>10, <3>11 DEF FieldsKept
    <3>14. FieldsKept(str', buffer', tokens', start' - 1)
      BY <3>12, <3>13
    <3> QED
      BY <2>10, <3>12, <3>14 DEF TokInv
  <2>9. CASE ~(s < i /\ Len(toks) < room)
    <3>1. tokens' = toks /\ buffer' = buf
      BY <1>1, <1>2, <2>5, <2>6, <2>9
    <3>2. Len(buf) \in Nat /\ Len(toks) \in Nat
      OBVIOUS
    <3>3. Len(buf) <= i
      BY <1>1, <1>2, <1>3, <1>3a, <3>2
    <3>4. Len(toks) = Least2(Rank(text, i), max_tokens_size)
      BY <1>1, <1>2, <1>3, <1>3a, <2>2, <2>7, <2>9 DEF Least2, room
    <3>5. s < i => ~(Rank(text, s) <= max_tokens_size)
      BY <1>3, <1>3a, <2>2, <2>7, <2>9 DEF Least2, room
    <3>6. ASSUME NEW k \in FieldStarts(text), k <= i, Rank(text, k) <= max_tokens_size
          PROVE  IsAt(buf, text, toks[Rank(text, k)], k)
      BY <1>3, <1>3a, <2>2, <3>5, <3>6
    <3>7. ASSUME NEW r \in 1 .. Rank(text, i)
          PROVE  \E k \in FieldStarts(text) : k <= i /\ Rank(text, k) = r
      <4>1. CASE r \in 1 .. Rank(text, s - 1)
        <5>1. PICK k \in FieldStarts(text) : k <= s - 1 /\ Rank(text, k) = r
          BY <1>3, <1>3a, <4>1
        <5>2. k <= i
          BY <1>1, <1>2, <5>1
        <5> QED
          BY <5>1, <5>2
      <4>2. CASE r \notin 1 .. Rank(text, s - 1)
        <5>1. s < i /\ r = Rank(text, s)
          BY <1>1, <1>2, <2>2, <2>7, <4>2
        <5>2. s \in FieldStarts(text) /\ s <= i
          BY <1>2, <2>2, <5>1
        <5> QED
          BY <5>1, <5>2
      <4> QED
        BY <4>1, <4>2
    <3>8. start' - 1 = i /\ str' = text /\ start' = i + 1
      BY <1>4, <2>3
    <3>9. FieldsKept(text, buf, toks, i)
      BY <3>3, <3>4, <3>6, <3>7 DEF FieldsKept
    <3>10. FieldsKept(str', buffer', tokens', start' - 1)
      BY <3>1, <3>8, <3>9
    <3> QED
      BY <2>10, <3>1, <3>10 DEF TokInv
  <2> QED
    BY <2>8, <2>9
<1> QED
  BY <1>5, <1>6

LEMMA TokUnchangedInv ==
  TokInv /\ UNCHANGED <<str, idx, start, buffer, tokens>> /\ scan' \in {"idle", scan} => TokInv'
  BY DEF TokInv

\* What the pointers point to.
LEMMA PointsTo ==
  ASSUME NEW text \in Text, NEW buf \in Seq(Nat \cup {NUL}), NEW pos,
         NEW k \in Nat \ {0}, IsAt(buf, text, pos, k)
  PROVE  LET end == Min({j \in pos .. Len(buf) : buf[j] = NUL})
         IN  SubSeq(buf, pos, end - 1) = SubSeq(text, k, FieldEnd(text, k))
             /\ SubSeq(text, k, FieldEnd(text, k)) \in Text
<1>1. PICK long \in Nat \ {0} : long = FieldEnd(text, k) - k + 1
  BY DEF IsAt
<1>2. /\ pos \in Nat \ {0} /\ pos + long <= Len(buf) /\ Len(buf) \in Nat
      /\ k + long - 1 <= Len(text) /\ buf[pos + long] = NUL
      /\ \A j \in 0 .. (long - 1) : buf[pos + j] = text[k + j]
  BY <1>1 DEF IsAt
<1>3. /\ Len(text) \in Nat /\ \A j \in 1 .. Len(text) : text[j] \in Nat /\ text[j] # NUL
  BY StartsFacts
<1> DEFINE nuls == {j \in pos .. Len(buf) : buf[j] = NUL}
<1>4. pos + long \in nuls
  BY <1>2
<1>5. \A j \in 0 .. (long - 1) : buf[pos + j] # NUL /\ buf[pos + j] \in Nat
  <2>1. \A j \in 0 .. (long - 1) : k + j \in 1 .. Len(text)
    BY <1>2, <1>3
  <2> QED
    BY <1>2, <1>3, <2>1
<1>6. \A j \in nuls : pos + long <= j
  <2> SUFFICES ASSUME NEW j \in nuls, j < pos + long PROVE FALSE
    BY <1>2
  <2>1. j - pos \in 0 .. (long - 1) /\ pos + (j - pos) = j
    BY <1>2
  <2> QED
    BY <1>5, <2>1
<1>7. Min(nuls) = pos + long
  <2>1. nuls \subseteq Int
    BY <1>2
  <2>2. pos + long \in Int
    BY <1>2
  <2> HIDE DEF nuls
  <2>3. \A x \in nuls : (\A y \in nuls : x <= y) => x = pos + long
    BY <1>4, <1>6, <2>1, <2>2
  <2> QED
    BY <1>4, <1>6, <2>3 DEF Min
<1>8. /\ SubSeq(buf, pos, pos + long - 1) \in Seq(Nat) /\ Len(SubSeq(buf, pos, pos + long - 1)) = long
      /\ \A j \in 1 .. long : SubSeq(buf, pos, pos + long - 1)[j] = buf[pos + j - 1]
  <2>1. \A j \in pos .. (pos + long - 1) : buf[j] \in Nat
    <3> SUFFICES ASSUME NEW j \in pos .. (pos + long - 1) PROVE buf[j] \in Nat
      OBVIOUS
    <3>1. j - pos \in 0 .. (long - 1) /\ pos + (j - pos) = j
      BY <1>2
    <3> QED
      BY <1>5, <3>1
  <2>2. pos \in Int /\ pos + long - 1 \in Int /\ pos <= pos + long - 1
        /\ (pos + long - 1) - pos + 1 = long
    <3>1. pos \in Nat \ {0} /\ long \in Nat \ {0}
      BY <1>2
    <3> QED
      BY ONLY <3>1
  <2> QED
    BY <2>1, <2>2, SubSeqProperties
<1>9. /\ SubSeq(text, k, k + long - 1) \in Text
      /\ Len(SubSeq(text, k, k + long - 1)) = long
      /\ \A j \in 1 .. long : SubSeq(text, k, k + long - 1)[j] = text[k + j - 1]
  <2>1. \A j \in k .. (k + long - 1) : text[j] \in Nat \ {NUL}
    BY <1>2, <1>3
  <2>2. k \in Int /\ k + long - 1 \in Int /\ k <= k + long - 1
        /\ (k + long - 1) - k + 1 = long
    OBVIOUS
  <2> QED
    BY <2>1, <2>2, SubSeqProperties DEF Text
<1>10. SubSeq(buf, pos, pos + long - 1) = SubSeq(text, k, k + long - 1)
  <2> DEFINE s1 == SubSeq(buf, pos, pos + long - 1)
             s2 == SubSeq(text, k, k + long - 1)
  <2>1. \A j \in 1 .. long : s1[j] = s2[j]
    <3> SUFFICES ASSUME NEW j \in 1 .. long PROVE s1[j] = s2[j]
      OBVIOUS
    <3>1. j - 1 \in 0 .. (long - 1) /\ pos + (j - 1) = pos + j - 1 /\ k + (j - 1) = k + j - 1
      BY <1>2
    <3> QED
      BY <1>2, <1>8, <1>9, <3>1
  <2>2. s1 \in Seq(Nat) /\ s2 \in Seq(Nat) /\ Len(s1) = long /\ Len(s2) = long
    <3>1. Nat \ {NUL} \subseteq Nat
      OBVIOUS
    <3> QED
      BY <1>8, <1>9, <3>1, SeqMonotonic DEF Text
  <2> HIDE DEF s1, s2
  <2>3. s1 = s2
    BY <2>1, <2>2, SeqEqual
  <2> QED
    BY <2>3 DEF s1, s2
<1>11. FieldEnd(text, k) = k + long - 1
  <2>1. FieldEnd(text, k) \in Int
    BY DEF IsAt
  <2> QED
    BY <1>1, <2>1
<1>12. (pos + long) - 1 = pos + long - 1
  BY <1>2
<1> HIDE DEF nuls
<1>13. SubSeq(buf, pos, Min(nuls) - 1) = SubSeq(text, k, FieldEnd(text, k))
  BY <1>7, <1>10, <1>11, <1>12
<1>14. SubSeq(text, k, FieldEnd(text, k)) \in Text
  BY <1>9, <1>11
<1> QED
  BY <1>13, <1>14 DEF nuls

\* There are as many fields as places where one begins, in that order.
LEMMA FieldsFacts ==
  ASSUME NEW text \in Text
  PROVE  /\ Cardinality(FieldStarts(text)) \in Nat
         /\ DOMAIN Fields(text) = 1 .. Cardinality(FieldStarts(text))
         /\ Len(Fields(text)) = Cardinality(FieldStarts(text))
         /\ \A k \in FieldStarts(text) :
              /\ Rank(text, k) \in 1 .. Cardinality(FieldStarts(text))
              /\ Fields(text)[Rank(text, k)] = SubSeq(text, k, FieldEnd(text, k))
<1> DEFINE size == Cardinality(FieldStarts(text))
           begin(f) == CHOOSE j \in FieldStarts(text) : Cardinality(StartsUpTo(text, j)) = f
           field(f) == SubSeq(text, begin(f), FieldEnd(text, begin(f)))
           all == [f \in 1 .. size |-> field(f)]
<1>1. size \in Nat /\ FieldStarts(text) \subseteq 1 .. Len(text) /\ Len(text) \in Nat
      /\ IsFiniteSet(FieldStarts(text))
  BY StartsFacts, FS_CardinalityType
<1>2. Fields(text) = all
  BY DEF Fields
<1>3. ASSUME NEW k \in FieldStarts(text)
      PROVE  Rank(text, k) \in 1 .. size /\ begin(Rank(text, k)) = k
  <2>1. k \in Nat /\ k <= Len(text)
    BY <1>1
  <2>2. Rank(text, k) \in Nat /\ Rank(text, k) >= 1
    BY <2>1, RankFacts
  <2>3. Rank(text, Len(text)) = size
    BY <1>1, RankFacts DEF Rank
  <2>4. Rank(text, k) <= size
    BY <1>1, <2>1, <2>3, RankGrows
  <2>5. ASSUME NEW j \in FieldStarts(text), Rank(text, j) = Rank(text, k) PROVE j = k
    <3>1. j \in Nat
      BY <1>1
    <3>2. Rank(text, j) \in Nat
      BY <3>1, RankFacts
    <3>3. j < k => Rank(text, j) < Rank(text, k)
      BY <2>1, <3>1, RankGrows
    <3>4. k < j => Rank(text, k) < Rank(text, j)
      BY <2>1, <3>1, RankGrows
    <3> QED
      BY <2>1, <2>2, <2>5, <3>1, <3>2, <3>3, <3>4
  <2>6. begin(Rank(text, k)) = k
    BY <2>5 DEF Rank
  <2> QED
    BY <1>1, <2>2, <2>4, <2>6
<1> HIDE DEF begin, size
<1>4. ASSUME NEW k \in FieldStarts(text)
      PROVE  all[Rank(text, k)] = SubSeq(text, k, FieldEnd(text, k))
  BY <1>3
<1> DEFINE Set == {field(f) : f \in 1 .. size}
<1>5. all \in [1 .. size -> Set] /\ DOMAIN all = 1 .. size
  OBVIOUS
<1> HIDE DEF all, Set
<1>6. Len(all) = size
  BY <1>1, <1>5, FunctionIsSeq
<1> QED
  BY <1>1, <1>2, <1>3, <1>4, <1>5, <1>6 DEF size

LEMMA FirstFields ==
  ASSUME NEW text \in Text
  PROVE  /\ Least2(Cardinality(FieldStarts(text)), max_tokens_size) \in 0 .. max_tokens_size
         /\ Len(FirstOf(Fields(text))) = Least2(Cardinality(FieldStarts(text)), max_tokens_size)
         /\ DOMAIN FirstOf(Fields(text)) = 1 .. Least2(Cardinality(FieldStarts(text)), max_tokens_size)
         /\ \A r \in 1 .. Least2(Cardinality(FieldStarts(text)), max_tokens_size) :
              FirstOf(Fields(text))[r] = Fields(text)[r]
         /\ LET firsts == FirstOf(Fields(text)) IN firsts = [r \in DOMAIN firsts |-> firsts[r]]
<1>1. PICK size \in Nat : size = Cardinality(FieldStarts(text))
  BY FieldsFacts
<1>2. PICK room \in Nat \ {0} : room = max_tokens_size
  BY TokenizerAssumption
<1>3. PICK many \in Nat : many = Least2(size, room)
  BY DEF Least2
<1>4. many <= room /\ many <= size
  BY <1>3 DEF Least2
<1> DEFINE all == Fields(text)
           Set == {all[r] : r \in 1 .. size}
<1>5. FirstOf(all) = SubSeq(all, 1, many)
  <2>1. Len(all) = size
    BY <1>1, FieldsFacts
  <2>2. Min({size, room}) = many
    BY <1>3, MinOfTwo
  <2> HIDE DEF all
  <2> QED
    BY <1>2, <2>1, <2>2 DEF FirstOf
<1>6. \A r \in 1 .. many : all[r] \in Set
  BY <1>4
<1> HIDE DEF all, Set
<1>7. /\ SubSeq(all, 1, many) \in Seq(Set) /\ Len(SubSeq(all, 1, many)) = many
      /\ \A r \in 1 .. many : SubSeq(all, 1, many)[r] = all[r]
  <2>1. /\ SubSeq(all, 1, many) \in Seq(Set)
        /\ Len(SubSeq(all, 1, many)) = IF 1 <= many THEN many - 1 + 1 ELSE 0
        /\ \A r \in 1 .. many - 1 + 1 : SubSeq(all, 1, many)[r] = all[1 + r - 1]
    BY <1>6, SubSeqProperties
  <2> QED
    BY <2>1
<1>8. DOMAIN SubSeq(all, 1, many) = 1 .. many
  BY <1>7
<1>9. SubSeq(all, 1, many)
        = [r \in DOMAIN SubSeq(all, 1, many) |-> SubSeq(all, 1, many)[r]]
  BY <1>7
<1> QED
  BY <1>1, <1>2, <1>3, <1>4, <1>5, <1>7, <1>8, <1>9 DEF all

\* What the pointers point to when the whole line has been read.
Pointed(buf, toks) ==
  [t \in DOMAIN toks |->
     LET end == Min({j \in toks[t] .. Len(buf) : buf[j] = NUL})
     IN  SubSeq(buf, toks[t], end - 1)]

LEMMA AllFields ==
  ASSUME NEW text \in Text, NEW buf \in Seq(Nat \cup {NUL}), NEW toks \in Seq(Nat),
         FieldsKept(text, buf, toks, Len(text) + 1)
  PROVE  /\ Pointed(buf, toks) = FirstOf(Fields(text))
         /\ FirstOf(Fields(text)) \in Seq(Text)
<1>1. PICK size \in Nat : size = Cardinality(FieldStarts(text))
  BY FieldsFacts
<1>2. PICK many \in Nat : many = Least2(size, max_tokens_size)
  BY <1>1, TokenizerAssumption DEF Least2
<1>3. many <= max_tokens_size /\ many <= size
  BY <1>2, TokenizerAssumption DEF Least2
<1>4. Len(text) \in Nat /\ FieldStarts(text) \subseteq 1 .. Len(text)
  BY StartsFacts
<1>5. Rank(text, Len(text) + 1) = size
  <2>1. Len(text) + 1 \in Nat /\ Len(text) + 1 >= Len(text)
    BY <1>4
  <2>2. StartsUpTo(text, Len(text) + 1) = FieldStarts(text)
    BY <2>1, RankFacts
  <2> QED
    BY <1>1, <2>2 DEF Rank
<1>6. Len(toks) = many /\ DOMAIN toks = 1 .. many
  <2>1. Len(toks) = many
    BY <1>2, <1>5 DEF FieldsKept
  <2> QED
    BY <2>1
<1> DEFINE firsts == FirstOf(Fields(text))
           got == Pointed(buf, toks)
<1>7. DOMAIN firsts = 1 .. many /\ Len(firsts) = many
      /\ \A r \in 1 .. many : firsts[r] = Fields(text)[r]
  BY <1>1, <1>2, FirstFields
<1>8. DOMAIN got = 1 .. many
  BY <1>6 DEF Pointed
<1>9. ASSUME NEW r \in 1 .. many
      PROVE  got[r] = firsts[r] /\ got[r] \in Text
  <2>1. PICK k \in FieldStarts(text) : Rank(text, k) = r
    BY <1>3, <1>5 DEF FieldsKept
  <2>2. k <= Len(text) + 1 /\ r <= max_tokens_size /\ k \in Nat \ {0}
    BY <1>3, <1>4, TokenizerAssumption
  <2>3. IsAt(buf, text, toks[r], k)
    BY <2>1, <2>2 DEF FieldsKept
  <2>4. LET end == Min({j \in toks[r] .. Len(buf) : buf[j] = NUL})
        IN  SubSeq(buf, toks[r], end - 1) = SubSeq(text, k, FieldEnd(text, k))
            /\ SubSeq(text, k, FieldEnd(text, k)) \in Text
    BY <2>2, <2>3, PointsTo
  <2>5. got[r] = SubSeq(text, k, FieldEnd(text, k)) /\ SubSeq(text, k, FieldEnd(text, k)) \in Text
    BY <1>6, <2>4 DEF Pointed
  <2>6. Fields(text)[r] = SubSeq(text, k, FieldEnd(text, k))
    BY <2>1, FieldsFacts
  <2> QED
    BY <1>7, <2>5, <2>6
<1>10. got = [r \in DOMAIN got |-> got[r]]
  BY DEF Pointed
<1>11. firsts = [r \in DOMAIN firsts |-> firsts[r]]
  BY FirstFields DEF firsts
<1> HIDE DEF firsts, got
<1>12. got = firsts
  BY <1>7, <1>8, <1>9, <1>10, <1>11
<1>13. got \in [1 .. many -> Text]
  BY <1>8, <1>9, <1>10
<1> QED
  BY <1>12, <1>13, FunctionIsSeq DEF firsts, got

\* The tokens that are handed out, and the room they take.
LEMMA TokensRead ==
  ASSUME TokInv
  PROVE  /\ BufferFits
         /\ Len(tokens) \in 0 .. max_tokens_size
         /\ scan = "done" => /\ Tokens = FirstOf(Fields(str))
                             /\ Tokens \in Seq(Text) /\ Len(Tokens) = Len(tokens)
<1>1. /\ str \in Text /\ buffer \in Seq(Nat \cup {NUL}) /\ tokens \in Seq(Nat)
      /\ start \in 1 .. (Len(str) + 2)
      /\ FieldsKept(str, buffer, tokens, start - 1)
      /\ scan = "done" => start = Len(str) + 2
  BY DEF TokInv
<1>2. Len(str) \in Nat /\ Len(buffer) \in Nat
  BY <1>1
<1>3. BufferFits
  <2>1. Len(buffer) <= start - 1
    BY <1>1 DEF FieldsKept
  <2> QED
    BY <1>1, <1>2, <2>1 DEF BufferFits
<1>4. Len(tokens) \in 0 .. max_tokens_size
  <2>1. start - 1 \in Nat
    BY <1>1, <1>2
  <2>2. PICK r \in Nat : r = Rank(str, start - 1)
    BY <1>1, <2>1, RankFacts
  <2>3. Len(tokens) = Least2(r, max_tokens_size)
    BY <1>1, <2>2 DEF FieldsKept
  <2> QED
    BY <2>3, TokenizerAssumption DEF Least2
<1>5. Tokens = Pointed(buffer, tokens)
  BY Zenon DEF Tokens, StringAt, Pointed
<1>6. ASSUME scan = "done"
      PROVE  /\ Tokens = FirstOf(Fields(str)) /\ Tokens \in Seq(Text) /\ Len(Tokens) = Len(tokens)
  <2>1. start - 1 = Len(str) + 1
    BY <1>1, <1>2, <1>6
  <2>2. FieldsKept(str, buffer, tokens, Len(str) + 1)
    BY <1>1, <2>1
  <2>3. Pointed(buffer, tokens) = FirstOf(Fields(str)) /\ FirstOf(Fields(str)) \in Seq(Text)
    BY <1>1, <2>2, AllFields
  <2>4. DOMAIN Tokens = DOMAIN tokens
    BY DEF Tokens
  <2>5. Tokens \in Seq(Text)
    BY <1>5, <2>3
  <2>6. Len(Tokens) = Len(tokens)
    BY <1>1, <2>4, <2>5, LenProperties
  <2> QED
    BY <1>5, <2>3, <2>5, <2>6
<1> QED
  BY <1>3, <1>4, <1>6

-----------------------------------------------------------------------------
(* The order of the words, and sorting.                                    *)

\* strcmp() orders strings strictly and totally.
LEMMA StringBeforeIsOrder ==
  ASSUME NEW u \in Seq(Nat), NEW v \in Seq(Nat), NEW w \in Seq(Nat)
  PROVE  /\ ~StringBefore(v, v)
         /\ StringBefore(u, v) /\ StringBefore(v, w) => StringBefore(u, w)
         /\ v # w => StringBefore(v, w) \/ StringBefore(w, v)
<1>1. ASSUME NEW x \in Seq(Nat)
      PROVE  /\ Len(x) \in Nat /\ DOMAIN x = 1 .. Len(x)
             /\ \A k \in DOMAIN x : x[k] \in Nat /\ k \in Nat /\ k >= 1 /\ k <= Len(x)
  OBVIOUS
<1>2. ~StringBefore(v, v)
  <2> SUFFICES ASSUME NEW k \in DOMAIN v, k <= Len(v) => v[k] < v[k] PROVE FALSE
    BY DEF StringBefore
  <2> QED
    BY <1>1
<1>3. ASSUME StringBefore(u, v), StringBefore(v, w) PROVE StringBefore(u, w)
  <2>1. PICK i \in DOMAIN v \cap (1 .. (Len(u) + 1)) :
          (i <= Len(u) => u[i] < v[i]) /\ \A m \in 1 .. (i - 1) : u[m] = v[m]
    BY <1>3 DEF StringBefore
  <2>2. PICK j \in DOMAIN w \cap (1 .. (Len(v) + 1)) :
          (j <= Len(v) => v[j] < w[j]) /\ \A m \in 1 .. (j - 1) : v[m] = w[m]
    BY <1>3 DEF StringBefore
  <2>3. /\ i \in Nat /\ j \in Nat /\ i >= 1 /\ j >= 1
        /\ i <= Len(v) /\ j <= Len(w) /\ i <= Len(u) + 1 /\ j <= Len(v) + 1
        /\ Len(u) \in Nat /\ Len(v) \in Nat /\ Len(w) \in Nat
    BY <1>1
  <2>4. CASE i <= j
    <3>1. i \in DOMAIN w \cap (1 .. (Len(u) + 1))
      BY <1>1, <2>3, <2>4
    <3>2. \A m \in 1 .. (i - 1) : u[m] = w[m]
      BY <2>1, <2>2, <2>3, <2>4
    <3>3. v[i] <= w[i]
      <4>1. v[i] \in Nat /\ w[i] \in Nat
        BY <1>1, <3>1
      <4>2. i < j => i \in 1 .. (j - 1)
        BY <2>3
      <4> QED
        BY <2>2, <2>3, <2>4, <4>1, <4>2
    <3>4. ASSUME i <= Len(u) PROVE u[i] < w[i]
      <4>1. u[i] \in Nat /\ v[i] \in Nat /\ w[i] \in Nat
        BY <1>1, <2>3, <3>1, <3>4
      <4>2. u[i] < v[i]
        BY <2>1, <3>4
      <4> QED
        <5> PICK x \in Nat, y \in Nat, z \in Nat : x = u[i] /\ y = v[i] /\ z = w[i]
          BY <4>1
        <5>1. x < y /\ y <= z
          BY <3>3, <4>2
        <5>2. x < z
          BY ONLY <5>1, x \in Nat, y \in Nat, z \in Nat
        <5> QED
          BY <5>2
    <3> QED
      BY <3>1, <3>2, <3>4 DEF StringBefore
  <2>5. CASE j < i
    <3>1. j \in DOMAIN w \cap (1 .. (Len(u) + 1)) /\ j \in 1 .. (i - 1) /\ j <= Len(v)
      BY <1>1, <2>3, <2>5
    <3>2. \A m \in 1 .. (j - 1) : u[m] = w[m]
      BY <2>1, <2>2, <2>3, <2>5
    <3>3. u[j] = v[j] /\ v[j] < w[j]
      BY <2>1, <2>2, <3>1
    <3> QED
      BY <3>1, <3>2, <3>3 DEF StringBefore
  <2> QED
    BY <2>3, <2>4, <2>5
<1>4. ASSUME v # w PROVE StringBefore(v, w) \/ StringBefore(w, v)
  <2> DEFINE Same(m) == m \in DOMAIN v /\ m \in DOMAIN w /\ v[m] = w[m]
             T == {m \in Nat \ {0} : ~Same(m)}
  <2>1. T # {}
    <3>1. Len(v) + 1 \in Nat \ {0} /\ ~(Len(v) + 1 \in DOMAIN v)
      BY <1>1
    <3>2. Len(v) + 1 \in T
      BY <3>1
    <3> QED
      BY <3>2
  <2>2. PICK k \in T : \A m \in T : k <= m
    BY <2>1, LeastNumber
  <2>3. k \in Nat /\ k >= 1
    OBVIOUS
  <2>4. \A m \in 1 .. (k - 1) : Same(m)
    <3> SUFFICES ASSUME NEW m \in 1 .. (k - 1), m \in T PROVE FALSE
      BY <2>3
    <3> QED
      BY <2>2, <2>3
  <2>5. k <= Len(v) + 1 /\ k <= Len(w) + 1
    <3>1. CASE k = 1
      BY <1>1, <3>1
    <3>2. CASE k # 1
      <4>1. Same(k - 1)
        BY <2>3, <2>4, <3>2
      <4> QED
        BY <1>1, <2>3, <4>1
    <3> QED
      BY <3>1, <3>2
  <2>6. CASE k \in DOMAIN v /\ k \in DOMAIN w
    <3>1. v[k] < w[k] \/ w[k] < v[k]
      BY <1>1, <2>6
    <3>2. k \in DOMAIN w \cap (1 .. (Len(v) + 1)) /\ k \in DOMAIN v \cap (1 .. (Len(w) + 1))
      BY <1>1, <2>3, <2>5, <2>6
    <3> QED
      BY <2>4, <3>1, <3>2 DEF StringBefore
  <2>7. CASE k \notin DOMAIN v /\ k \in DOMAIN w
    <3>1. ~(k <= Len(v)) /\ k \in DOMAIN w \cap (1 .. (Len(v) + 1))
      BY <1>1, <2>3, <2>5, <2>7
    <3> QED
      BY <2>4, <3>1 DEF StringBefore
  <2>8. CASE k \in DOMAIN v /\ k \notin DOMAIN w
    <3>1. ~(k <= Len(w)) /\ k \in DOMAIN v \cap (1 .. (Len(w) + 1))
      BY <1>1, <2>3, <2>5, <2>8
    <3> QED
      BY <2>4, <3>1 DEF StringBefore
  <2>9. CASE k \notin DOMAIN v /\ k \notin DOMAIN w
    <3>1. Len(v) = k - 1 /\ Len(w) = k - 1
      BY <1>1, <2>3, <2>5, <2>9
    <3>2. \A m \in 1 .. Len(v) : v[m] = w[m]
      BY <2>4, <3>1
    <3>3. v = w
      BY <3>1, <3>2, SeqEqual
    <3> QED
      BY <1>4, <3>3
  <2> QED
    BY <2>6, <2>7, <2>8, <2>9
<1> QED
  BY <1>2, <1>3, <1>4

\* The entries of a table: each word once.
Tables ==
  {t \in Seq([word : Seq(Nat), count : Nat]) :
     \A i, j \in DOMAIN t : t[i].word = t[j].word => i = j}

\* qsort() has an order to put a table of distinct words into: by how many
\* entries come before.
LEMMA QsortFacts ==
  ASSUME NEW t \in Tables
  PROVE  /\ \E p1 \in Bijection(DOMAIN t, DOMAIN t) : qsort(t) = [k \in DOMAIN t |-> t[p1[k]]]
         /\ \A i, j \in DOMAIN t : i < j => ~compare_wordcount(qsort(t)[j], qsort(t)[i])
<1> DEFINE Less(i, j) == compare_wordcount(t[i], t[j])
           Size == Len(t)
           D == 1 .. Size
           Lesser(i) == {j \in D : Less(j, i)}
           rank == [i \in D |-> Cardinality(Lesser(i)) + 1]
<1>1. /\ Size \in Nat /\ DOMAIN t = D /\ D \subseteq Nat
      /\ \A i \in D : t[i].word \in Seq(Nat) /\ t[i].count \in Nat
      /\ \A i, j \in D : i # j => t[i].word # t[j].word
  <2>1. t \in Seq([word : Seq(Nat), count : Nat])
        /\ \A i, j \in DOMAIN t : t[i].word = t[j].word => i = j
    BY DEF Tables
  <2>2. Size \in Nat /\ DOMAIN t = D
    BY <2>1, LenProperties
  <2>3. ASSUME NEW i \in D PROVE t[i].word \in Seq(Nat) /\ t[i].count \in Nat
    <3>1. t[i] \in [word : Seq(Nat), count : Nat]
      BY <2>1, ElementOfSeq
    <3> QED
      BY <3>1
  <2>4. D \subseteq Nat
    OBVIOUS
  <2>5. \A i, j \in D : i # j => t[i].word # t[j].word
    BY <2>1, <2>2
  <2> QED
    BY <2>2, <2>3, <2>4, <2>5
<1>2. IsFiniteSet(D) /\ Cardinality(D) = Size
  BY <1>1, FS_Interval
<1> HIDE DEF Size
<1>3. ASSUME NEW i \in D, NEW j \in D, NEW k \in D
      PROVE  /\ ~Less(i, i) /\ (Less(i, j) /\ Less(j, k) => Less(i, k))
             /\ (i # j => Less(i, j) \/ Less(j, i))
  <2>1. ~Less(i, i)
    BY <1>1, StringBeforeIsOrder DEF compare_wordcount
  <2>2. Less(i, j) /\ Less(j, k) => Less(i, k)
    BY <1>1, StringBeforeIsOrder DEF compare_wordcount
  <2>3. i # j => Less(i, j) \/ Less(j, i)
    <3>1. ASSUME i # j PROVE StringBefore(t[i].word, t[j].word) \/ StringBefore(t[j].word, t[i].word)
      BY <1>1, <3>1, StringBeforeIsOrder
    <3> QED
      BY <1>1, <3>1 DEF compare_wordcount
  <2> QED
    BY <2>1, <2>2, <2>3
<1> HIDE DEF Less
<1>4. ASSUME NEW i \in D
      PROVE  /\ IsFiniteSet(Lesser(i)) /\ Cardinality(Lesser(i)) \in Nat
             /\ Cardinality(Lesser(i)) < Size
  <2>1. Lesser(i) \subseteq D /\ i \notin Lesser(i)
    BY <1>3
  <2>2. IsFiniteSet(Lesser(i)) /\ Cardinality(Lesser(i)) <= Size /\ Cardinality(Lesser(i)) # Size
    BY <1>2, <2>1, FS_Subset
  <2> QED
    BY <1>1, <2>2, FS_CardinalityType
<1>5. ASSUME NEW i \in D, NEW j \in D, Less(i, j) PROVE rank[i] < rank[j]
  <2>1. Lesser(i) \subseteq Lesser(j) /\ i \in Lesser(j) /\ i \notin Lesser(i)
    BY <1>3, <1>5
  <2>2. Cardinality(Lesser(i)) <= Cardinality(Lesser(j))
        /\ Cardinality(Lesser(i)) # Cardinality(Lesser(j))
    BY <1>4, <2>1, FS_Subset
  <2> QED
    BY <1>4, <2>2
<1> HIDE DEF Lesser
<1>6. rank \in [D -> D]
  <2> SUFFICES ASSUME NEW i \in D PROVE Cardinality(Lesser(i)) + 1 \in D
    OBVIOUS
  <2> QED
    BY <1>1, <1>4
<1> HIDE DEF rank, D
<1>7. rank \in Injection(D, D)
  <2>1. ASSUME NEW i \in D, NEW j \in D, rank[i] = rank[j] PROVE i = j
    <3>1. rank[i] \in Nat /\ rank[j] \in Nat
      BY <1>1, <1>6
    <3> QED
      BY <1>3, <1>5, <2>1, <3>1
  <2> QED
    BY <1>6, <2>1 DEF Injection, IsInjective
<1>8. rank \in Surjection(D, D)
  BY <1>2, <1>7, FS_Injection
<1> DEFINE order == [k \in D |-> CHOOSE i \in D : rank[i] = k]
<1>9. \A k \in D : order[k] \in D /\ rank[order[k]] = k
  BY <1>8 DEF Surjection
<1>10. order \in Bijection(D, D)
  <2>1. order \in [D -> D]
    BY <1>9
  <2>2. order \in Injection(D, D)
    BY <1>9, <2>1 DEF Injection, IsInjective
  <2>3. order \in Surjection(D, D)
    BY <1>2, <2>2, FS_Injection
  <2> QED
    BY <2>2, <2>3 DEF Bijection
<1>11. ASSUME NEW i \in D, NEW j \in D, i < j PROVE ~compare_wordcount(t[order[j]], t[order[i]])
  <2>1. ~Less(order[j], order[i])
    <3>1. order[i] \in D /\ order[j] \in D /\ rank[order[i]] = i /\ rank[order[j]] = j
      BY <1>9
    <3>2. i \in Nat /\ j \in Nat
      BY <1>1
    <3>3. ~(j < i)
      BY ONLY <1>11, <3>2
    <3>4. Less(order[j], order[i]) => rank[order[j]] < rank[order[i]]
      BY <1>5, <3>1
    <3> QED
      BY <3>1, <3>3, <3>4
  <2> QED
    BY <2>1 DEF Less
<1> HIDE DEF order
<1> DEFINE Right(p1) == \A i, j \in DOMAIN t : i < j => ~compare_wordcount(t[p1[j]], t[p1[i]])
           chosen == CHOOSE p1 \in Bijection(DOMAIN t, DOMAIN t) : Right(p1)
<1>12. chosen \in Bijection(DOMAIN t, DOMAIN t) /\ Right(chosen)
  <2>1. order \in Bijection(DOMAIN t, DOMAIN t) /\ Right(order)
    BY <1>1, <1>10, <1>11
  <2> HIDE DEF Right
  <2> QED
    BY <2>1
<1>13. qsort(t) = [k \in DOMAIN t |-> t[chosen[k]]]
  BY DEF qsort
<1> HIDE DEF chosen
<1> QED
  BY <1>12, <1>13

-----------------------------------------------------------------------------
(* The table of the words.                                                 *)

Entries == [word : Seq(Nat), count : Nat]

LEMMA TableFacts ==
  ASSUME NEW t \in Tables
  PROVE  /\ t \in Seq(Entries) /\ Len(t) \in Nat /\ DOMAIN t = 1 .. Len(t)
         /\ \A i \in DOMAIN t : t[i] \in Entries /\ t[i].word \in Seq(Nat) /\ t[i].count \in Nat
         /\ \A i, j \in DOMAIN t : t[i].word = t[j].word => i = j
<1>1. t \in Seq(Entries) /\ \A i, j \in DOMAIN t : t[i].word = t[j].word => i = j
  BY DEF Tables, Entries
<1>2. Len(t) \in Nat /\ DOMAIN t = 1 .. Len(t)
  BY <1>1, LenProperties
<1>3. ASSUME NEW i \in DOMAIN t
      PROVE  t[i] \in Entries /\ t[i].word \in Seq(Nat) /\ t[i].count \in Nat
  <2>1. t[i] \in Entries
    BY <1>1, <1>2, ElementOfSeq
  <2> QED
    BY <2>1 DEF Entries
<1> QED
  BY <1>1, <1>2, <1>3

LEMMA OneCounted ==
  ASSUME NEW entry \in Entries
  PROVE  LET more == [entry EXCEPT !.count = @ + 1]
         IN  more \in Entries /\ more.word = entry.word /\ more.count = entry.count + 1
  BY DEF Entries

\* The places in P that have the word w.
Seen(P, f, w) == {x \in P : f[x] = w}

\* The table t of what has been counted at the places P, of which f says what
\* word is there.
Exact(t, P, f) ==
  /\ t \in Tables /\ Len(t) <= MAX_UNIQUE_WORDS
  /\ IsFiniteSet(P)
  /\ \A i \in DOMAIN t : /\ t[i].count = Cardinality(Seen(P, f, t[i].word))
                         /\ \E pl \in P : f[pl] = t[i].word
  /\ \/ \A pl \in P : \E i \in DOMAIN t : t[i].word = f[pl]
     \/ Len(t) = MAX_UNIQUE_WORDS

LEMMA NothingCounted ==
  ASSUME NEW f
  PROVE  Exact(<<>>, {}, f)
<1>1. <<>> \in Tables /\ Len(<<>>) = 0 /\ DOMAIN <<>> = {}
  BY DEF Tables
<1> QED
  BY <1>1, FS_EmptySet, SummaryAssumption DEF Exact

\* One place more.
SeenMore(P, pl, f, w) ==
  /\ IsFiniteSet(P \cup {pl})
  /\ w # f[pl] => Seen(P \cup {pl}, f, w) = Seen(P, f, w)
  /\ w = f[pl] => Cardinality(Seen(P \cup {pl}, f, w)) = Cardinality(Seen(P, f, w)) + 1

LEMMA OneMore ==
  ASSUME NEW P, IsFiniteSet(P), NEW pl, pl \notin P, NEW f, NEW w
  PROVE  SeenMore(P, pl, f, w)
<1> DEFINE Old == Seen(P, f, w)
           New == Seen(P \cup {pl}, f, w)
<1>1. IsFiniteSet(P \cup {pl})
  BY FS_AddElement
<1>2. IsFiniteSet(Old) /\ pl \notin Old
  <2>1. Old \subseteq P
    BY DEF Seen
  <2> QED
    BY <2>1, FS_Subset
<1>3. w = f[pl] => New = Old \cup {pl}
  BY DEF Seen
<1>4. Cardinality(Old \cup {pl}) = Cardinality(Old) + 1
  <2> HIDE DEF Old
  <2> QED
    BY <1>2, FS_AddElement
<1>5. w # f[pl] => New = Old
  BY DEF Seen
<1> HIDE DEF Old, New
<1>6. w = f[pl] => Cardinality(New) = Cardinality(Old) + 1
  BY <1>3, <1>4
<1> QED
  BY <1>1, <1>5, <1>6 DEF Old, New, SeenMore

\* A word that is in the table.
LEMMA CountKnown ==
  ASSUME NEW P, NEW f, NEW t, Exact(t, P, f), NEW pl, pl \notin P,
         NEW i \in DOMAIN t, t[i].word = f[pl],
         NEW t1, t1 = [t EXCEPT ![i] = [t[i] EXCEPT !.count = @ + 1]]
  PROVE  Exact(t1, P \cup {pl}, f)
<1>1. /\ t \in Seq(Entries) /\ Len(t) \in Nat /\ DOMAIN t = 1 .. Len(t)
      /\ \A j \in DOMAIN t : t[j] \in Entries /\ t[j].word \in Seq(Nat) /\ t[j].count \in Nat
      /\ \A j, k \in DOMAIN t : t[j].word = t[k].word => j = k
  BY TableFacts DEF Exact
<1> DEFINE entry == [t[i] EXCEPT !.count = @ + 1]
<1>2. entry \in Entries /\ entry.word = t[i].word /\ entry.count = t[i].count + 1
  BY <1>1, OneCounted
<1> HIDE DEF entry
<1>3. /\ t1 \in Seq(Entries) /\ Len(t1) = Len(t)
      /\ \A j \in 1 .. Len(t) : t1[j] = IF j = i THEN entry ELSE t[j]
  <2>1. i \in 1 .. Len(t) /\ t1 = [t EXCEPT ![i] = entry]
    BY <1>1 DEF entry
  <2> DEFINE g == [t EXCEPT ![i] = entry]
  <2>2. /\ g \in Seq(Entries) /\ Len(g) = Len(t)
        /\ \A j \in 1 .. Len(t) : g[j] = IF j = i THEN entry ELSE t[j]
    <3>1. t \in Seq(Entries) /\ i \in 1 .. Len(t) /\ entry \in Entries
      BY <1>1, <1>2, <2>1
    <3> QED
      BY <3>1, ExceptSeq
  <2> QED
    BY <2>1, <2>2
<1>4. DOMAIN t1 = DOMAIN t
  BY <1>1, <1>3, LenProperties
<1>5. \A j \in DOMAIN t : t1[j].word = t[j].word
  BY <1>1, <1>2, <1>3
<1>6. t1 \in Tables
  <2>1. \A j, k \in DOMAIN t1 : t1[j].word = t1[k].word => j = k
    BY <1>1, <1>4, <1>5
  <2> QED
    BY <1>3, <2>1 DEF Tables, Entries
<1>7. IsFiniteSet(P)
  BY DEF Exact
<1>8. ASSUME NEW j \in DOMAIN t
      PROVE  /\ t1[j].count = Cardinality(Seen(P \cup {pl}, f, t[j].word))
             /\ \E x \in P \cup {pl} : f[x] = t[j].word
  <2>1. t[j].count = Cardinality(Seen(P, f, t[j].word)) /\ \E x \in P : f[x] = t[j].word
    BY DEF Exact
  <2>2. CASE j = i
    <3>1. t1[j].count = t[j].count + 1
      BY <1>1, <1>2, <1>3, <2>2
    <3>2. Cardinality(Seen(P \cup {pl}, f, t[j].word))
            = Cardinality(Seen(P, f, t[j].word)) + 1
      <4>1. SeenMore(P, pl, f, t[j].word)
        BY <1>7, OneMore
      <4> QED
        BY <2>2, <4>1 DEF SeenMore
    <3> QED
      BY <2>1, <3>1, <3>2
  <2>3. CASE j # i
    <3>1. t1[j].count = t[j].count
      BY <1>1, <1>3, <2>3
    <3>2. t[j].word # f[pl]
      BY <1>1, <2>3
    <3>3. Seen(P \cup {pl}, f, t[j].word) = Seen(P, f, t[j].word)
      <4>1. SeenMore(P, pl, f, t[j].word)
        BY <1>7, OneMore
      <4> QED
        BY <3>2, <4>1 DEF SeenMore
    <3> QED
      BY <2>1, <3>1, <3>3
  <2> QED
    BY <2>2, <2>3
<1>9. \/ \A x \in P \cup {pl} : \E j \in DOMAIN t : t[j].word = f[x]
      \/ Len(t) = MAX_UNIQUE_WORDS
  BY DEF Exact
<1>10. IsFiniteSet(P \cup {pl}) /\ Len(t1) <= MAX_UNIQUE_WORDS
  BY <1>3, <1>7, FS_AddElement DEF Exact
<1> QED
  BY <1>3, <1>4, <1>5, <1>6, <1>8, <1>9, <1>10 DEF Exact

\* A word that is not, while there is room: what it is not in the table for is
\* that it has not been seen.
LEMMA CountNew ==
  ASSUME NEW P, NEW f, NEW t, Exact(t, P, f), NEW pl, pl \notin P, f[pl] \in Seq(Nat),
         \A i \in DOMAIN t : t[i].word # f[pl], Len(t) < MAX_UNIQUE_WORDS,
         NEW t1, t1 = Append(t, [word |-> f[pl], count |-> 1])
  PROVE  Exact(t1, P \cup {pl}, f)
<1>1. /\ t \in Seq(Entries) /\ Len(t) \in Nat /\ DOMAIN t = 1 .. Len(t)
      /\ \A j \in DOMAIN t : t[j] \in Entries /\ t[j].word \in Seq(Nat) /\ t[j].count \in Nat
      /\ \A j, k \in DOMAIN t : t[j].word = t[k].word => j = k
  BY TableFacts DEF Exact
<1> DEFINE entry == [word |-> f[pl], count |-> 1]
<1>2. entry \in Entries /\ entry.word = f[pl] /\ entry.count = 1
  BY DEF Entries
<1> HIDE DEF entry
<1>3. /\ t1 \in Seq(Entries) /\ Len(t1) = Len(t) + 1
      /\ \A j \in 1 .. Len(t) : t1[j] = t[j]
      /\ t1[Len(t) + 1] = entry
  <2>1. t1 = Append(t, entry)
    BY DEF entry
  <2> QED
    BY <1>1, <1>2, <2>1, AppendProperties
<1>4. DOMAIN t1 = DOMAIN t \cup {Len(t) + 1} /\ Len(t) + 1 \notin DOMAIN t
  <2>1. DOMAIN t1 = 1 .. (Len(t) + 1)
    BY <1>3, LenProperties
  <2> QED
    BY <1>1, <2>1
<1>5. \A j \in DOMAIN t : t1[j] = t[j]
  BY <1>1, <1>3
<1>6. t1 \in Tables
  <2>1. \A i, j \in DOMAIN t1 : t1[i].word = t1[j].word => i = j
    BY <1>1, <1>2, <1>3, <1>4, <1>5
  <2> QED
    BY <1>3, <2>1 DEF Tables, Entries
<1>7. IsFiniteSet(P) /\ \A x \in P : \E i \in DOMAIN t : t[i].word = f[x]
  BY DEF Exact
<1>8. ASSUME NEW j \in DOMAIN t
      PROVE  /\ t1[j].count = Cardinality(Seen(P \cup {pl}, f, t1[j].word))
             /\ \E x \in P \cup {pl} : f[x] = t1[j].word
  <2>1. t[j].count = Cardinality(Seen(P, f, t[j].word)) /\ \E x \in P : f[x] = t[j].word
    BY DEF Exact
  <2>2. Seen(P \cup {pl}, f, t[j].word) = Seen(P, f, t[j].word)
    <3>1. SeenMore(P, pl, f, t[j].word)
      BY <1>7, OneMore
    <3> QED
      BY <3>1 DEF SeenMore
  <2> QED
    BY <1>5, <2>1, <2>2
<1>9. /\ Cardinality(Seen(P \cup {pl}, f, f[pl])) = 1
      /\ \E x \in P \cup {pl} : f[x] = f[pl]
  <2>1. Seen(P, f, f[pl]) = {}
    BY <1>7 DEF Seen
  <2>2. Cardinality(Seen(P \cup {pl}, f, f[pl])) = Cardinality(Seen(P, f, f[pl])) + 1
    <3>1. SeenMore(P, pl, f, f[pl])
      BY <1>7, OneMore
    <3> QED
      BY <3>1 DEF SeenMore
  <2>3. Cardinality(Seen(P, f, f[pl])) = 0
    BY <2>1, FS_EmptySet
  <2> QED
    BY <2>2, <2>3
<1>10. \A j \in DOMAIN t1 :
         /\ t1[j].count = Cardinality(Seen(P \cup {pl}, f, t1[j].word))
         /\ \E x \in P \cup {pl} : f[x] = t1[j].word
  BY <1>2, <1>3, <1>4, <1>8, <1>9
<1>11. \A x \in P \cup {pl} : \E j \in DOMAIN t1 : t1[j].word = f[x]
  BY <1>2, <1>3, <1>4, <1>5, <1>7
<1>12. IsFiniteSet(P \cup {pl}) /\ Len(t1) <= MAX_UNIQUE_WORDS
  BY <1>1, <1>3, <1>7, FS_AddElement, SummaryAssumption
<1> QED
  BY <1>6, <1>10, <1>11, <1>12 DEF Exact

\* And when there is none.
LEMMA CountFull ==
  ASSUME NEW P, NEW f, NEW t, Exact(t, P, f), NEW pl, pl \notin P,
         \A i \in DOMAIN t : t[i].word # f[pl], ~(Len(t) < MAX_UNIQUE_WORDS)
  PROVE  Exact(t, P \cup {pl}, f)
<1>1. t \in Tables /\ Len(t) <= MAX_UNIQUE_WORDS /\ IsFiniteSet(P) /\ Len(t) \in Nat
  BY TableFacts DEF Exact
<1>2. Len(t) = MAX_UNIQUE_WORDS
  BY <1>1, SummaryAssumption
<1>3. ASSUME NEW j \in DOMAIN t
      PROVE  /\ t[j].count = Cardinality(Seen(P \cup {pl}, f, t[j].word))
             /\ \E x \in P \cup {pl} : f[x] = t[j].word
  <2>1. t[j].count = Cardinality(Seen(P, f, t[j].word)) /\ \E x \in P : f[x] = t[j].word
    BY DEF Exact
  <2>2. Seen(P \cup {pl}, f, t[j].word) = Seen(P, f, t[j].word)
    <3>1. SeenMore(P, pl, f, t[j].word)
      BY <1>1, OneMore
    <3> QED
      BY <3>1 DEF SeenMore
  <2> QED
    BY <2>1, <2>2
<1> QED
  BY <1>1, <1>2, <1>3, FS_AddElement DEF Exact

\* Sorting keeps what the table says.
LEMMA ExactSorted ==
  ASSUME NEW P, NEW f, NEW t, Exact(t, P, f)
  PROVE  /\ Exact(qsort(t), P, f) /\ Len(qsort(t)) = Len(t)
         /\ \A i, j \in DOMAIN qsort(t) : i < j => ~compare_wordcount(qsort(t)[j], qsort(t)[i])
<1>1. t \in Tables
  BY DEF Exact
<1>2. PICK p1 \in Bijection(DOMAIN t, DOMAIN t) : qsort(t) = [k \in DOMAIN t |-> t[p1[k]]]
  BY <1>1, QsortFacts
<1>3. /\ t \in Seq(Entries) /\ Len(t) \in Nat /\ DOMAIN t = 1 .. Len(t)
      /\ \A j \in DOMAIN t : t[j] \in Entries /\ t[j].word \in Seq(Nat) /\ t[j].count \in Nat
      /\ \A j, k \in DOMAIN t : t[j].word = t[k].word => j = k
  BY <1>1, TableFacts
<1>4. /\ \A k \in DOMAIN t : p1[k] \in DOMAIN t
      /\ \A j, k \in DOMAIN t : p1[j] = p1[k] => j = k
      /\ \A k \in DOMAIN t : \E j \in DOMAIN t : p1[j] = k
  BY DEF Bijection, Injection, Surjection, IsInjective
<1> DEFINE sorted == qsort(t)
<1>5. /\ DOMAIN sorted = DOMAIN t /\ \A k \in DOMAIN t : sorted[k] = t[p1[k]] /\ p1[k] \in DOMAIN t
      /\ sorted \in [1 .. Len(t) -> Entries]
  BY <1>2, <1>3, <1>4
<1>6. \A i, j \in DOMAIN t : i < j => ~compare_wordcount(sorted[j], sorted[i])
  BY <1>1, QsortFacts
<1> HIDE DEF sorted
<1>7. sorted \in Seq(Entries) /\ Len(sorted) = Len(t)
  BY <1>3, <1>5, FunctionIsSeq
<1>8. sorted \in Tables
  <2>1. ASSUME NEW i \in DOMAIN sorted, NEW j \in DOMAIN sorted, sorted[i].word = sorted[j].word
        PROVE  i = j
    <3>1. t[p1[i]].word = t[p1[j]].word /\ p1[i] \in DOMAIN t /\ p1[j] \in DOMAIN t
          /\ i \in DOMAIN t /\ j \in DOMAIN t
      BY <1>5, <2>1
    <3>2. p1[i] = p1[j]
      BY <1>3, <3>1
    <3> QED
      BY <1>4, <3>1, <3>2
  <2> QED
    BY <1>7, <2>1 DEF Tables, Entries
<1>9. \A j \in DOMAIN sorted :
        /\ sorted[j].count = Cardinality(Seen(P, f, sorted[j].word))
        /\ \E x \in P : f[x] = sorted[j].word
  <2> SUFFICES ASSUME NEW j \in DOMAIN t
               PROVE  /\ sorted[j].count = Cardinality(Seen(P, f, sorted[j].word))
                      /\ \E x \in P : f[x] = sorted[j].word
    BY <1>5
  <2>1. PICK k \in DOMAIN t : sorted[j] = t[k]
    BY <1>5
  <2>2. t[k].count = Cardinality(Seen(P, f, t[k].word)) /\ \E x \in P : f[x] = t[k].word
    BY DEF Exact
  <2> QED
    BY <2>1, <2>2
<1>10. \/ \A x \in P : \E j \in DOMAIN sorted : sorted[j].word = f[x]
       \/ Len(sorted) = MAX_UNIQUE_WORDS
  <2>1. CASE \A x \in P : \E j \in DOMAIN t : t[j].word = f[x]
    <3> SUFFICES ASSUME NEW x \in P PROVE \E j \in DOMAIN t : sorted[j].word = f[x]
      BY <1>5
    <3>1. PICK k \in DOMAIN t : t[k].word = f[x]
      BY <2>1
    <3>2. PICK j \in DOMAIN t : p1[j] = k
      BY <1>4
    <3> QED
      BY <1>5, <3>1, <3>2
  <2>2. CASE Len(t) = MAX_UNIQUE_WORDS
    BY <1>7, <2>2
  <2> QED
    BY <2>1, <2>2 DEF Exact
<1>11. Exact(sorted, P, f)
  BY <1>7, <1>8, <1>9, <1>10 DEF Exact
<1> QED
  BY <1>5, <1>6, <1>7, <1>11 DEF sorted

-----------------------------------------------------------------------------
(* Reading a file in parts, and the words of the parts.                    *)

LEMMA BeginningOf ==
  ASSUME NEW S, NEW t, NEW m \in Nat, \A k \in 1 .. m : t[k] \in S
  PROVE  /\ SubSeq(t, 1, m) \in Seq(S) /\ Len(SubSeq(t, 1, m)) = m
         /\ \A k \in 1 .. m : SubSeq(t, 1, m)[k] = t[k]
<1>1. /\ SubSeq(t, 1, m) \in Seq(S)
      /\ Len(SubSeq(t, 1, m)) = IF 1 <= m THEN m - 1 + 1 ELSE 0
      /\ \A k \in 1 .. m - 1 + 1 : SubSeq(t, 1, m)[k] = t[1 + k - 1]
  BY SubSeqProperties
<1> QED
  BY <1>1

\* From how many parts of a length there are to the length, and back.
LEMMA PartsOfLength ==
  ASSUME NEW long \in Nat, NEW size \in Nat \ {0}, NEW m \in Nat
  PROVE  /\ long \div size \in Nat
         /\ m <= long \div size <=> m * size <= long
         /\ m = long \div size <=> m * size <= long /\ long - m * size < size
<1> DEFINE quot == long \div size
           rest == long % size
<1>1. quot \in Int /\ rest \in 0 .. (size - 1) /\ long = size * quot + rest
  BY Division
<1> HIDE DEF quot, rest
<1>2. size * quot = quot * size
  BY <1>1
<1>3. quot \in Nat
  <2>1. ASSUME quot <= 0 - 1 PROVE FALSE
    <3>1. quot * size <= (0 - 1) * size
      BY <1>1, <2>1, ProductMonotone
    <3>2. (0 - 1) * size = 0 - size
      OBVIOUS
    <3>3. PICK prod \in Int : prod = quot * size
      BY <1>1
    <3> QED
      BY <1>1, <1>2, <3>1, <3>2, <3>3
  <2> QED
    BY <1>1, <2>1
<1>4. m <= quot => m * size <= quot * size
  BY <1>1, ProductMonotone
<1>5. quot + 1 <= m => (quot + 1) * size <= m * size
  BY <1>1, ProductMonotone
<1>6. m + 1 <= quot => (m + 1) * size <= quot * size
  BY <1>1, ProductMonotone
<1>7. (quot + 1) * size = quot * size + size /\ (m + 1) * size = m * size + size
  BY <1>1
<1>8. PICK u \in Int, v \in Int : u = quot * size /\ v = m * size
  BY <1>1
<1>9. m <= quot => v <= u
  BY <1>4, <1>8
<1>10. quot + 1 <= m => u + size <= v
  BY <1>5, <1>7, <1>8
<1>11. m + 1 <= quot => v + size <= u
  BY <1>6, <1>7, <1>8
<1>12. long = u + rest
  BY <1>1, <1>2, <1>8
<1>13. m <= quot <=> v <= long
  BY <1>1, <1>9, <1>10, <1>12
<1>14. m = quot <=> v <= long /\ long - v < size
  <2>1. m = quot => v = u
    BY <1>8
  <2>2. m = quot \/ m + 1 <= quot \/ quot + 1 <= m
    BY <1>1
  <2> QED
    BY <1>1, <1>10, <1>11, <1>12, <2>1, <2>2
<1> QED
  BY <1>3, <1>8, <1>13, <1>14 DEF quot

\* A file, and the parts that fgets() makes of it.
Files == Seq(Text)
PartsOf(file) == UNION {{l} \X (1 .. (Len(file[l]) \div LINE_SIZE + 1)) : l \in DOMAIN file}
PartOf(file, c) ==
  SubSeq(file[c[1]], (c[2] - 1) * LINE_SIZE + 1, Min({c[2] * LINE_SIZE, Len(file[c[1]])}))
UpToPart(file, c) == {b1 \in PartsOf(file) : b1[1] < c[1] \/ (b1[1] = c[1] /\ b1[2] <= c[2])}

\* Those that have been read when l and o are the line and the offset.
ReadParts(file, l, o) ==
  {c \in PartsOf(file) : c[1] < l \/ (c[1] = l /\ c[2] <= o \div LINE_SIZE)}
Position(file, l, o) ==
  /\ l \in 1 .. (Len(file) + 1)
  /\ \E m \in Nat : o = m * LINE_SIZE
  /\ l <= Len(file) => o <= Len(file[l])
  /\ l > Len(file) => o = 0

LEMMA PartsFacts ==
  ASSUME NEW file \in Files
  PROVE  /\ Len(file) \in Nat /\ DOMAIN file = 1 .. Len(file)
         /\ \A l \in 1 .. Len(file) : /\ file[l] \in Text /\ Len(file[l]) \in Nat
                                      /\ Len(file[l]) \div LINE_SIZE \in Nat
         /\ \A l, m : <<l, m>> \in PartsOf(file) <=>
                        l \in 1 .. Len(file) /\ m \in 1 .. (Len(file[l]) \div LINE_SIZE + 1)
         /\ \A c \in PartsOf(file) :
              /\ c = <<c[1], c[2]>> /\ c[1] \in 1 .. Len(file) /\ c[2] \in Nat \ {0}
              /\ c[2] <= Len(file[c[1]]) \div LINE_SIZE + 1
<1>1. Len(file) \in Nat /\ DOMAIN file = 1 .. Len(file)
  BY DEF Files
<1>2. ASSUME NEW l \in 1 .. Len(file)
      PROVE  file[l] \in Text /\ Len(file[l]) \in Nat /\ Len(file[l]) \div LINE_SIZE \in Nat
  <2>1. file[l] \in Text
    BY <1>1 DEF Files
  <2>2. Len(file[l]) \in Nat
    BY <2>1, StartsFacts
  <2> QED
    BY <2>1, <2>2, SummaryAssumption, PartsOfLength
<1>3. ASSUME NEW l, NEW m
      PROVE  <<l, m>> \in PartsOf(file) <=>
               l \in 1 .. Len(file) /\ m \in 1 .. (Len(file[l]) \div LINE_SIZE + 1)
  BY <1>1 DEF PartsOf
<1>4. ASSUME NEW c \in PartsOf(file)
      PROVE  /\ c = <<c[1], c[2]>> /\ c[1] \in 1 .. Len(file) /\ c[2] \in Nat \ {0}
             /\ c[2] <= Len(file[c[1]]) \div LINE_SIZE + 1
  <2>1. PICK l \in 1 .. Len(file) : c \in {l} \X (1 .. (Len(file[l]) \div LINE_SIZE + 1))
    BY <1>1 DEF PartsOf
  <2>2. c = <<c[1], c[2]>> /\ c[1] = l /\ c[2] \in 1 .. (Len(file[l]) \div LINE_SIZE + 1)
    BY <2>1
  <2> QED
    BY <1>2, <2>2
<1> QED
  BY <1>1, <1>2, <1>3, <1>4

\* One call of fgets() reads the next part.
ReadsOn(file, l, o, c, content, l1, o1) ==
  /\ c \in PartsOf(file) /\ c \notin ReadParts(file, l, o)
  /\ content = PartOf(file, c) /\ content \in Text
  /\ ReadParts(file, l1, o1) = ReadParts(file, l, o) \cup {c}
  /\ UpToPart(file, c) = ReadParts(file, l, o) \cup {c}
  /\ Position(file, l1, o1)

LEMMA OnePartMore ==
  ASSUME NEW file \in Files, NEW l, NEW o, Position(file, l, o), l <= Len(file),
         NEW rest, rest = SubSeq(file[l], o + 1, Len(file[l])),
         NEW content, content = IF Len(rest) < LINE_SIZE THEN rest ELSE SubSeq(rest, 1, LINE_SIZE),
         NEW l1, NEW o1, IF Len(rest) < LINE_SIZE THEN l1 = l + 1 /\ o1 = 0
                                                  ELSE o1 = o + LINE_SIZE /\ l1 = l
  PROVE  \E c : ReadsOn(file, l, o, c, content, l1, o1)
<1>1. PICK m \in Nat : o = m * LINE_SIZE
  BY DEF Position
<1>2. PICK size \in Nat \ {0} : size = LINE_SIZE
  BY SummaryAssumption
<1>3. /\ l \in 1 .. Len(file) /\ file[l] \in Text /\ Len(file) \in Nat
  BY PartsFacts DEF Position
<1>4. PICK text \in Text, long \in Nat : text = file[l] /\ long = Len(text)
  BY <1>3, StartsFacts
<1>5. o \in Nat /\ o = m * size /\ o <= long
  <2>1. m * size \in Nat
    OBVIOUS
  <2> QED
    BY <1>1, <1>2, <1>4, <2>1 DEF Position
<1>6. /\ long \div size \in Nat /\ m <= long \div size
      /\ long - o < size => m = long \div size
      /\ ~(long - o < size) => m + 1 <= long \div size
  <2>1. /\ long \div size \in Nat /\ (m <= long \div size <=> m * size <= long)
        /\ m = long \div size <=> m * size <= long /\ long - m * size < size
    BY PartsOfLength
  <2>2. PICK prod \in Nat, quot \in Nat : prod = m * size /\ quot = long \div size
    BY <1>5, <2>1
  <2>3. /\ o = prod /\ prod <= long /\ (m <= quot <=> prod <= long)
        /\ m = quot <=> prod <= long /\ long - prod < size
    BY <1>5, <2>1, <2>2
  <2>4. /\ m <= quot /\ (long - o < size => m = quot)
        /\ ~(long - o < size) => m + 1 <= quot
    BY ONLY <2>3, m \in Nat, quot \in Nat, prod \in Nat, long \in Nat, size \in Nat
  <2> QED
    BY <2>1, <2>2, <2>4
<1>7. \A k \in 1 .. long : text[k] \in Nat \ {NUL}
  BY <1>4, StartsFacts
<1>8. /\ rest \in Text /\ Len(rest) = long - o
      /\ \A k \in 1 .. (long - o) : rest[k] = text[o + k]
  <2>1. /\ SubSeq(text, o + 1, long) \in Text
        /\ Len(SubSeq(text, o + 1, long)) = IF o + 1 <= long THEN long - (o + 1) + 1 ELSE 0
        /\ \A k \in 1 .. long - (o + 1) + 1 : SubSeq(text, o + 1, long)[k] = text[(o + 1) + k - 1]
    <3>1. \A k \in (o + 1) .. long : text[k] \in Nat \ {NUL}
      BY <1>5, <1>7
    <3>2. PICK first \in Int : first = o + 1 /\ first \in 1 .. Len(text) + 1
      BY <1>4, <1>5
    <3>3. long \in Int /\ \A k \in first .. long : text[k] \in Nat \ {NUL}
      BY <3>1, <3>2
    <3>4. /\ SubSeq(text, first, long) \in Seq(Nat \ {NUL})
          /\ Len(SubSeq(text, first, long)) = IF first <= long THEN long - first + 1 ELSE 0
          /\ \A k \in 1 .. long - first + 1 : SubSeq(text, first, long)[k] = text[first + k - 1]
      BY ONLY <3>3, SubSeqProperties, text \in Text, first \in Int, long \in Int DEF Text
    <3> QED
      BY <3>2, <3>4 DEF Text
  <2>2. rest = SubSeq(text, o + 1, long)
    BY <1>4
  <2>3. /\ long - (o + 1) + 1 = long - o /\ (~(o + 1 <= long) => long - o = 0)
        /\ \A k \in 1 .. (long - o) : (o + 1) + k - 1 = o + k
    BY <1>5
  <2>4. rest \in Text
    BY <2>1, <2>2
  <2>5. Len(rest) = long - o
    BY <2>1, <2>2, <2>3
  <2>6. \A k \in 1 .. (long - o) : rest[k] = text[o + k]
    BY <2>1, <2>2, <2>3
  <2> QED
    BY <2>4, <2>5, <2>6
<1>9. ((m + 1) - 1) * size + 1 = o + 1 /\ (m + 1) * size = o + size
  BY <1>5
<1> DEFINE c == <<l, m + 1>>
<1>10. PartOf(file, c) = SubSeq(text, o + 1, Least2(o + size, long))
  <2>1. PartOf(file, c) = SubSeq(text, ((m + 1) - 1) * size + 1, Min({(m + 1) * size, long}))
    BY <1>2, <1>4 DEF PartOf
  <2>2. Min({o + size, long}) = Least2(o + size, long)
    BY <1>5, MinOfTwo
  <2> QED
    BY <1>9, <2>1, <2>2
<1>11. content = PartOf(file, c) /\ content \in Text
  <2>1. CASE long - o < size
    <3>1. content = rest
      BY <1>2, <1>8, <2>1
    <3>2. Least2(o + size, long) = long
      BY <1>5, <2>1 DEF Least2
    <3> QED
      BY <1>4, <1>8, <1>10, <3>1, <3>2
  <2>2. CASE ~(long - o < size)
    <3>1. content = SubSeq(rest, 1, size)
      BY <1>2, <1>8, <2>2
    <3>2. Least2(o + size, long) = o + size
      BY <1>5, <2>2 DEF Least2
    <3>3. /\ SubSeq(rest, 1, size) \in Text /\ Len(SubSeq(rest, 1, size)) = size
          /\ \A k \in 1 .. size : SubSeq(rest, 1, size)[k] = text[o + k]
      <4>1. \A k \in 1 .. size : rest[k] = text[o + k] /\ text[o + k] \in Nat \ {NUL}
        <5> SUFFICES ASSUME NEW k \in 1 .. size
                     PROVE  rest[k] = text[o + k] /\ text[o + k] \in Nat \ {NUL}
          OBVIOUS
        <5>1. k \in 1 .. (long - o) /\ o + k \in 1 .. long
          BY <1>5, <2>2
        <5> QED
          BY <1>7, <1>8, <5>1
      <4>2. \A k \in 1 .. size : rest[k] \in Nat \ {NUL}
        BY <4>1
      <4>3. /\ SubSeq(rest, 1, size) \in Seq(Nat \ {NUL}) /\ Len(SubSeq(rest, 1, size)) = size
            /\ \A k \in 1 .. size : SubSeq(rest, 1, size)[k] = rest[k]
        <5> DEFINE Chars == Nat \ {NUL}
        <5>1. \A k \in 1 .. size : rest[k] \in Chars
          BY <4>2
        <5> HIDE DEF Chars
        <5>2. size \in Nat
          OBVIOUS
        <5>3. /\ SubSeq(rest, 1, size) \in Seq(Chars) /\ Len(SubSeq(rest, 1, size)) = size
              /\ \A k \in 1 .. size : SubSeq(rest, 1, size)[k] = rest[k]
          BY ONLY <5>1, <5>2, BeginningOf
        <5> QED
          BY <5>3 DEF Chars
      <4> QED
        BY <4>1, <4>3 DEF Text
    <3>4. /\ SubSeq(text, o + 1, o + size) \in Text /\ Len(SubSeq(text, o + 1, o + size)) = size
          /\ \A k \in 1 .. size : SubSeq(text, o + 1, o + size)[k] = text[o + k]
      <4>1. \A k \in (o + 1) .. (o + size) : text[k] \in Nat \ {NUL}
        BY <1>5, <1>7, <2>2
      <4>2. /\ SubSeq(text, o + 1, o + size) \in Seq(Nat \ {NUL})
            /\ Len(SubSeq(text, o + 1, o + size))
                 = IF o + 1 <= o + size THEN (o + size) - (o + 1) + 1 ELSE 0
            /\ \A k \in 1 .. (o + size) - (o + 1) + 1 :
                 SubSeq(text, o + 1, o + size)[k] = text[(o + 1) + k - 1]
        <5>1. o + 1 \in Int /\ o + size \in Int
          BY <1>5
        <5> QED
          BY <4>1, <5>1, SubSeqProperties
      <4>3. /\ (o + size) - (o + 1) + 1 = size /\ o + 1 <= o + size
            /\ \A k \in 1 .. size : (o + 1) + k - 1 = o + k
        BY <1>5
      <4> QED
        BY <4>2, <4>3 DEF Text
    <3> DEFINE s1 == SubSeq(rest, 1, size)
               s2 == SubSeq(text, o + 1, o + size)
    <3>5. s1 \in Seq(Nat \ {NUL}) /\ s2 \in Seq(Nat \ {NUL}) /\ Len(s1) = Len(s2)
          /\ \A k \in 1 .. Len(s1) : s1[k] = s2[k]
      BY <3>3, <3>4 DEF Text
    <3> HIDE DEF s1, s2
    <3>6. s1 = s2
      BY <3>5, SeqEqual
    <3> QED
      BY <1>10, <3>1, <3>2, <3>3, <3>6 DEF s1, s2
  <2> QED
    BY <2>1, <2>2
<1>12. o \div LINE_SIZE = m
  <2>1. m = o \div size <=> m * size <= o /\ o - m * size < size
    BY <1>5, PartsOfLength
  <2> QED
    BY <1>2, <1>5, <2>1
<1>13. Len(file[l]) \div LINE_SIZE = long \div size
  BY <1>2, <1>4
<1> HIDE DEF c
<1>14. c \in PartsOf(file) /\ c[1] = l /\ c[2] = m + 1
  <2>1. <<l, m + 1>> \in PartsOf(file)
    <3>1. m + 1 \in 1 .. (Len(file[l]) \div LINE_SIZE + 1)
      BY <1>6, <1>13
    <3> QED
      BY <1>3, <3>1, PartsFacts
  <2> QED
    BY <2>1 DEF c
<1>15. c \notin ReadParts(file, l, o)
  BY <1>3, <1>12, <1>14 DEF ReadParts
<1>16. \A x \in PartsOf(file) : /\ x[1] \in Int /\ x[2] \in Int /\ x[2] >= 1
                                /\ x[1] = l /\ x[2] = m + 1 => x = c
                                /\ x[1] = l => x[2] <= long \div size + 1
  BY <1>13, PartsFacts DEF c
<1>17. ReadParts(file, l, o) \cup {c}
         = {x \in PartsOf(file) : x[1] < l \/ (x[1] = l /\ x[2] <= m + 1)}
  BY <1>12, <1>14, <1>16 DEF ReadParts
<1>18. UpToPart(file, c) = ReadParts(file, l, o) \cup {c}
  BY <1>14, <1>17 DEF UpToPart
<1>19. ReadParts(file, l1, o1) = ReadParts(file, l, o) \cup {c} /\ Position(file, l1, o1)
  <2>1. CASE long - o < size
    <3>1. l1 = l + 1 /\ o1 = 0
      BY <1>2, <1>8, <2>1
    <3>2. 0 \div LINE_SIZE = 0
      BY SummaryAssumption
    <3>3. ReadParts(file, l + 1, 0)
            = {x \in PartsOf(file) : x[1] < l + 1 \/ (x[1] = l + 1 /\ x[2] <= 0)}
      BY <3>2 DEF ReadParts
    <3>4. \A x \in PartsOf(file) : (x[1] < l + 1 \/ (x[1] = l + 1 /\ x[2] <= 0))
                                  <=> (x[1] < l \/ (x[1] = l /\ x[2] <= m + 1))
      BY <1>3, <1>6, <1>16, <2>1
    <3>5. Position(file, l + 1, 0)
      <4>1. 0 = 0 * LINE_SIZE
        BY SummaryAssumption
      <4>2. l + 1 \in 1 .. (Len(file) + 1) /\ (l + 1 <= Len(file) => l + 1 \in 1 .. Len(file))
        BY <1>3
      <4>3. l + 1 <= Len(file) => 0 <= Len(file[l + 1])
        BY <4>2, PartsFacts
      <4> QED
        BY <4>1, <4>2, <4>3 DEF Position
    <3> QED
      BY <1>17, <3>1, <3>3, <3>4, <3>5
  <2>2. CASE ~(long - o < size)
    <3>1. l1 = l /\ o1 = o + size
      BY <1>2, <1>8, <2>2
    <3>2. (o + size) \div LINE_SIZE = m + 1
      <4>1. (m + 1) = (o + size) \div size
              <=> (m + 1) * size <= o + size /\ (o + size) - (m + 1) * size < size
        <5>1. o + size \in Nat /\ m + 1 \in Nat
          BY <1>5
        <5> QED
          BY <5>1, PartsOfLength
      <4> QED
        BY <1>2, <1>5, <1>9, <4>1
    <3>3. Position(file, l, o + size)
      <4>1. o + size = (m + 1) * LINE_SIZE /\ m + 1 \in Nat
        BY <1>2, <1>9
      <4>2. o + size <= Len(file[l])
        <5>1. o + size <= long
          BY <1>5, <2>2
        <5> QED
          BY <1>4, <5>1
      <4>3. l \in 1 .. (Len(file) + 1) /\ ~(l > Len(file))
        BY <1>3
      <4> QED
        BY <4>1, <4>2, <4>3 DEF Position
    <3> QED
      BY <1>17, <3>1, <3>2, <3>3 DEF ReadParts
  <2> QED
    BY <2>1, <2>2
<1> QED
  BY <1>11, <1>14, <1>15, <1>18, <1>19 DEF ReadsOn

\* The beginning and the end.
LEMMA ReadingEnds ==
  ASSUME NEW file \in Files
  PROVE  /\ ReadParts(file, 1, 0) = {} /\ Position(file, 1, 0)
         /\ \A l, o : Position(file, l, o) /\ l > Len(file) =>
              ReadParts(file, l, o) = PartsOf(file)
<1>1. 0 \div LINE_SIZE = 0 /\ 0 = 0 * LINE_SIZE
  BY SummaryAssumption
<1>2. \A x \in PartsOf(file) : /\ x[1] \in Int /\ x[1] >= 1 /\ x[1] <= Len(file)
                               /\ x[2] \in Int /\ x[2] >= 1
  BY PartsFacts
<1>3. ReadParts(file, 1, 0) = {}
  BY <1>1, <1>2 DEF ReadParts
<1>4. Position(file, 1, 0)
  <2>1. Len(file) \in Nat /\ (1 <= Len(file) => Len(file[1]) >= 0)
    BY PartsFacts
  <2> QED
    BY <1>1, <2>1 DEF Position
<1>5. ASSUME NEW l, NEW o, Position(file, l, o), l > Len(file)
      PROVE  ReadParts(file, l, o) = PartsOf(file)
  <2>1. \A x \in PartsOf(file) : x[1] < l
    <3>1. l \in Int /\ Len(file) \in Int
      BY <1>5, PartsFacts DEF Position
    <3> QED
      BY <1>2, <1>5, <3>1
  <2> QED
    BY <2>1 DEF ReadParts
<1> QED
  BY <1>3, <1>4, <1>5

\* Every field ends, in the line.
LEMMA FieldEnds ==
  ASSUME NEW text \in Text, NEW k \in InFields(text)
  PROVE  FieldEnd(text, k) \in k .. Len(text)
<1> DEFINE T == {m \in Nat : k + m \notin InFields(text)}
<1>1. k \in Nat /\ k >= 1 /\ Len(text) \in Nat /\ InFields(text) \subseteq 1 .. Len(text)
  BY StartsFacts
<1>2. Len(text) \in T
  BY <1>1
<1>3. PICK m \in T : \A i \in T : m <= i
  BY <1>2, LeastNumber
<1>4. m # 0
  BY <1>1
<1>5. \A i \in k .. (k + m - 1) : i \in InFields(text)
  <2> SUFFICES ASSUME NEW i \in k .. (k + m - 1), i \notin InFields(text) PROVE FALSE
    OBVIOUS
  <2>1. i - k \in Nat /\ k + (i - k) = i /\ i - k < m
    BY <1>1
  <2>2. i - k \in T
    BY <2>1
  <2> QED
    BY <1>3, <2>1, <2>2
<1>6. PICK j \in Nat : j = k + m - 1
  BY <1>1, <1>4
<1>7. j \in InFields(text) /\ k <= j /\ k .. j \subseteq InFields(text) /\ j + 1 \notin InFields(text)
  BY <1>1, <1>4, <1>5, <1>6
<1>8. FieldEnd(text, k) = j
  BY <1>7, FieldEndIs
<1> QED
  BY <1>1, <1>7, <1>8

\* Every rank is that of a field: there are as many as there are fields.
LEMMA RanksAreMet ==
  ASSUME NEW text \in Text, NEW r \in 1 .. Cardinality(FieldStarts(text))
  PROVE  \E k \in FieldStarts(text) : Rank(text, k) = r
<1> DEFINE size == Cardinality(FieldStarts(text))
           D == FieldStarts(text)
           g == [k \in D |-> Rank(text, k)]
<1>1. size \in Nat /\ D \subseteq Nat /\ IsFiniteSet(D)
      /\ \A k \in D : Rank(text, k) \in 1 .. size
  BY FieldsFacts, StartsFacts
<1>2. IsFiniteSet(1 .. size) /\ Cardinality(1 .. size) = size
  BY <1>1, FS_Interval
<1>3. g \in [D -> 1 .. size]
  BY <1>1
<1>4. ASSUME NEW k \in D, NEW j \in D, g[k] = g[j] PROVE k = j
  <2>1. k \in Nat /\ j \in Nat /\ Rank(text, k) = Rank(text, j) /\ Rank(text, k) \in Nat
    BY <1>1, <1>4
  <2>2. k < j => Rank(text, k) < Rank(text, j)
    BY <2>1, RankGrows
  <2>3. j < k => Rank(text, j) < Rank(text, k)
    BY <2>1, RankGrows
  <2> QED
    BY <2>1, <2>2, <2>3
<1>5. g \in Injection(D, 1 .. size)
  BY <1>3, <1>4 DEF Injection, IsInjective
<1>6. g \in Surjection(D, 1 .. size)
  <2> HIDE DEF g
  <2> QED
    BY <1>2, <1>5, FS_Injection
<1>7. \E k \in D : g[k] = r
  <2> HIDE DEF g
  <2> QED
    BY <1>6 DEF Surjection
<1> QED
  BY <1>7

\* A field is in its line for strstr() to find.
LEMMA FieldIsFound ==
  ASSUME NEW text \in Text, NEW r \in 1 .. Cardinality(FieldStarts(text))
  PROVE  strstr(text, Fields(text)[r]) /\ Fields(text)[r] \in Text
<1>1. PICK k \in FieldStarts(text) : Rank(text, k) = r
  BY RanksAreMet
<1>2. Fields(text)[r] = SubSeq(text, k, FieldEnd(text, k))
  BY <1>1, FieldsFacts
<1>3. PICK j \in k .. Len(text) : j = FieldEnd(text, k)
  BY StartsFacts, FieldEnds
<1>4. k \in Nat /\ k >= 1 /\ k <= j /\ j <= Len(text) /\ Len(text) \in Nat /\ j \in Nat
      /\ \A i \in k .. j : text[i] \in Nat \ {NUL}
  BY <1>3, StartsFacts
<1> DEFINE word == SubSeq(text, k, j)
<1>5. word \in Text /\ Len(word) = j - k + 1
  <2>1. /\ SubSeq(text, k, j) \in Text
        /\ Len(SubSeq(text, k, j)) = IF k <= j THEN j - k + 1 ELSE 0
    BY <1>4, SubSeqProperties DEF Text
  <2> QED
    BY <1>4, <2>1
<1>6. PICK i \in Nat, l \in Nat : i = k - 1 /\ l = j - k + 1
  BY <1>4
<1>7. i \in 0 .. (Len(text) - l) /\ i + 1 = k /\ i + l = j
  BY <1>4, <1>6
<1> HIDE DEF word
<1>8. SubSeq(text, i + 1, i + l) = word
  BY <1>7 DEF word
<1>9. Len(word) = l
  BY <1>5, <1>6
<1>10. strstr(text, word)
  BY <1>7, <1>8, <1>9 DEF strstr
<1> QED
  BY <1>2, <1>3, <1>5, <1>10 DEF word

\* The places of a file that hold a word that is counted.
WordsIn(file, c) == FirstOf(Fields(PartOf(file, c)))
PlacesOf(file) == UNION {{c} \X DOMAIN WordsIn(file, c) : c \in PartsOf(file)}
At(file) == [x \in PlacesOf(file) |-> WordsIn(file, x[1])[x[2]]]
\* Those in the parts C.
PlacesIn(file, C) == {x \in PlacesOf(file) : x[1] \in C}
\* Those, and the first r - 1 of the part c.
PlacesUpTo(file, C, c, r) == {x \in PlacesOf(file) : x[1] \in C \/ (x[1] = c /\ x[2] < r)}

LEMMA PartIsText ==
  ASSUME NEW file \in Files, NEW c \in PartsOf(file)
  PROVE  PartOf(file, c) \in Text
<1>1. PICK l \in 1 .. Len(file), m \in Nat \ {0} :
        l = c[1] /\ m = c[2] /\ m <= Len(file[l]) \div LINE_SIZE + 1
  BY PartsFacts
<1>2. PICK text \in Text, long \in Nat : text = file[l] /\ long = Len(text)
  BY PartsFacts, StartsFacts
<1>3. PICK from \in Nat, upto \in Int : from = (m - 1) * LINE_SIZE /\ upto = m * LINE_SIZE
  <2>1. (m - 1) * LINE_SIZE \in Nat /\ m * LINE_SIZE \in Int
    BY SummaryAssumption
  <2> QED
    BY <2>1
<1>4. PartOf(file, c) = SubSeq(text, from + 1, Least2(upto, long))
  <2>1. Min({upto, long}) = Least2(upto, long)
    BY MinOfTwo
  <2>2. PartOf(file, c) = SubSeq(text, from + 1, Min({upto, long}))
    BY <1>1, <1>2, <1>3 DEF PartOf
  <2> QED
    BY <2>1, <2>2
<1>5. \A i \in (from + 1) .. Least2(upto, long) : text[i] \in Nat \ {NUL}
  <2>1. \A i \in 1 .. long : text[i] \in Nat \ {NUL}
    BY <1>2, StartsFacts
  <2>2. Least2(upto, long) \in Int /\ Least2(upto, long) <= long
    BY DEF Least2
  <2> QED
    BY <2>1, <2>2
<1>6. Least2(upto, long) \in Int /\ from + 1 \in Int
  BY DEF Least2
<1> DEFINE Chars == Nat \ {NUL}
           last == Least2(upto, long)
<1>7. \A i \in (from + 1) .. last : text[i] \in Chars
  BY <1>5
<1>8. last \in Int
  BY <1>6
<1> HIDE DEF Chars, last
<1>9. SubSeq(text, from + 1, last) \in Seq(Chars)
  BY ONLY <1>6, <1>7, <1>8, SubSeqProperties
<1> QED
  BY <1>4, <1>9 DEF Chars, last, Text

LEMMA WordsFacts ==
  ASSUME NEW file \in Files, NEW c \in PartsOf(file)
  PROVE  /\ DOMAIN WordsIn(file, c) = 1 .. Len(WordsIn(file, c))
         /\ Len(WordsIn(file, c)) \in 0 .. max_tokens_size
         /\ \A r \in 1 .. Len(WordsIn(file, c)) :
              /\ <<c, r>> \in PlacesOf(file) /\ At(file)[<<c, r>>] = WordsIn(file, c)[r]
              /\ WordsIn(file, c)[r] \in Text /\ strstr(PartOf(file, c), WordsIn(file, c)[r])
              /\ r \in DOMAIN Fields(PartOf(file, c))
              /\ WordsIn(file, c)[r] = Fields(PartOf(file, c))[r]
<1>1. PICK text \in Text : text = PartOf(file, c)
  BY PartIsText
<1>2. PICK size \in Nat : size = Cardinality(FieldStarts(text)) /\ DOMAIN Fields(text) = 1 .. size
  BY FieldsFacts
<1>3. PICK many \in Nat : many = Least2(size, max_tokens_size)
  BY TokenizerAssumption DEF Least2
<1>4. many <= size /\ many <= max_tokens_size /\ max_tokens_size \in Nat
  BY <1>3, TokenizerAssumption DEF Least2
<1> DEFINE W == WordsIn(file, c)
<1>5. /\ Len(W) = many /\ DOMAIN W = 1 .. many
      /\ \A r \in 1 .. many : W[r] = Fields(text)[r]
  BY <1>1, <1>2, <1>3, FirstFields DEF WordsIn
<1> HIDE DEF W
<1>6. ASSUME NEW r \in 1 .. many
      PROVE  /\ <<c, r>> \in PlacesOf(file) /\ At(file)[<<c, r>>] = W[r]
             /\ W[r] \in Text /\ strstr(text, W[r])
             /\ r \in DOMAIN Fields(text) /\ W[r] = Fields(text)[r]
  <2>1. r \in 1 .. size
    BY <1>4
  <2>2. Fields(text)[r] \in Text /\ strstr(text, Fields(text)[r])
    BY <1>2, <2>1, FieldIsFound
  <2>3. <<c, r>> \in PlacesOf(file)
    <3>1. <<c, r>> \in {c} \X DOMAIN WordsIn(file, c)
      BY <1>5 DEF W
    <3> QED
      BY <3>1 DEF PlacesOf
  <2>4. At(file)[<<c, r>>] = W[r]
    BY <2>3 DEF At, W
  <2> QED
    BY <1>2, <1>5, <2>1, <2>2, <2>3, <2>4
<1> QED
  BY <1>1, <1>4, <1>5, <1>6 DEF W

LEMMA PlacesFacts ==
  ASSUME NEW file \in Files, NEW x \in PlacesOf(file)
  PROVE  /\ x = <<x[1], x[2]>> /\ x[1] \in PartsOf(file)
         /\ x[2] \in 1 .. Len(WordsIn(file, x[1])) /\ x[2] \in Nat
<1>1. PICK c \in PartsOf(file) : x \in {c} \X DOMAIN WordsIn(file, c)
  BY DEF PlacesOf
<1>2. x = <<x[1], x[2]>> /\ x[1] = c /\ x[2] \in 1 .. Len(WordsIn(file, c))
  BY <1>1, WordsFacts
<1> QED
  BY <1>2

\* The next word of the part that is being counted, and the end of it.
IsMore(Q, P, x) == Q = P \cup {x} /\ x \notin P

LEMMA PlaceAdded ==
  ASSUME NEW file \in Files, NEW C, NEW c \in PartsOf(file), c \notin C,
         NEW r \in 1 .. Len(WordsIn(file, c))
  PROVE  IsMore(PlacesUpTo(file, C, c, r + 1), PlacesUpTo(file, C, c, r), <<c, r>>)
<1>1. \A x \in PlacesOf(file) : x = <<x[1], x[2]>> /\ x[2] \in Nat
  BY PlacesFacts
<1>2. <<c, r>> \in PlacesOf(file) /\ r \in Nat
  BY WordsFacts
<1>3. \A x \in PlacesOf(file) : x[1] = c /\ x[2] = r => x = <<c, r>>
  BY <1>1
<1>4. \A x \in PlacesOf(file) : x[2] < r + 1 <=> x[2] < r \/ x[2] = r
  BY <1>1, <1>2
<1>5. <<c, r>>[1] = c /\ <<c, r>>[2] = r /\ ~(r < r)
  BY <1>2
<1> QED
  BY <1>2, <1>3, <1>4, <1>5 DEF PlacesUpTo, IsMore

LEMMA PlacesGrow ==
  ASSUME NEW file \in Files, NEW C, NEW c \in PartsOf(file), c \notin C
  PROVE  /\ PlacesUpTo(file, C, c, 1) = PlacesIn(file, C)
         /\ PlacesUpTo(file, C, c, Len(WordsIn(file, c)) + 1) = PlacesIn(file, C \cup {c})
<1>1. PICK many \in Nat : many = Len(WordsIn(file, c))
  BY WordsFacts
<1>2. \A x \in PlacesOf(file) : /\ x = <<x[1], x[2]>> /\ x[2] \in Nat /\ x[2] >= 1
                                /\ x[1] = c => x[2] <= many
  BY <1>1, PlacesFacts
<1>3. PlacesUpTo(file, C, c, 1) = PlacesIn(file, C)
  BY <1>2 DEF PlacesUpTo, PlacesIn
<1>4. PlacesUpTo(file, C, c, many + 1) = PlacesIn(file, C \cup {c})
  BY <1>2 DEF PlacesUpTo, PlacesIn
<1> QED
  BY <1>1, <1>3, <1>4

-----------------------------------------------------------------------------
(* The summary.                                                            *)

TakenFrom(t, firsts) == firsts = [k \in 1 .. Min({TOP, Len(t)}) |-> t[k].word]
RarestFirst(t) == \A i, j \in DOMAIN t : i < j => ~compare_wordcount(t[j], t[i])

\* What the second pass has shown of the parts that it has read.
Shown(file, read, firsts, number, shown) ==
  /\ IsFiniteSet(read) /\ number = Cardinality(read) + 1
  /\ shown \in Seq([number : Nat, text : Text])
  /\ \A s \in DOMAIN shown : \E c \in read :
       shown[s].text = PartOf(file, c) /\ shown[s].number = Cardinality(UpToPart(file, c))
  /\ \A c \in read : (\E k \in DOMAIN firsts : strstr(PartOf(file, c), firsts[k])) =>
       \E s \in DOMAIN shown : shown[s].text = PartOf(file, c)

\* While the words of a part are counted: c is the part, and C those before.
Counting(file, read, t, text, r, at, C, c) ==
  /\ c \in PartsOf(file) /\ c \notin C /\ read = C \cup {c}
  /\ text = PartOf(file, c)
  /\ r <= Len(WordsIn(file, c)) + 1 /\ (at = "scan" => r = 1)
  /\ Exact(t, PlacesUpTo(file, C, c, r), At(file))

SumInv ==
  /\ TokInv
  /\ doc \in Files /\ Position(doc, line, offset)
  /\ token \in 1 .. (max_tokens_size + 1)
  /\ sum \in {"open", "count", "extract", "done"}
  /\ sum # "count" => scan = "idle"
  /\ sum = "open" => line = 1 /\ offset = 0 /\ unique_words = <<>>
  /\ sum \in {"open", "count"} => top = <<>> /\ sentence_number = 1 /\ summary = <<>>
  /\ sum = "count" /\ scan = "idle" =>
       Exact(unique_words, PlacesIn(doc, ReadParts(doc, line, offset)), At(doc))
  /\ sum = "count" /\ scan # "idle" =>
       \E C, c : Counting(doc, ReadParts(doc, line, offset), unique_words, str, token, scan, C, c)
  /\ sum \in {"extract", "done"} =>
       /\ Exact(unique_words, PlacesOf(doc), At(doc))
       /\ RarestFirst(unique_words) /\ TakenFrom(unique_words, top)
       /\ Shown(doc, ReadParts(doc, line, offset), top, sentence_number, summary)
  /\ sum = "done" => line > Len(doc)

LEMMA SumInitInv == SumInit => SumInv
<1> SUFFICES ASSUME SumInit PROVE SumInv
  OBVIOUS
<1>1. TokInv
  BY TokInitInv DEF SumInit
<1>2. doc \in Files /\ line = 1 /\ offset = 0 /\ doc = <<>>
  BY DEF SumInit, Files
<1>3. Position(doc, line, offset)
  BY <1>2, ReadingEnds
<1>4. token \in 1 .. (max_tokens_size + 1)
  BY TokenizerAssumption DEF SumInit
<1> QED
  BY <1>1, <1>2, <1>3, <1>4 DEF SumInv, SumInit, TokInit

LEMMA OpenFileInv == SumInv /\ OpenFile => SumInv'
<1> SUFFICES ASSUME SumInv, OpenFile PROVE SumInv'
  OBVIOUS
<1>1. PICK file \in Files : file = doc'
  BY SummaryAssumption DEF OpenFile, Files, Text
<1>2. /\ sum' = "count" /\ line' = 1 /\ offset' = 0 /\ unique_words' = <<>> /\ scan' = "idle"
      /\ token' = token /\ top' = <<>> /\ sentence_number' = 1 /\ summary' = <<>>
  BY DEF OpenFile, SumInv, tokVars
<1>3. TokInv'
  BY TokUnchangedInv DEF OpenFile, SumInv, tokVars
<1>4. Position(file, 1, 0) /\ ReadParts(file, 1, 0) = {}
  BY ReadingEnds
<1>5. PlacesIn(file, {}) = {}
  BY DEF PlacesIn
<1>6. Exact(<<>>, PlacesIn(file, ReadParts(file, 1, 0)), At(file))
  BY <1>4, <1>5, NothingCounted
<1>7. token' \in 1 .. (max_tokens_size + 1)
  BY <1>2 DEF SumInv
<1> QED
  BY <1>1, <1>2, <1>3, <1>4, <1>6, <1>7 DEF SumInv

\* What a call of fgets() does to the position.
LEMMA ReadOnInv ==
  ASSUME doc \in Files, Position(doc, line, offset), ~EndOfFile, ReadOn
  PROVE  \E c : ReadsOn(doc, line, offset, c, FileContent, line', offset')
<1>0. PICK file \in Files : file = doc
  OBVIOUS
<1>1. PICK l, o, l1, o1, rest, content :
        /\ file = doc /\ l = line /\ o = offset /\ l1 = line' /\ o1 = offset'
        /\ rest = Rest /\ content = FileContent
  BY <1>0
<1>2. l <= Len(file)
  <2>1. l \in Int /\ Len(file) \in Int
    BY <1>1, PartsFacts DEF Position
  <2> QED
    BY <1>1, <2>1 DEF EndOfFile
<1>3. rest = SubSeq(file[l], o + 1, Len(file[l]))
  BY <1>1 DEF Rest
<1>4. content = IF Len(rest) < LINE_SIZE THEN rest ELSE SubSeq(rest, 1, LINE_SIZE)
  BY <1>1 DEF FileContent
<1>5. IF Len(rest) < LINE_SIZE THEN l1 = l + 1 /\ o1 = 0 ELSE o1 = o + LINE_SIZE /\ l1 = l
  BY <1>1 DEF ReadOn
<1>6. Position(file, l, o)
  BY <1>1
<1>7. \E c : ReadsOn(file, l, o, c, content, l1, o1)
  BY <1>2, <1>3, <1>4, <1>5, <1>6, OnePartMore
<1> QED
  BY <1>1, <1>7

LEMMA CountLineInv == SumInv /\ CountLine => SumInv'
<1> SUFFICES ASSUME SumInv, CountLine PROVE SumInv'
  OBVIOUS
<1>1. PICK c : ReadsOn(doc, line, offset, c, FileContent, line', offset')
  BY ReadOnInv DEF SumInv, CountLine
<1>2. /\ sum = "count" /\ scan = "idle"
      /\ sum' = "count" /\ doc' = doc /\ unique_words' = unique_words /\ token' = 1
      /\ top' = top /\ sentence_number' = sentence_number /\ summary' = summary
      /\ scan' = "scan" /\ str' = FileContent
  BY DEF CountLine, BeginTokens
<1>3. TokInv'
  BY <1>1, BeginTokensInv DEF CountLine, ReadsOn
<1> DEFINE C == ReadParts(doc, line, offset)
<1>4. Exact(unique_words, PlacesIn(doc, C), At(doc)) /\ doc \in Files
  BY <1>2 DEF SumInv
<1>5. c \in PartsOf(doc) /\ c \notin C
  BY <1>1 DEF ReadsOn
<1>6. PlacesUpTo(doc, C, c, 1) = PlacesIn(doc, C)
  BY <1>4, <1>5, PlacesGrow
<1>7. 1 <= Len(WordsIn(doc, c)) + 1
  BY <1>4, <1>5, WordsFacts
<1>8. Counting(doc, C \cup {c}, unique_words, FileContent, 1, "scan", C, c)
  BY <1>1, <1>4, <1>5, <1>6, <1>7 DEF Counting, ReadsOn
<1>9. ReadParts(doc', line', offset') = C \cup {c} /\ Position(doc', line', offset')
  BY <1>1, <1>2 DEF ReadsOn
<1> HIDE DEF C
<1>10. \E C1, c1 : Counting(doc', ReadParts(doc', line', offset'), unique_words', str', token', scan', C1, c1)
  BY <1>2, <1>8, <1>9
<1>11. token' \in 1 .. (max_tokens_size + 1)
  BY <1>2, TokenizerAssumption
<1> QED
  BY <1>2, <1>3, <1>4, <1>9, <1>10, <1>11 DEF SumInv

LEMMA TokenizeStepInv == SumInv /\ Tokenize => SumInv'
<1> SUFFICES ASSUME SumInv, Tokenize PROVE SumInv'
  OBVIOUS
<1>1. /\ sum = "count" /\ scan = "scan" /\ scan' \in {"scan", "done"} /\ str' = str
      /\ UNCHANGED sumVars
  BY DEF Tokenize, tokenize_by_space
<1>2. /\ sum' = sum /\ doc' = doc /\ line' = line /\ offset' = offset /\ token' = token
      /\ unique_words' = unique_words /\ top' = top
      /\ sentence_number' = sentence_number /\ summary' = summary
  BY <1>1 DEF sumVars
<1>3. TokInv'
  BY TokenizeInv DEF SumInv, Tokenize
<1>4. PICK C, c : Counting(doc, ReadParts(doc, line, offset), unique_words, str, token, scan, C, c)
  BY <1>1 DEF SumInv
<1>5. Counting(doc', ReadParts(doc', line', offset'), unique_words', str', token', scan', C, c)
  BY <1>1, <1>2, <1>4 DEF Counting
<1> QED
  BY <1>1, <1>2, <1>3, <1>5 DEF SumInv

\* The table, when the next word is counted.
LEMMA WordCounted ==
  ASSUME NEW P, NEW f, Exact(unique_words, P, f), NEW pl, pl \notin P, NEW w \in Seq(Nat), f[pl] = w,
         unique_words' = IF Find(w) # {}
                           THEN [unique_words EXCEPT ![Min(Find(w))].count = @ + 1]
                         ELSE IF HasRoom
                           THEN Append(unique_words, [word |-> w, count |-> 1])
                         ELSE unique_words
  PROVE  Exact(unique_words', P \cup {pl}, f)
<1>1. PICK t \in Tables : t = unique_words /\ Exact(t, P, f)
  BY DEF Exact
<1>2. /\ t \in Seq(Entries) /\ Len(t) \in Nat /\ DOMAIN t = 1 .. Len(t)
      /\ \A i, j \in DOMAIN t : t[i].word = t[j].word => i = j
  BY TableFacts
<1>3. Find(w) = {i \in DOMAIN t : t[i].word = w}
  BY <1>1 DEF Find, Known
<1>4. CASE Find(w) # {}
  <2>1. PICK i \in DOMAIN t : t[i].word = w
    BY <1>3, <1>4
  <2>2. Find(w) = {i}
    BY <1>2, <1>3, <2>1
  <2>3. Min({i}) = i
    <3>1. i \in Int
      BY <1>2
    <3>2. \A x \in {i} : x = i
      OBVIOUS
    <3>3. \E x \in {i} : \A y \in {i} : x <= y
      BY <3>1
    <3> QED
      BY <3>2, <3>3 DEF Min
  <2>4. unique_words' = [t EXCEPT ![i] = [t[i] EXCEPT !.count = @ + 1]]
    BY <1>1, <1>4, <2>2, <2>3
  <2>5. PICK t1 : t1 = [t EXCEPT ![i] = [t[i] EXCEPT !.count = @ + 1]]
    OBVIOUS
  <2>6. Exact(t1, P \cup {pl}, f)
    BY <1>1, <2>1, <2>5, CountKnown
  <2> QED
    BY <2>4, <2>5, <2>6
<1>5. CASE Find(w) = {} /\ HasRoom
  <2>1. \A i \in DOMAIN t : t[i].word # f[pl]
    BY <1>3, <1>5
  <2>2. Len(t) < MAX_UNIQUE_WORDS
    BY <1>1, <1>5 DEF HasRoom
  <2>3. unique_words' = Append(t, [word |-> f[pl], count |-> 1])
    BY <1>1, <1>5
  <2>4. PICK t1 : t1 = Append(t, [word |-> f[pl], count |-> 1])
    OBVIOUS
  <2>5. Exact(t1, P \cup {pl}, f)
    BY <1>1, <2>1, <2>2, <2>4, CountNew
  <2> QED
    BY <2>3, <2>4, <2>5
<1>6. CASE Find(w) = {} /\ ~HasRoom
  <2>1. \A i \in DOMAIN t : t[i].word # f[pl]
    BY <1>3, <1>6
  <2>2. ~(Len(t) < MAX_UNIQUE_WORDS)
    BY <1>1, <1>6 DEF HasRoom
  <2>3. unique_words' = t
    BY <1>1, <1>6
  <2>4. Exact(t, P \cup {pl}, f)
    BY <1>1, <2>1, <2>2, CountFull
  <2> QED
    BY <2>3, <2>4
<1> QED
  BY <1>4, <1>5, <1>6

LEMMA FillUpInv == SumInv /\ fill_up_unqiue_words => SumInv'
<1> SUFFICES ASSUME SumInv, fill_up_unqiue_words PROVE SumInv'
  OBVIOUS
<1>1. /\ sum = "count" /\ scan = "done" /\ token <= Len(tokens) /\ token' = token + 1
      /\ sum' = sum /\ doc' = doc /\ line' = line /\ offset' = offset
      /\ top' = top /\ sentence_number' = sentence_number /\ summary' = summary
      /\ UNCHANGED tokVars
  BY DEF fill_up_unqiue_words
<1>2. TokInv' /\ str' = str /\ scan' = scan
  BY <1>1, TokUnchangedInv DEF SumInv, tokVars
<1>3. PICK C, c : Counting(doc, ReadParts(doc, line, offset), unique_words, str, token, scan, C, c)
  BY <1>1 DEF SumInv
<1>4. /\ c \in PartsOf(doc) /\ c \notin C /\ doc \in Files
      /\ Exact(unique_words, PlacesUpTo(doc, C, c, token), At(doc)) /\ str = PartOf(doc, c)
  BY <1>3 DEF Counting, SumInv
<1>5. Tokens = WordsIn(doc, c) /\ Len(tokens) = Len(WordsIn(doc, c)) /\ Len(tokens) \in 0 .. max_tokens_size
  BY <1>1, <1>4, TokensRead DEF SumInv, WordsIn
<1>6. PICK r \in 1 .. Len(WordsIn(doc, c)) : r = token
  BY <1>1, <1>5, TokenizerAssumption DEF SumInv
<1>7. PICK w \in Seq(Nat) : w = WordsIn(doc, c)[r] /\ At(doc)[<<c, r>>] = w
  <2>1. WordsIn(doc, c)[r] \in Text /\ At(doc)[<<c, r>>] = WordsIn(doc, c)[r]
    BY <1>4, WordsFacts
  <2>2. Nat \ {NUL} \subseteq Nat
    OBVIOUS
  <2> QED
    BY <2>1, <2>2, SeqMonotonic DEF Text
<1>8. Exact(unique_words', PlacesUpTo(doc, C, c, r) \cup {<<c, r>>}, At(doc))
  <2>1. unique_words' = IF Find(w) # {}
                          THEN [unique_words EXCEPT ![Min(Find(w))].count = @ + 1]
                        ELSE IF HasRoom
                          THEN Append(unique_words, [word |-> w, count |-> 1])
                        ELSE unique_words
    BY <1>5, <1>6, <1>7 DEF fill_up_unqiue_words
  <2>2. <<c, r>> \notin PlacesUpTo(doc, C, c, r)
    <3>1. IsMore(PlacesUpTo(doc, C, c, r + 1), PlacesUpTo(doc, C, c, r), <<c, r>>)
      BY <1>4, PlaceAdded
    <3> QED
      BY <3>1 DEF IsMore
  <2> QED
    BY <1>4, <1>6, <1>7, <2>1, <2>2, WordCounted
<1>9. PlacesUpTo(doc, C, c, r + 1) = PlacesUpTo(doc, C, c, r) \cup {<<c, r>>}
  <2>1. IsMore(PlacesUpTo(doc, C, c, r + 1), PlacesUpTo(doc, C, c, r), <<c, r>>)
    BY <1>4, PlaceAdded
  <2> QED
    BY <2>1 DEF IsMore
<1>10. r + 1 <= Len(WordsIn(doc, c)) + 1 /\ r + 1 \in 1 .. (max_tokens_size + 1)
  BY <1>5, TokenizerAssumption
<1>11. Counting(doc', ReadParts(doc', line', offset'), unique_words', str', token', scan', C, c)
  BY <1>1, <1>2, <1>3, <1>6, <1>8, <1>9, <1>10 DEF Counting
<1>12. token' \in 1 .. (max_tokens_size + 1)
  BY <1>1, <1>6, <1>10
<1> QED
  BY <1>1, <1>2, <1>11, <1>12 DEF SumInv

LEMMA LineCountedInv == SumInv /\ LineCounted => SumInv'
<1> SUFFICES ASSUME SumInv, LineCounted PROVE SumInv'
  OBVIOUS
<1>1. /\ sum = "count" /\ scan = "done" /\ token > Len(tokens) /\ scan' = "idle"
      /\ sum' = sum /\ doc' = doc /\ line' = line /\ offset' = offset /\ token' = token
      /\ unique_words' = unique_words /\ top' = top
      /\ sentence_number' = sentence_number /\ summary' = summary
  BY DEF LineCounted, sumVars
<1>2. TokInv'
  BY TokUnchangedInv DEF SumInv, LineCounted
<1>3. PICK C, c : Counting(doc, ReadParts(doc, line, offset), unique_words, str, token, scan, C, c)
  BY <1>1 DEF SumInv
<1>4. /\ c \in PartsOf(doc) /\ c \notin C /\ doc \in Files
      /\ Exact(unique_words, PlacesUpTo(doc, C, c, token), At(doc)) /\ str = PartOf(doc, c)
      /\ ReadParts(doc, line, offset) = C \cup {c} /\ token <= Len(WordsIn(doc, c)) + 1
  BY <1>3 DEF Counting, SumInv
<1>5. Len(tokens) = Len(WordsIn(doc, c)) /\ Len(tokens) \in Nat
  BY <1>1, <1>4, TokensRead DEF SumInv, WordsIn
<1>6. token = Len(WordsIn(doc, c)) + 1
  <2>1. token \in Int
    BY DEF SumInv
  <2> QED
    BY <1>1, <1>4, <1>5, <2>1
<1>7. PlacesUpTo(doc, C, c, token) = PlacesIn(doc, ReadParts(doc, line, offset))
  BY <1>4, <1>6, PlacesGrow
<1>8. Exact(unique_words', PlacesIn(doc', ReadParts(doc', line', offset')), At(doc'))
  BY <1>1, <1>4, <1>7
<1> QED
  BY <1>1, <1>2, <1>8 DEF SumInv

LEMMA SelectRarestInv == SumInv /\ SelectRarest => SumInv'
<1> SUFFICES ASSUME SumInv, SelectRarest PROVE SumInv'
  OBVIOUS
<1>1. /\ sum = "count" /\ scan = "idle" /\ EndOfFile
      /\ unique_words' = qsort(unique_words)
      /\ top' = [k \in 1 .. Min({TOP, Len(unique_words)}) |-> unique_words'[k].word]
      /\ line' = 1 /\ offset' = 0
      /\ sum' = "extract" /\ UNCHANGED tokVars /\ doc' = doc /\ token' = token
      /\ sentence_number' = 1 /\ summary' = <<>>
  BY DEF SelectRarest, Rewound, SumInv
<1>2. TokInv' /\ scan' = "idle"
  BY <1>1, TokUnchangedInv DEF SumInv, tokVars
<1>3. doc \in Files /\ Position(doc, line, offset)
      /\ Exact(unique_words, PlacesIn(doc, ReadParts(doc, line, offset)), At(doc))
  BY <1>1 DEF SumInv
<1>4. PlacesIn(doc, ReadParts(doc, line, offset)) = PlacesOf(doc)
  <2>1. ReadParts(doc, line, offset) = PartsOf(doc)
    BY <1>1, <1>3, ReadingEnds DEF EndOfFile
  <2>2. \A x \in PlacesOf(doc) : x[1] \in PartsOf(doc)
    BY <1>3, PlacesFacts
  <2> QED
    BY <2>1, <2>2 DEF PlacesIn
<1>5. PICK t : t = unique_words /\ Exact(t, PlacesOf(doc), At(doc))
  BY <1>3, <1>4
<1>6. /\ Exact(qsort(t), PlacesOf(doc), At(doc)) /\ Len(qsort(t)) = Len(t)
      /\ RarestFirst(qsort(t))
  BY <1>5, ExactSorted DEF RarestFirst
<1>7. TakenFrom(unique_words', top')
  BY <1>1, <1>5, <1>6 DEF TakenFrom
<1>8. Shown(doc, {}, top', 1, <<>>)
  BY FS_EmptySet DEF Shown
<1>9. ReadParts(doc, 1, 0) = {} /\ Position(doc, 1, 0)
  BY <1>3, ReadingEnds
<1>10. token' \in 1 .. (max_tokens_size + 1)
  BY <1>1 DEF SumInv
<1> QED
  BY <1>1, <1>2, <1>3, <1>5, <1>6, <1>7, <1>8, <1>9, <1>10 DEF SumInv

LEMMA ShownMore ==
  ASSUME NEW file, NEW read, NEW firsts, NEW number, NEW shown,
         Shown(file, read, firsts, number, shown),
         NEW c, c \notin read, UpToPart(file, c) = read \cup {c},
         NEW content \in Text, content = PartOf(file, c),
         NEW shown1, shown1 = IF \E k \in DOMAIN firsts : strstr(content, firsts[k])
                                THEN Append(shown, [number |-> number, text |-> content])
                                ELSE shown
  PROVE  Shown(file, read \cup {c}, firsts, number + 1, shown1)
<1> DEFINE Entry == [number : Nat, text : Text]
           entry == [number |-> number, text |-> content]
           Rare == \E k \in DOMAIN firsts : strstr(content, firsts[k])
<1>1. /\ IsFiniteSet(read) /\ number = Cardinality(read) + 1 /\ shown \in Seq(Entry)
  BY DEF Shown
<1>2. /\ IsFiniteSet(read \cup {c}) /\ Cardinality(read \cup {c}) = number
      /\ Cardinality(read) \in Nat /\ number \in Nat
  BY <1>1, FS_AddElement, FS_CardinalityType
<1>3. entry \in Entry /\ entry.number = number /\ entry.text = content
  BY <1>2
<1>4. \A s \in DOMAIN shown : \E x \in read :
        shown[s].text = PartOf(file, x) /\ shown[s].number = Cardinality(UpToPart(file, x))
  BY DEF Shown
<1>5. \A x \in read : (\E k \in DOMAIN firsts : strstr(PartOf(file, x), firsts[k])) =>
        \E s \in DOMAIN shown : shown[s].text = PartOf(file, x)
  BY DEF Shown
<1>6. number + 1 = Cardinality(read \cup {c}) + 1
  BY <1>2
<1>7. CASE Rare
  <2>1. shown1 = Append(shown, entry)
    BY <1>7
  <2> HIDE DEF Entry, entry, Rare
  <2>2. /\ shown1 \in Seq(Entry) /\ Len(shown1) = Len(shown) + 1 /\ Len(shown) \in Nat
        /\ \A s \in 1 .. Len(shown) : shown1[s] = shown[s]
        /\ shown1[Len(shown) + 1] = entry
    BY <1>1, <1>3, <2>1, AppendProperties
  <2>3. DOMAIN shown = 1 .. Len(shown) /\ DOMAIN shown1 = 1 .. (Len(shown) + 1)
    BY <1>1, <2>2, LenProperties
  <2>4. Len(shown) + 1 \in DOMAIN shown1 /\ DOMAIN shown \subseteq DOMAIN shown1
        /\ \A s \in DOMAIN shown1 : s \in DOMAIN shown \/ s = Len(shown) + 1
    BY <2>2, <2>3
  <2>5. ASSUME NEW s \in DOMAIN shown1
        PROVE  \E x \in read \cup {c} :
                 /\ shown1[s].text = PartOf(file, x)
                 /\ shown1[s].number = Cardinality(UpToPart(file, x))
    <3>1. CASE s \in DOMAIN shown
      BY <1>4, <2>2, <2>3, <3>1
    <3>2. CASE s = Len(shown) + 1
      BY <1>2, <1>3, <2>2, <3>2
    <3> QED
      BY <2>4, <3>1, <3>2
  <2>6. ASSUME NEW x \in read \cup {c},
               \E k \in DOMAIN firsts : strstr(PartOf(file, x), firsts[k])
        PROVE  \E s \in DOMAIN shown1 : shown1[s].text = PartOf(file, x)
    <3>1. CASE x \in read
      <4>1. PICK s \in DOMAIN shown : shown[s].text = PartOf(file, x)
        BY <1>5, <2>6, <3>1
      <4> QED
        BY <2>2, <2>3, <2>4, <4>1
    <3>2. CASE x = c
      BY <1>3, <2>2, <2>4, <3>2
    <3> QED
      BY <3>1, <3>2
  <2> QED
    BY <1>2, <1>6, <2>2, <2>5, <2>6 DEF Shown, Entry
<1>8. CASE ~Rare
  <2>1. shown1 = shown
    BY <1>8
  <2>2. \A s \in DOMAIN shown1 : \E x \in read \cup {c} :
          shown1[s].text = PartOf(file, x) /\ shown1[s].number = Cardinality(UpToPart(file, x))
    BY <1>4, <2>1
  <2>3. \A x \in read \cup {c} : (\E k \in DOMAIN firsts : strstr(PartOf(file, x), firsts[k])) =>
          \E s \in DOMAIN shown1 : shown1[s].text = PartOf(file, x)
    BY <1>5, <1>8, <2>1
  <2> QED
    BY <1>1, <1>2, <1>6, <2>1, <2>2, <2>3 DEF Shown
<1> QED
  BY <1>7, <1>8

LEMMA ExtractLineInv == SumInv /\ ExtractLine => SumInv'
<1> SUFFICES ASSUME SumInv, ExtractLine PROVE SumInv'
  OBVIOUS
<1>1. PICK c : ReadsOn(doc, line, offset, c, FileContent, line', offset')
  BY ReadOnInv DEF SumInv, ExtractLine
<1>2. /\ sum = "extract" /\ sum' = "extract" /\ doc' = doc /\ unique_words' = unique_words
      /\ token' = token /\ top' = top /\ sentence_number' = sentence_number + 1
      /\ UNCHANGED tokVars
  BY DEF ExtractLine
<1>3. TokInv' /\ scan' = scan
  BY <1>2, TokUnchangedInv DEF SumInv, tokVars
<1>4. PICK read : read = ReadParts(doc, line, offset)
  OBVIOUS
<1>5. /\ c \notin read /\ UpToPart(doc, c) = read \cup {c} /\ FileContent \in Text
      /\ FileContent = PartOf(doc, c)
      /\ ReadParts(doc', line', offset') = read \cup {c} /\ Position(doc', line', offset')
  BY <1>1, <1>2, <1>4 DEF ReadsOn
<1>6. Shown(doc, read, top, sentence_number, summary)
  BY <1>2, <1>4 DEF SumInv
<1>7. PICK shown1, content, firsts, number, shown, file :
        /\ shown1 = summary' /\ content = FileContent /\ firsts = top
        /\ number = sentence_number /\ shown = summary /\ file = doc
  OBVIOUS
<1>8. shown1 = IF \E k \in DOMAIN firsts : strstr(content, firsts[k])
                 THEN Append(shown, [number |-> number, text |-> content])
                 ELSE shown
  BY <1>7 DEF ExtractLine
<1>9. Shown(file, read \cup {c}, firsts, number + 1, shown1)
  <2>1. /\ Shown(file, read, firsts, number, shown) /\ c \notin read
        /\ UpToPart(file, c) = read \cup {c} /\ content \in Text /\ content = PartOf(file, c)
    BY <1>5, <1>6, <1>7
  <2> QED
    BY <1>8, <2>1, ShownMore
<1>10. Shown(doc', ReadParts(doc', line', offset'), top', sentence_number', summary')
  BY <1>2, <1>5, <1>7, <1>9
<1> QED
  BY <1>2, <1>3, <1>5, <1>10 DEF SumInv

LEMMA SumUnchangedInv ==
  SumInv /\ UNCHANGED <<tokVars, doc, line, offset, token, unique_words, top,
                        sentence_number, summary>>
    /\ (sum' = sum \/ (sum = "extract" /\ EndOfFile /\ sum' = "done")) => SumInv'
<1> SUFFICES ASSUME SumInv,
                    UNCHANGED <<tokVars, doc, line, offset, token, unique_words, top,
                                sentence_number, summary>>,
                    sum' = sum \/ (sum = "extract" /\ EndOfFile /\ sum' = "done")
             PROVE  SumInv'
  OBVIOUS
<1>1. /\ doc' = doc /\ line' = line /\ offset' = offset /\ token' = token
      /\ unique_words' = unique_words /\ top' = top /\ scan' = scan /\ str' = str
      /\ sentence_number' = sentence_number /\ summary' = summary
  BY DEF tokVars
<1>2. TokInv'
  BY TokUnchangedInv DEF SumInv, tokVars
<1>3. CASE sum' = sum
  BY <1>1, <1>2, <1>3 DEF SumInv
<1>4. CASE sum = "extract" /\ EndOfFile /\ sum' = "done"
  BY <1>1, <1>2, <1>4 DEF SumInv, EndOfFile
<1> QED
  BY <1>3, <1>4

LEMMA SumNextInv == SumInv /\ [SumNext]_summaryVars => SumInv'
<1>1. SumInv /\ EndOfSummary => SumInv'
  BY SumUnchangedInv DEF EndOfSummary
<1>2. SumInv /\ UNCHANGED summaryVars => SumInv'
  BY SumUnchangedInv DEF sumVars, summaryVars
<1> QED
  BY <1>1, <1>2, OpenFileInv, CountLineInv, TokenizeStepInv, FillUpInv, LineCountedInv,
     SelectRarestInv, ExtractLineInv DEF SumNext, SumCompute

\* As many words as entries.
LEMMA WordsOfEntries ==
  ASSUME NEW t \in Tables, NEW m \in 0 .. Len(t)
  PROVE  LET words1 == {t[i].word : i \in 1 .. m}
         IN  IsFiniteSet(words1) /\ Cardinality(words1) = m
<1> DEFINE words1 == {t[i].word : i \in 1 .. m}
           g == [i \in 1 .. m |-> t[i].word]
<1>1. /\ Len(t) \in Nat /\ DOMAIN t = 1 .. Len(t)
      /\ \A i, j \in DOMAIN t : t[i].word = t[j].word => i = j
  BY TableFacts
<1>2. m \in Nat /\ 1 .. m \subseteq DOMAIN t
  BY <1>1
<1>3. IsFiniteSet(1 .. m) /\ Cardinality(1 .. m) = m
  BY <1>2, FS_Interval
<1>4. g \in [1 .. m -> words1]
  OBVIOUS
<1>5. \A i, j \in 1 .. m : g[i] = g[j] => i = j
  BY <1>1, <1>2
<1>6. \A w \in words1 : \E i \in 1 .. m : g[i] = w
  OBVIOUS
<1> HIDE DEF g, words1
<1>7. g \in Bijection(1 .. m, words1)
  <2>1. g \in Injection(1 .. m, words1)
    BY <1>4, <1>5 DEF Injection, IsInjective
  <2>2. g \in Surjection(1 .. m, words1)
    BY <1>4, <1>6 DEF Surjection
  <2> QED
    BY <2>1, <2>2 DEF Bijection
<1>8. IsFiniteSet(words1) /\ Cardinality(words1) = m
  BY <1>3, <1>7, FS_Bijection DEF ExistsBijection
<1> QED
  BY <1>8 DEF words1

LEMMA PropertyNames ==
  /\ Places = PlacesOf(doc) /\ Chunks = PartsOf(doc)
  /\ \A x : WordAt(x) = WordsIn(doc, x[1])[x[2]]
  /\ \A c : Chunk(c) = PartOf(doc, c) /\ ChunksUpTo(c) = UpToPart(doc, c)
<1>1. Chunks = PartsOf(doc)
  BY DEF Chunks, PartsOf
<1>2. \A c : Chunk(c) = PartOf(doc, c)
  BY DEF Chunk, PartOf
<1>3. \A c : WordsOf(c) = WordsIn(doc, c)
  BY <1>2 DEF WordsOf, WordsIn
<1>4. Places = PlacesOf(doc)
  BY <1>1, <1>3 DEF Places, PlacesOf
<1>5. \A x : WordAt(x) = WordsIn(doc, x[1])[x[2]]
  BY <1>3 DEF WordAt
<1>6. \A c : ChunksUpTo(c) = UpToPart(doc, c)
  BY <1>1 DEF ChunksUpTo, UpToPart
<1> QED
  BY <1>1, <1>2, <1>4, <1>5, <1>6

LEMMA OccursIs ==
  ASSUME NEW w
  PROVE  Occurs(w) = Cardinality(Seen(PlacesOf(doc), At(doc), w))
<1>1. {place \in Places : WordAt(place) = w} = Seen(PlacesOf(doc), At(doc), w)
  BY PropertyNames DEF Seen, At
<1> QED
  BY <1>1 DEF Occurs

LEMMA CountedFacts ==
  ASSUME SumInv, sum \in {"extract", "done"}
  PROVE  /\ unique_words \in Tables /\ Len(unique_words) \in Nat
         /\ DOMAIN unique_words = 1 .. Len(unique_words)
         /\ Counted = {unique_words[i].word : i \in 1 .. Len(unique_words)}
         /\ Cardinality(Counted) = Len(unique_words)
         /\ \A i \in DOMAIN unique_words : /\ unique_words[i].count = Occurs(unique_words[i].word)
                                           /\ unique_words[i].count \in Nat
         /\ Counted \subseteq DocWords
<1>1. unique_words \in Tables
  BY DEF SumInv, Exact
<1>2. Len(unique_words) \in Nat /\ DOMAIN unique_words = 1 .. Len(unique_words)
      /\ \A i \in DOMAIN unique_words : unique_words[i].count \in Nat
  BY <1>1, TableFacts
<1>3. Counted = {unique_words[i].word : i \in 1 .. Len(unique_words)}
  BY <1>2 DEF Counted
<1>4. Cardinality(Counted) = Len(unique_words)
  <2>1. Len(unique_words) \in 0 .. Len(unique_words)
    BY <1>2
  <2> QED
    BY <1>1, <1>3, <2>1, WordsOfEntries
<1>5. ASSUME NEW i \in DOMAIN unique_words
      PROVE  /\ unique_words[i].count = Occurs(unique_words[i].word)
             /\ unique_words[i].word \in DocWords
  <2>1. /\ unique_words[i].count = Cardinality(Seen(PlacesOf(doc), At(doc), unique_words[i].word))
        /\ \E x \in PlacesOf(doc) : At(doc)[x] = unique_words[i].word
    BY DEF SumInv, Exact
  <2>2. unique_words[i].count = Occurs(unique_words[i].word)
    BY <2>1, OccursIs
  <2>3. PICK x \in PlacesOf(doc) : At(doc)[x] = unique_words[i].word
    BY <2>1
  <2>4. WordAt(x) = unique_words[i].word /\ x \in Places
    BY <2>3, PropertyNames DEF At
  <2> QED
    BY <2>2, <2>4 DEF DocWords
<1>6. Counted \subseteq DocWords
  BY <1>5 DEF Counted
<1> QED
  BY <1>1, <1>2, <1>3, <1>4, <1>5, <1>6

LEMMA TableIsExactly == SumInv => TableIsExact
<1> SUFFICES ASSUME SumInv, sum \in {"extract", "done"}
             PROVE  /\ Cardinality(Counted) = Len(unique_words)
                    /\ \A w \in DOMAIN unique_words :
                         unique_words[w].count = Occurs(unique_words[w].word)
                    /\ Counted \subseteq DocWords
                    /\ Counted = DocWords \/ Len(unique_words) = MAX_UNIQUE_WORDS
  BY DEF TableIsExact
<1>1. Counted = DocWords \/ Len(unique_words) = MAX_UNIQUE_WORDS
  <2>1. CASE Len(unique_words) = MAX_UNIQUE_WORDS
    BY <2>1
  <2>2. CASE \A x \in PlacesOf(doc) : \E i \in DOMAIN unique_words : unique_words[i].word = At(doc)[x]
    <3>1. ASSUME NEW w \in DocWords PROVE w \in Counted
      <4>1. PICK x \in PlacesOf(doc) : At(doc)[x] = w
        BY PropertyNames DEF DocWords, At
      <4> QED
        BY <2>2, <4>1 DEF Counted
    <3> QED
      BY <3>1, CountedFacts
  <2> QED
    BY <2>1, <2>2 DEF SumInv, Exact
<1> QED
  BY <1>1, CountedFacts

LEMMA RarestTaken == SumInv => RarestAreTaken
<1> SUFFICES ASSUME SumInv, sum \in {"extract", "done"}
             PROVE  LET taken == {top[k] : k \in DOMAIN top} IN
                    /\ Cardinality(taken) = Min({TOP, Cardinality(Counted)})
                    /\ \A w \in taken, v \in Counted \ taken : Occurs(w) <= Occurs(v)
  BY DEF RarestAreTaken
<1> DEFINE t == unique_words
           many == Min({TOP, Len(t)})
           taken == {top[k] : k \in DOMAIN top}
<1>1. /\ t \in Tables /\ Len(t) \in Nat /\ DOMAIN t = 1 .. Len(t)
      /\ Counted = {t[i].word : i \in 1 .. Len(t)} /\ Cardinality(Counted) = Len(t)
      /\ \A i \in DOMAIN t : t[i].count = Occurs(t[i].word) /\ t[i].count \in Nat
  BY CountedFacts
<1>2. top = [k \in 1 .. many |-> t[k].word] /\ RarestFirst(t)
  BY DEF SumInv, TakenFrom
<1> HIDE DEF t
<1>3. many \in 0 .. Len(t)
  <2>1. many = Least2(TOP, Len(t))
    BY <1>1, SummaryAssumption, MinOfTwo
  <2> QED
    BY <1>1, <2>1, SummaryAssumption DEF Least2
<1> HIDE DEF many
<1>4. taken = {t[k].word : k \in 1 .. many}
  BY <1>2
<1> HIDE DEF taken
<1>5. Cardinality(taken) = many
  BY <1>1, <1>3, <1>4, WordsOfEntries
<1>6. ASSUME NEW w \in taken, NEW v \in Counted \ taken PROVE Occurs(w) <= Occurs(v)
  <2>1. PICK i \in 1 .. many : w = t[i].word
    BY <1>4
  <2>2. PICK j \in 1 .. Len(t) : v = t[j].word
    BY <1>1
  <2>3. j \notin 1 .. many
    BY <1>4, <2>2
  <2>4. i < j /\ i \in DOMAIN t /\ j \in DOMAIN t
    BY <1>1, <1>3, <2>3
  <2>5. ~(t[j].count < t[i].count)
    BY <1>2, <2>4 DEF RarestFirst, compare_wordcount
  <2> QED
    BY <1>1, <2>1, <2>2, <2>4, <2>5
<1>7. Min({TOP, Cardinality(Counted)}) = many
  BY <1>1 DEF many
<1> QED
  BY <1>5, <1>6, <1>7 DEF taken

LEMMA RareShown == SumInv => RareAreShown
<1> SUFFICES ASSUME SumInv, sum = "done"
             PROVE  /\ \A s \in DOMAIN summary : \E c \in Chunks :
                         /\ summary[s].text = Chunk(c)
                         /\ summary[s].number = Cardinality(ChunksUpTo(c))
                    /\ \A k \in DOMAIN top : \E s \in DOMAIN summary :
                         \E f \in DOMAIN Fields(summary[s].text) :
                           Fields(summary[s].text)[f] = top[k]
  BY DEF RareAreShown
<1>1. doc \in Files /\ ReadParts(doc, line, offset) = PartsOf(doc)
  BY ReadingEnds DEF SumInv
<1>2. Shown(doc, PartsOf(doc), top, sentence_number, summary)
  BY <1>1 DEF SumInv
<1>3. ASSUME NEW s \in DOMAIN summary
      PROVE  \E c \in Chunks : /\ summary[s].text = Chunk(c)
                               /\ summary[s].number = Cardinality(ChunksUpTo(c))
  BY <1>2, PropertyNames DEF Shown
<1>4. ASSUME NEW k \in DOMAIN top
      PROVE  \E s \in DOMAIN summary : \E f \in DOMAIN Fields(summary[s].text) :
               Fields(summary[s].text)[f] = top[k]
  <2>1. top[k] \in Counted
    <3>1. top = [i \in 1 .. Min({TOP, Len(unique_words)}) |-> unique_words[i].word]
      BY DEF SumInv, TakenFrom
    <3>2. Min({TOP, Len(unique_words)}) \in 0 .. Len(unique_words)
      <4>1. Len(unique_words) \in Nat
        BY CountedFacts
      <4>2. Min({TOP, Len(unique_words)}) = Least2(TOP, Len(unique_words))
        BY <4>1, SummaryAssumption, MinOfTwo
      <4> QED
        BY <4>1, <4>2, SummaryAssumption DEF Least2
    <3>3. k \in 1 .. Len(unique_words) /\ top[k] = unique_words[k].word
      <4>1. k \in 1 .. Min({TOP, Len(unique_words)}) /\ top[k] = unique_words[k].word
        BY <3>1
      <4>2. Len(unique_words) \in Nat
        BY CountedFacts
      <4> QED
        BY <3>2, <4>1, <4>2
    <3> QED
      BY <3>3, CountedFacts
  <2>2. PICK x \in PlacesOf(doc) : top[k] = WordsIn(doc, x[1])[x[2]]
    BY <2>1, CountedFacts, PropertyNames DEF DocWords
  <2>a. PICK c \in PartsOf(doc) : c = x[1]
    BY <1>1, PlacesFacts
  <2>3. PICK r \in 1 .. Len(WordsIn(doc, c)) : top[k] = WordsIn(doc, c)[r]
    BY <1>1, <2>2, <2>a, PlacesFacts
  <2>4. /\ strstr(PartOf(doc, c), top[k]) /\ r \in DOMAIN Fields(PartOf(doc, c))
        /\ top[k] = Fields(PartOf(doc, c))[r]
    BY <1>1, <2>3, WordsFacts
  <2>5. PICK s \in DOMAIN summary : summary[s].text = PartOf(doc, c)
    BY <1>2, <2>4 DEF Shown
  <2> QED
    BY <2>4, <2>5
<1> QED
  BY <1>3, <1>4

LEMMA SumTypes == SumInv => SummaryTypeOK
<1> SUFFICES ASSUME SumInv PROVE SummaryTypeOK
  OBVIOUS
<1>1. /\ scan \in {"idle", "scan", "done"} /\ str \in Text
      /\ idx \in 1 .. (Len(str) + 1) /\ start \in 1 .. (Len(str) + 2)
      /\ sum \in {"open", "count", "extract", "done"}
      /\ line \in 1 .. (Len(doc) + 1) /\ token \in 1 .. (max_tokens_size + 1)
  BY DEF SumInv, TokInv, Position
<1>2. ASSUME NEW t \in DOMAIN tokens PROVE tokens[t] \in DOMAIN buffer
  <2>1. PICK i \in Nat : i = start - 1
    BY <1>1, StartsFacts
  <2>2. /\ buffer \in Seq(Nat \cup {NUL}) /\ tokens \in Seq(Nat) /\ FieldsKept(str, buffer, tokens, i)
    BY <2>1 DEF SumInv, TokInv
  <2>3. Rank(str, i) \in Nat
    BY <1>1, RankFacts
  <2>4. t \in 1 .. Least2(Rank(str, i), max_tokens_size)
    BY <2>2 DEF FieldsKept
  <2>5. t \in 1 .. Rank(str, i) /\ t <= max_tokens_size
    BY <2>3, <2>4, TokenizerAssumption DEF Least2
  <2>6. PICK k \in FieldStarts(str) : k <= i /\ Rank(str, k) = t
    BY <2>2, <2>5 DEF FieldsKept
  <2>7. IsAt(buffer, str, tokens[t], k)
    BY <2>2, <2>5, <2>6 DEF FieldsKept
  <2>8. PICK long \in Nat : long = FieldEnd(str, k) - k + 1 /\ tokens[t] + long <= Len(buffer)
                            /\ tokens[t] \in Nat \ {0}
    BY <2>7 DEF IsAt
  <2>9. DOMAIN buffer = 1 .. Len(buffer) /\ Len(buffer) \in Nat
    BY <2>2, LenProperties
  <2> QED
    BY <2>8, <2>9
<1>3. /\ Len(unique_words) <= MAX_UNIQUE_WORDS
      /\ \A w \in DOMAIN unique_words : unique_words[w].count \in Nat \ {0}
  <2>1. CASE unique_words = <<>>
    BY <2>1, SummaryAssumption
  <2>2. CASE \E P, f : Exact(unique_words, P, f)
    <3>1. PICK P, f : Exact(unique_words, P, f)
      BY <2>2
    <3>2. ASSUME NEW w \in DOMAIN unique_words PROVE unique_words[w].count \in Nat \ {0}
      <4>1. PICK x \in P : f[x] = unique_words[w].word
        BY <3>1 DEF Exact
      <4> DEFINE here == Seen(P, f, unique_words[w].word)
      <4>2. here \subseteq P /\ x \in here
        BY <4>1 DEF Seen
      <4>3. unique_words[w].count = Cardinality(here) /\ IsFiniteSet(P)
        BY <3>1 DEF Exact
      <4> HIDE DEF here
      <4>4. IsFiniteSet(here)
        BY <4>2, <4>3, FS_Subset
      <4> QED
        BY <4>2, <4>3, <4>4, FS_EmptySet, FS_CardinalityType
    <3> QED
      BY <3>1, <3>2 DEF Exact
  <2>3. unique_words = <<>> \/ \E P, f : Exact(unique_words, P, f)
    BY DEF SumInv, Counting
  <2> QED
    BY <2>1, <2>2, <2>3
<1>4. Len(top) <= TOP
  <2>1. CASE top = <<>>
    BY <2>1, SummaryAssumption
  <2>2. CASE sum \in {"extract", "done"}
    <3>1. PICK many \in Nat : many = Min({TOP, Len(unique_words)}) /\ many <= TOP
      <4>1. Len(unique_words) \in Nat
        BY <2>2, CountedFacts
      <4>2. Min({TOP, Len(unique_words)}) = Least2(TOP, Len(unique_words))
        BY <4>1, SummaryAssumption, MinOfTwo
      <4> QED
        BY <4>1, <4>2, SummaryAssumption DEF Least2
    <3>2. top = [i \in 1 .. many |-> unique_words[i].word]
      BY <2>2, <3>1 DEF SumInv, TakenFrom
    <3> DEFINE Set == {unique_words[i].word : i \in 1 .. many}
    <3>3. top \in [1 .. many -> Set]
      BY <3>2
    <3> HIDE DEF Set
    <3>4. Len(top) = many
      BY <3>3, FunctionIsSeq
    <3> QED
      BY <3>1, <3>4
  <2> QED
    BY <1>1, <2>1, <2>2 DEF SumInv
<1> QED
  BY <1>1, <1>2, <1>3, <1>4 DEF SummaryTypeOK

LEMMA SumInvProves ==
  SumInv => /\ SummaryTypeOK /\ BufferFits /\ TokensAreFields
            /\ TableIsExact /\ SummaryIsOfRarest
<1>1. SumInv => TokInv
  BY DEF SumInv
<1> QED
  BY <1>1, SumTypes, TokensRead, TableIsExactly, RarestTaken, RareShown
     DEF TokensAreFields, SummaryIsOfRarest

-----------------------------------------------------------------------------
(* The e-mail program: texts.                                              *)

\* Texts as the provers are shown them: the lemmas say all that is used.
Signs == {"_", "-", " ", "at", "the", "rate", "(", ")", "[", "]", "@", "dot", ".",
          "period", "underscore", "gm", "ai", "l", "google", "mail", "com",
          "ann", "lee", "x", "yahoo", "Email", "ID", "AT", "DOT", "email", "id",
          "7", "10", ":"}
Symbols == Signs \cup UNION {ToSet(text) : text \in Mails}
Sym == Seq(Symbols)
a \bullet b == a \o b
Indices(x) == 1 .. Len(x)
Nth(x, n) == x[n]
Past(x, n) == Len(x) + n
Without(x, w) == \A n \in Indices(x) : Nth(x, n) # w
Length(x) == Len(x)

LEMMA Concat ==
  \A a, b \in Sym :
    /\ a \bullet b \in Sym
    /\ Length(a) \in Nat /\ Length(a \bullet b) = Length(a) + Length(b)
  BY DEF Sym, \bullet, Length

LEMMA ConcatLeft ==
  ASSUME NEW a \in Sym, NEW b \in Sym, NEW n \in Indices(a)
  PROVE  Nth(a \bullet b, n) = Nth(a, n) /\ n \in Indices(a \bullet b)
<1>1. Len(a) \in Nat /\ Len(b) \in Nat /\ Len(a \bullet b) = Len(a) + Len(b)
      /\ (a \bullet b)[n] = a[n]
  BY DEF Sym, \bullet, Indices
<1> QED
  BY <1>1 DEF Indices, Nth

LEMMA ConcatRight ==
  ASSUME NEW a \in Sym, NEW b \in Sym, NEW n \in Indices(b)
  PROVE  Nth(a \bullet b, Past(a, n)) = Nth(b, n) /\ Past(a, n) \in Indices(a \bullet b)
<1>1. Len(a) \in Nat /\ Len(b) \in Nat /\ Len(a \bullet b) = Len(a) + Len(b)
      /\ (a \bullet b)[Len(a) + n] = b[n]
  BY DEF Sym, \bullet, Indices
<1> QED
  BY <1>1 DEF Indices, Nth, Past

LEMMA ConcatAssoc ==
  \A a, b, c \in Sym : (a \bullet b) \bullet c = a \bullet (b \bullet c)
  BY ConcatAssociative DEF Sym, \bullet

LEMMA ConcatCancels ==
  \A a, b, c \in Sym : a \bullet b = a \bullet c => b = c
  BY ConcatSimplifications DEF Sym, \bullet

LEMMA OneSymbol ==
  \A w \in Symbols : /\ <<w>> \in Sym /\ Length(<<w>>) = 1 /\ 1 \in Indices(<<w>>)
                     /\ Nth(<<w>>, 1) = w
  BY DEF Sym, Length, Indices, Nth

LEMMA NoSymbols ==
  /\ <<>> \in Sym /\ Length(<<>>) = 0
  /\ \A a \in Sym : /\ a \bullet <<>> = a /\ <<>> \bullet a = a
                    /\ Length(a) = 0 => a = <<>>
  BY ConcatEmptySeq DEF Sym, \bullet, Length

LEMMA SameSymbols ==
  ASSUME NEW a \in Sym, NEW b \in Sym, Length(a) = Length(b),
         \A n \in Indices(a) : Nth(a, n) = Nth(b, n)
  PROVE  a = b
  BY SeqEqual DEF Sym, Length, Indices, Nth

LEMMA CutAt ==
  ASSUME NEW c \in Sym, NEW k \in 0 .. Length(c)
  PROVE  \E a, b \in Sym : c = a \bullet b /\ Length(a) = k
<1>1. Len(c) \in Nat /\ k \in 0 .. Len(c)
  BY DEF Sym, Length
<1>2. /\ SubSeq(c, 1, k) \in Sym /\ Len(SubSeq(c, 1, k)) = k
      /\ SubSeq(c, k + 1, Len(c)) \in Sym
  BY <1>1 DEF Sym
<1>3. SubSeq(c, 1, Len(c)) = c
  BY SubSeqFull DEF Sym
<1>4. 1 \in 1 .. (Len(c) + 1) /\ k \in (1 - 1) .. Len(c) /\ Len(c) \in k .. Len(c)
  BY <1>1
<1>5. SubSeq(c, 1, k) \bullet SubSeq(c, k + 1, Len(c)) = SubSeq(c, 1, Len(c))
  BY <1>4, ConcatAdjacentSubSeq DEF Sym, \bullet
<1> QED
  BY <1>2, <1>3, <1>5 DEF Length

\* Where two ways to cut a text in two differ, one part is in both.
LEMMA TwoCuts ==
  ASSUME NEW a \in Sym, NEW b \in Sym, NEW c \in Sym, NEW d \in Sym,
         a \bullet b = c \bullet d, Length(a) <= Length(c)
  PROVE  \E e \in Sym : c = a \bullet e /\ b = e \bullet d
<1>1. Length(a) \in Nat /\ Length(c) \in Nat /\ Length(a) \in 0 .. Length(c)
  BY Concat
<1> PICK f \in Sym, e \in Sym : c = f \bullet e /\ Length(f) = Length(a)
  BY <1>1, CutAt
<1>2. Indices(f) = Indices(a)
  BY DEF Indices, Length
<1>3. \A n \in Indices(f) : Nth(f, n) = Nth(a, n)
  <2> SUFFICES ASSUME NEW n \in Indices(f) PROVE Nth(f, n) = Nth(a, n)
    OBVIOUS
  <2>1. Nth(a \bullet b, n) = Nth(a, n)
    BY <1>2, ConcatLeft
  <2>2. Nth(f \bullet e, n) = Nth(f, n) /\ n \in Indices(f \bullet e)
    BY ConcatLeft
  <2>3. Nth(c \bullet d, n) = Nth(c, n)
    BY <2>2, ConcatLeft
  <2> QED
    BY <2>1, <2>2, <2>3
<1>4. f = a
  BY <1>3, SameSymbols
<1>5. a \bullet b = a \bullet (e \bullet d)
  BY <1>4, ConcatAssoc
<1>6. e \bullet d \in Sym
  BY Concat
<1>7. b = e \bullet d
  BY <1>5, <1>6, ConcatCancels
<1> QED
  BY <1>4, <1>7

-----------------------------------------------------------------------------
(* Replacing in a text, and in its parts.                                  *)

\* A text and another with a symbol between them.
Join(l, w, r) == l \bullet (<<w>> \bullet r)

\* y is x with one occurrence of old replaced.
Replaced(x, old, new, y) ==
  \E p, s \in Sym : x = p \bullet (old \bullet s) /\ y = p \bullet (new \bullet s)
Has(x, old) == \E p, s \in Sym : x = p \bullet (old \bullet s)

LEMMA JoinIsText ==
  ASSUME NEW l \in Sym, NEW r \in Sym, NEW w \in Symbols
  PROVE  Join(l, w, r) \in Sym
  BY Concat, OneSymbol DEF Join

OneSide(l, w, r, old, p, s) ==
  \/ \E q \in Sym : l = p \bullet (old \bullet q) /\ s = Join(q, w, r)
  \/ \E q \in Sym : r = q \bullet (old \bullet s) /\ p = Join(l, w, q)

\* An occurrence of a text without the word w is on one side of it.
LEMMA OnOneSide ==
  ASSUME NEW l \in Sym, NEW r \in Sym, NEW w \in Symbols,
         NEW old \in Sym, Without(old, w),
         NEW p \in Sym, NEW s \in Sym, Join(l, w, r) = p \bullet (old \bullet s)
  PROVE  OneSide(l, w, r, old, p, s)
<1> PICK v \in Sym : v = <<w>> /\ Length(v) = 1 /\ 1 \in Indices(v) /\ Nth(v, 1) = w
  BY OneSymbol
<1>1. /\ Length(l) \in Nat /\ Length(p) \in Nat /\ Length(old) \in Nat
      /\ Length(l \bullet v) = Length(l) + 1 /\ Length(p \bullet old) = Length(p) + Length(old)
  BY Concat
<1>2. v \bullet r \in Sym /\ old \bullet s \in Sym /\ p \bullet old \in Sym /\ l \bullet v \in Sym
  BY Concat
<1>3. l \bullet (v \bullet r) = p \bullet (old \bullet s)
  BY DEF Join
<1>4. /\ (p \bullet old) \bullet s = p \bullet (old \bullet s)
      /\ (l \bullet v) \bullet r = l \bullet (v \bullet r)
  BY ConcatAssoc
<1>5. CASE Length(p \bullet old) <= Length(l)
  <2>1. (p \bullet old) \bullet s = l \bullet (v \bullet r)
    BY <1>3, <1>4
  <2> PICK q \in Sym : l = (p \bullet old) \bullet q /\ s = q \bullet (v \bullet r)
    BY <1>2, <1>5, <2>1, TwoCuts
  <2>2. l = p \bullet (old \bullet q)
    BY ConcatAssoc
  <2> QED
    BY <2>2 DEF Join, OneSide
<1>6. CASE Length(l \bullet v) <= Length(p)
  <2>1. (l \bullet v) \bullet r = p \bullet (old \bullet s)
    BY <1>3, <1>4
  <2> PICK q \in Sym : p = (l \bullet v) \bullet q /\ r = q \bullet (old \bullet s)
    BY <1>2, <1>6, <2>1, TwoCuts
  <2>2. p = l \bullet (v \bullet q)
    BY ConcatAssoc
  <2> QED
    BY <2>2 DEF Join, OneSide
<1>7. CASE Length(l) < Length(p \bullet old) /\ Length(p) < Length(l \bullet v)
  <2>1. Length(l \bullet v) <= Length(p \bullet old) /\ Length(p) <= Length(l)
    BY <1>1, <1>7
  <2>2. (l \bullet v) \bullet r = (p \bullet old) \bullet s
    BY <1>3, <1>4
  <2> PICK e \in Sym : p \bullet old = (l \bullet v) \bullet e
    BY <1>2, <2>1, <2>2, TwoCuts
  <2>3. v \bullet e \in Sym /\ p \bullet old = l \bullet (v \bullet e)
    BY Concat, ConcatAssoc
  <2> PICK f \in Sym : old = f \bullet (v \bullet e)
    BY <2>1, <2>3, TwoCuts
  <2>4. Nth(v \bullet e, 1) = w /\ 1 \in Indices(v \bullet e)
    BY ConcatLeft
  <2>5. Nth(old, Past(f, 1)) = w /\ Past(f, 1) \in Indices(old)
    BY <2>3, <2>4, ConcatRight
  <2> QED
    BY <2>5 DEF Without
<1> QED
  BY <1>1, <1>5, <1>6, <1>7

TurnedSide(l, w, r, old, new, y) ==
  \/ \E x \in Sym : Replaced(l, old, new, x) /\ y = Join(x, w, r)
  \/ \E x \in Sym : Replaced(r, old, new, x) /\ y = Join(l, w, x)

LEMMA TurnedInJoin ==
  ASSUME NEW l \in Sym, NEW r \in Sym, NEW w \in Symbols,
         NEW old \in Sym, Without(old, w),
         NEW new \in Sym, NEW y, Replaced(Join(l, w, r), old, new, y)
  PROVE  TurnedSide(l, w, r, old, new, y)
<1> PICK p \in Sym, s \in Sym :
           Join(l, w, r) = p \bullet (old \bullet s) /\ y = p \bullet (new \bullet s)
  BY DEF Replaced
<1> PICK v \in Sym : v = <<w>>
  BY OneSymbol
<1>1. v \bullet r \in Sym
  BY Concat
<1>2. ASSUME NEW q \in Sym, l = p \bullet (old \bullet q), s = Join(q, w, r)
      PROVE  \E x \in Sym : Replaced(l, old, new, x) /\ y = Join(x, w, r)
  <2>1. new \bullet q \in Sym
    BY Concat
  <2>2. p \bullet (new \bullet q) \in Sym
    BY <2>1, Concat
  <2>3. Replaced(l, old, new, p \bullet (new \bullet q))
    BY <1>2 DEF Replaced
  <2>4. new \bullet (q \bullet (v \bullet r)) = (new \bullet q) \bullet (v \bullet r)
    BY <1>1, ConcatAssoc
  <2>5. p \bullet ((new \bullet q) \bullet (v \bullet r)) =
             (p \bullet (new \bullet q)) \bullet (v \bullet r)
    BY <1>1, <2>1, ConcatAssoc
  <2>6. y = Join(p \bullet (new \bullet q), w, r)
    BY <1>2, <2>4, <2>5 DEF Join
  <2> QED
    BY <2>2, <2>3, <2>6
<1>3. ASSUME NEW q \in Sym, r = q \bullet (old \bullet s), p = Join(l, w, q)
      PROVE  \E x \in Sym : Replaced(r, old, new, x) /\ y = Join(l, w, x)
  <2>1. new \bullet s \in Sym /\ v \bullet q \in Sym
    BY Concat
  <2>2. q \bullet (new \bullet s) \in Sym
    BY <2>1, Concat
  <2>3. Replaced(r, old, new, q \bullet (new \bullet s))
    BY <1>3 DEF Replaced
  <2>4. (l \bullet (v \bullet q)) \bullet (new \bullet s) =
             l \bullet ((v \bullet q) \bullet (new \bullet s))
    BY <2>1, ConcatAssoc
  <2>5. (v \bullet q) \bullet (new \bullet s) = v \bullet (q \bullet (new \bullet s))
    BY <2>1, ConcatAssoc
  <2>6. y = Join(l, w, q \bullet (new \bullet s))
    BY <1>3, <2>4, <2>5 DEF Join
  <2> QED
    BY <2>2, <2>3, <2>6
<1>4. OneSide(l, w, r, old, p, s)
  BY OnOneSide
<1> QED
  BY <1>2, <1>3, <1>4 DEF OneSide, TurnedSide

LEMMA HasInJoin ==
  ASSUME NEW l \in Sym, NEW r \in Sym, NEW w \in Symbols,
         NEW old \in Sym, Has(l, old) \/ Has(r, old)
  PROVE  Has(Join(l, w, r), old)
<1> PICK v \in Sym : v = <<w>>
  BY OneSymbol
<1>1. v \bullet r \in Sym
  BY Concat
<1>2. CASE Has(l, old)
  <2> PICK p \in Sym, s \in Sym : l = p \bullet (old \bullet s)
    BY <1>2 DEF Has
  <2>1. old \bullet s \in Sym /\ s \bullet (v \bullet r) \in Sym
    BY <1>1, Concat
  <2>2. (p \bullet (old \bullet s)) \bullet (v \bullet r) =
             p \bullet ((old \bullet s) \bullet (v \bullet r))
    BY <1>1, <2>1, ConcatAssoc
  <2>3. (old \bullet s) \bullet (v \bullet r) = old \bullet (s \bullet (v \bullet r))
    BY <1>1, ConcatAssoc
  <2>4. Join(l, w, r) = p \bullet (old \bullet (s \bullet (v \bullet r)))
    BY <2>2, <2>3 DEF Join
  <2> QED
    BY <2>1, <2>4 DEF Has
<1>3. CASE Has(r, old)
  <2> PICK p \in Sym, s \in Sym : r = p \bullet (old \bullet s)
    BY <1>3 DEF Has
  <2>1. old \bullet s \in Sym /\ v \bullet p \in Sym
    BY Concat
  <2>2. l \bullet (v \bullet p) \in Sym
    BY <2>1, Concat
  <2>3. v \bullet (p \bullet (old \bullet s)) = (v \bullet p) \bullet (old \bullet s)
    BY <2>1, ConcatAssoc
  <2>4. l \bullet ((v \bullet p) \bullet (old \bullet s)) =
             (l \bullet (v \bullet p)) \bullet (old \bullet s)
    BY <2>1, ConcatAssoc
  <2>5. Join(l, w, r) = (l \bullet (v \bullet p)) \bullet (old \bullet s)
    BY <2>3, <2>4 DEF Join
  <2> QED
    BY <2>2, <2>5 DEF Has
<1> QED
  BY <1>2, <1>3

\* What is replaced has all of its symbols in the text.
LEMMA HasSymbols ==
  ASSUME NEW x \in Sym, NEW old \in Sym, Has(x, old), NEW w, Without(x, w)
  PROVE  Without(old, w)
<1> SUFFICES ASSUME NEW n \in Indices(old), Nth(old, n) = w PROVE FALSE
  BY DEF Without
<1> PICK p \in Sym, s \in Sym : x = p \bullet (old \bullet s)
  BY DEF Has
<1>1. old \bullet s \in Sym
  BY Concat
<1>2. Nth(old \bullet s, n) = w /\ n \in Indices(old \bullet s)
  BY ConcatLeft
<1>3. Nth(x, Past(p, n)) = w /\ Past(p, n) \in Indices(x)
  BY <1>1, <1>2, ConcatRight
<1> QED
  BY <1>3 DEF Without

LEMMA TurnedHas == \A x, old, new, y : Replaced(x, old, new, y) => Has(x, old)
  BY DEF Replaced, Has

\* A text that is replaced as a whole.
LEMMA TurnedWhole ==
  ASSUME NEW old \in Sym, NEW new \in Sym
  PROVE  Has(old, old) /\ \A y : Replaced(old, old, new, y) => y = new
<1>1. Has(old, old)
  BY NoSymbols DEF Has
<1>2. ASSUME NEW y, Replaced(old, old, new, y) PROVE y = new
  <2> PICK p \in Sym, s \in Sym : old = p \bullet (old \bullet s) /\ y = p \bullet (new \bullet s)
    BY <1>2 DEF Replaced
  <2>1. Length(p) \in Nat /\ Length(old) \in Nat /\ Length(s) \in Nat /\ old \bullet s \in Sym
        /\ Length(old \bullet s) = Length(old) + Length(s)
    BY Concat
  <2>2. Length(old) = Length(p) + (Length(old) + Length(s))
    BY <2>1, Concat
  <2>3. Length(p) = 0 /\ Length(s) = 0
    BY <2>1, <2>2
  <2>4. p = <<>> /\ s = <<>>
    BY <2>3, NoSymbols
  <2> QED
    BY <2>4, NoSymbols
<1> QED
  BY <1>1, <1>2

Bracketed(a, x, b) == <<a>> \bullet (x \bullet <<b>>)

\* A text that is replaced within a pair of symbols.
LEMMA TurnedInside ==
  ASSUME NEW old \in Sym, NEW a \in Symbols, NEW b \in Symbols, NEW new \in Sym,
         1 \in Indices(old), Nth(old, 1) # a,
         Length(old) \in Indices(old), Nth(old, Length(old)) # b
  PROVE  /\ Has(Bracketed(a, old, b), old)
         /\ \A y : Replaced(Bracketed(a, old, b), old, new, y) => y = Bracketed(a, new, b)
<1> PICK aa \in Sym : aa = <<a>> /\ Length(aa) = 1 /\ 1 \in Indices(aa) /\ Nth(aa, 1) = a
  BY OneSymbol
<1> PICK bb \in Sym : bb = <<b>> /\ Length(bb) = 1 /\ 1 \in Indices(bb) /\ Nth(bb, 1) = b
  BY OneSymbol
<1>2. /\ old \bullet bb \in Sym /\ Length(old \bullet bb) = Length(old) + 1
      /\ Nth(old \bullet bb, Past(old, 1)) = b
      /\ Past(old, 1) \in Indices(old \bullet bb)
  BY Concat, ConcatRight
<1> PICK x \in Sym : x = aa \bullet (old \bullet bb)
  BY <1>2, Concat
<1>3. /\ Length(x) = 1 + (Length(old) + 1) /\ Nth(x, 1) = a
      /\ Nth(x, Past(aa, Past(old, 1))) = b
  BY <1>2, Concat, ConcatLeft, ConcatRight
<1>4. ASSUME NEW y, Replaced(x, old, new, y) PROVE y = <<a>> \bullet (new \bullet <<b>>)
  <2> PICK p \in Sym, s \in Sym : x = p \bullet (old \bullet s) /\ y = p \bullet (new \bullet s)
    BY <1>4 DEF Replaced
  <2>1. /\ Length(p) \in Nat /\ Length(s) \in Nat /\ Length(old) \in Nat
        /\ old \bullet s \in Sym
        /\ Length(x) = Length(p) + (Length(old) + Length(s))
    BY Concat
  <2>2. /\ Nth(old \bullet s, 1) = Nth(old, 1) /\ 1 \in Indices(old \bullet s)
        /\ Nth(old \bullet s, Length(old)) = Nth(old, Length(old))
        /\ Length(old) \in Indices(old \bullet s)
    BY ConcatLeft
  <2>3. /\ Nth(x, Past(p, 1)) = Nth(old, 1)
        /\ Nth(x, Past(p, Length(old))) = Nth(old, Length(old))
    BY <2>1, <2>2, ConcatRight
  <2>5. Length(p) # 0
    <3> SUFFICES ASSUME Length(p) = 0 PROVE FALSE
      OBVIOUS
    <3>1. Past(p, 1) = 1
      BY DEF Past, Length
    <3> QED
      BY <1>3, <2>3, <3>1
  <2>6. Length(s) # 0
    <3> SUFFICES ASSUME Length(s) = 0 PROVE FALSE
      OBVIOUS
    <3>1. Length(p) = 2
      BY <1>3, <2>1
    <3>2. Past(p, Length(old)) = Past(aa, Past(old, 1))
      BY <2>1, <3>1 DEF Past, Length
    <3> QED
      BY <1>3, <2>3, <3>2
  <2>7. Length(p) = 1 /\ Length(s) = 1
    BY <1>3, <2>1, <2>5, <2>6
  <2>8. Indices(p) = {1}
    BY <2>7 DEF Indices, Length
  <2>9. Nth(p, 1) = a
    BY <1>3, <2>1, <2>8, ConcatLeft
  <2>10. p = aa
    BY <2>7, <2>8, <2>9, SameSymbols
  <2>11. old \bullet s = old \bullet bb
    BY <1>2, <2>1, <2>10, ConcatCancels
  <2>12. s = bb
    BY <2>11, ConcatCancels
  <2> QED
    BY <2>10, <2>12
<1>5. Has(x, old)
  BY DEF Has
<1> QED
  BY <1>4, <1>5 DEF Bracketed

-----------------------------------------------------------------------------
(* The symbols and the texts the rules are about.                          *)

\* Texts of a few symbols.
One(a) == <<a>>
Two(a, b) == <<a, b>>
Three(a, b, c) == <<a, b, c>>
Four(a, b, c, d) == <<a, b, c, d>>
Five(a, b, c, d, e) == <<a, b, c, d, e>>
Seven(a, b, c, d, e, f, g) == <<a, b, c, d, e, f, g>>

LEMMA WithoutOne ==
  \A a, w :
    Without(One(a), w) <=> a # w
  BY DEF Without, Indices, Nth, One
LEMMA WithoutTwo ==
  \A a, b, w :
    Without(Two(a, b), w) <=> a # w /\ b # w
  BY DEF Without, Indices, Nth, Two
LEMMA WithoutThree ==
  \A a, b, c, w :
    Without(Three(a, b, c), w) <=> a # w /\ b # w /\ c # w
  BY DEF Without, Indices, Nth, Three
LEMMA WithoutFour ==
  \A a, b, c, d, w :
    Without(Four(a, b, c, d), w) <=> a # w /\ b # w /\ c # w /\ d # w
  BY DEF Without, Indices, Nth, Four
LEMMA WithoutFive ==
  \A a, b, c, d, e, w :
    Without(Five(a, b, c, d, e), w) <=> a # w /\ b # w /\ c # w /\ d # w /\ e # w
  BY DEF Without, Indices, Nth, Five
LEMMA WithoutSeven ==
  \A a, b, c, d, e, f, g, w :
    Without(Seven(a, b, c, d, e, f, g), w) <=>
         a # w /\ b # w /\ c # w /\ d # w /\ e # w /\ f # w /\ g # w
  BY DEF Without, Indices, Nth, Seven

LEMMA ShortTexts ==
  /\ \A a \in Symbols : One(a) \in Sym
  /\ \A a, b \in Symbols : Two(a, b) \in Sym
  /\ \A a, b, c \in Symbols : Three(a, b, c) \in Sym
  /\ \A a, b, c, d \in Symbols : Four(a, b, c, d) \in Sym
  /\ \A a, b, c, d, e \in Symbols : Five(a, b, c, d, e) \in Sym
  /\ \A a, b, c, d, e, f, g \in Symbols : Seven(a, b, c, d, e, f, g) \in Sym
  BY DEF Sym, One, Two, Three, Four, Five, Seven

\* Two symbols under names that the SMT solver can read.
Blank == " "
Low == "_"
LEMMA OtherThanThese ==
  /\ Blank # "-" /\ Blank # "at" /\ Blank # "the" /\ Blank # "rate" /\ Blank # "(" /\ Blank # ")"
  /\ Blank # "[" /\ Blank # "]" /\ Blank # "@" /\ Blank # "dot" /\ Blank # "." /\ Blank # "period"
  /\ Blank # "underscore" /\ Blank # "gm" /\ Blank # "ai" /\ Blank # "l" /\ Blank # "google"
  /\ Blank # "mail" /\ Blank # "com" /\ Blank # "ann" /\ Blank # "lee" /\ Blank # "x" /\ Blank # "yahoo"
  /\ Blank # "Email"
  /\ Blank # "ID" /\ Blank # "AT" /\ Blank # "DOT" /\ Blank # "email" /\ Blank # "id" /\ Blank # "7"
  /\ Blank # "10" /\ Blank # ":"
  /\ Low # "-" /\ Low # "at" /\ Low # "the" /\ Low # "rate" /\ Low # "(" /\ Low # ")"
  /\ Low # "[" /\ Low # "]" /\ Low # "@" /\ Low # "dot" /\ Low # "." /\ Low # "period"
  /\ Low # "underscore" /\ Low # "gm" /\ Low # "ai" /\ Low # "l" /\ Low # "google" /\ Low # "mail"
  /\ Low # "com" /\ Low # "ann" /\ Low # "lee" /\ Low # "x" /\ Low # "yahoo" /\ Low # "Email"
  /\ Low # "ID" /\ Low # "AT" /\ Low # "DOT" /\ Low # "email" /\ Low # "id" /\ Low # "7"
  /\ Low # "10" /\ Low # ":"
  /\ Blank # Low
  BY Zenon DEF Blank, Low

LEMMA TheLetters ==
  /\ "-" \in Symbols /\ "at" \in Symbols /\ "the" \in Symbols /\ "rate" \in Symbols
  /\ "(" \in Symbols
  /\ ")" \in Symbols /\ "[" \in Symbols /\ "]" \in Symbols /\ "@" \in Symbols /\ "dot" \in Symbols
  /\ "." \in Symbols /\ "period" \in Symbols /\ "underscore" \in Symbols /\ "gm" \in Symbols
  /\ "ai" \in Symbols
  /\ "l" \in Symbols /\ "google" \in Symbols /\ "mail" \in Symbols /\ "com" \in Symbols
  /\ "ann" \in Symbols
  /\ "lee" \in Symbols /\ "x" \in Symbols /\ "yahoo" \in Symbols /\ "Email" \in Symbols
  /\ "ID" \in Symbols
  /\ "AT" \in Symbols /\ "DOT" \in Symbols /\ "email" \in Symbols /\ "id" \in Symbols
  /\ "7" \in Symbols
  /\ "10" \in Symbols /\ ":" \in Symbols
  /\ Blank \in Symbols /\ Low \in Symbols
<1>1. Signs \subseteq Symbols
  BY Zenon DEF Symbols
<1> QED
  BY Zenon, <1>1 DEF Signs, Blank, Low

\* What stands for the @ while it is rewritten: x, with rule d the next that is
\* about it, 27 when nothing is left to do.
AtForm(x, d) ==
  \/ d = 1 /\ x = Seven(Low, "at", Low, "the", Low, "rate", Low)
  \/ d = 2 /\ x = Seven("-", "at", "-", "the", "-", "rate", "-")
  \/ d = 3 /\ x = Seven(Blank, "at", Blank, "the", Blank, "rate", Blank)
  \/ d = 4 /\ x = Five("(", "at", "the", "rate", ")")
  \/ d = 4 /\ x = Three("at", "the", "rate")
  \/ d = 6 /\ x = Three("(", "at", ")")
  \/ d = 6 /\ x = Five(Blank, "(", "at", ")", Blank)
  \/ d = 7 /\ x = Three("[", "at", "]")
  \/ d = 7 /\ x = Five(Blank, "[", "at", "]", Blank)
  \/ d = 8 /\ x = Three(Blank, "at", Blank)
  \/ d = 9 /\ x = Three("(", "@", ")")
  \/ d = 24 /\ x = Three(Blank, "@", Blank)
  \/ d = 27 /\ x = One("@")

LEMMA AtFacts ==
  ASSUME NEW x, NEW d, AtForm(x, d)
  PROVE  /\ x \in Sym /\ d \in 1 .. 27
         /\ Without(x, "dot") /\ Without(x, "period")
         /\ Without(x, "underscore") /\ Without(x, "gm")
         /\ Without(x, "google") /\ Without(x, ".")
         /\ d = 27 => x = One("@")
<1>1. x \in Sym
  <2>1. Seven(Low, "at", Low, "the", Low, "rate", Low) \in Sym
    BY ShortTexts, TheLetters, Zenon
  <2>2. Seven("-", "at", "-", "the", "-", "rate", "-") \in Sym
    BY ShortTexts, TheLetters, Zenon
  <2>3. Seven(Blank, "at", Blank, "the", Blank, "rate", Blank) \in Sym
    BY ShortTexts, TheLetters, Zenon
  <2>4. Five("(", "at", "the", "rate", ")") \in Sym /\ Three("at", "the", "rate") \in Sym
    BY ShortTexts, TheLetters, Zenon
  <2>5. /\ Three("(", "at", ")") \in Sym /\ Five(Blank, "(", "at", ")", Blank) \in Sym
        /\ Three("[", "at", "]") \in Sym /\ Five(Blank, "[", "at", "]", Blank) \in Sym
    BY ShortTexts, TheLetters, Zenon
  <2>6. /\ Three(Blank, "at", Blank) \in Sym /\ Three("(", "@", ")") \in Sym
        /\ Three(Blank, "@", Blank) \in Sym /\ One("@") \in Sym
    BY ShortTexts, TheLetters, Zenon
  <2> QED
    BY <2>1, <2>2, <2>3, <2>4, <2>5, <2>6 DEF AtForm
<1>2. d \in 1 .. 27
  BY DEF AtForm
<1>3. /\ Without(x, "dot") /\ Without(x, "period")
      /\ Without(x, "underscore") /\ Without(x, "gm")
      /\ Without(x, "google") /\ Without(x, ".")
  BY OtherThanThese, WithoutOne, WithoutTwo, WithoutThree, WithoutFive, WithoutSeven DEF AtForm
<1>4. d = 27 => x = One("@")
  BY DEF AtForm
<1> QED
  BY <1>1, <1>2, <1>3, <1>4

LEMMA AtOwn ==
  ASSUME NEW x, NEW d, AtForm(x, d)
  PROVE  /\ 1 < d => Without(x, Low)
         /\ 2 < d => Without(x, "-")
         /\ 3 < d => Without(x, "the") \/ Without(x, Blank)
         /\ 4 < d => Without(x, "the")
         /\ 6 < d => Without(x, "(") \/ Without(x, "at")
         /\ 7 < d => Without(x, "[")
         /\ 8 < d => Without(x, "at")
         /\ 9 < d => Without(x, "(")
         /\ 24 < d => Without(x, Blank)
  BY OtherThanThese, WithoutOne, WithoutTwo, WithoutThree, WithoutFive, WithoutSeven DEF AtForm

-----------------------------------------------------------------------------
(* The rules, one by one.                                                  *)

Rule(o, u) == [old |-> o, updated |-> u]
LEMMA RuleParts == \A o, u : Rule(o, u).old = o /\ Rule(o, u).updated = u
  BY DEF Rule

LEMMA AtRulesAre ==
  AtRules =
  << Rule(Seven(Low, "at", Low, "the", Low, "rate", Low), One("@")),
     Rule(Seven("-", "at", "-", "the", "-", "rate", "-"), One("@")),
     Rule(Seven(Blank, "at", Blank, "the", Blank, "rate", Blank), One("@")),
     Rule(Three("at", "the", "rate"), One("@")),
     Rule(Five("(", "at", "the", "rate", ")"), One("@")),
     Rule(Three("(", "at", ")"), One("@")),
     Rule(Three("[", "at", "]"), One("@")),
     Rule(Three(Blank, "at", Blank), One("@")),
     Rule(Three("(", "@", ")"), One("@")) >>
  BY Zenon DEF AtRules, Rule, Blank, Low, One, Three, Five, Seven

LEMMA DotRulesAre ==
  DotRules =
  << Rule(Three(Low, "dot", Low), One(".")),
     Rule(Three(Blank, "dot", Blank), One(".")),
     Rule(Three("(", "dot", ")"), One(".")),
     Rule(Three("[", "dot", "]"), One(".")),
     Rule(Three(Blank, "period", Blank), One(".")),
     Rule(Two("period", Blank), One(".")),
     Rule(Three("(", "period", ")"), One(".")) >>
  BY Zenon DEF DotRules, Rule, Blank, Low, One, Two, Three

LEMMA Around ==
  ASSUME NEW S, NEW s \in S, NEW x \in Seq(S), NEW y \in Seq(S), Len(y) = Len(x) + 2,
         y[1] = s, y[Len(x) + 2] = s, \A n \in 1 .. Len(x) : y[n + 1] = x[n]
  PROVE  <<s>> \o x \o <<s>> = y
<1>0. <<s>> \in Seq(S) /\ Len(<<s>>) = 1 /\ <<s>>[1] = s
  OBVIOUS
<1> PICK e \in Seq(S) : e = <<s>> /\ Len(e) = 1 /\ e[1] = s
  BY <1>0
<1>1. Len(x) \in Nat
  OBVIOUS
<1> PICK v \in Seq(S) : v = e \o x
  BY ConcatProperties
<1>2. Len(v) = 1 + Len(x) /\ v[1] = s /\ \A n \in 1 .. Len(x) : v[n + 1] = x[n]
  BY <1>1, ConcatProperties
<1> PICK u \in Seq(S) : u = v \o e
  BY ConcatProperties
<1>3. Len(u) = Len(x) + 2 /\ u[Len(x) + 2] = s /\ \A n \in 1 .. Len(v) : u[n] = v[n]
  BY <1>1, <1>2, ConcatProperties
<1>4. \A n \in 1 .. Len(u) : u[n] = y[n]
  <2> SUFFICES ASSUME NEW n \in 1 .. Len(u) PROVE u[n] = y[n]
    OBVIOUS
  <2>1. CASE n = 1
    BY <1>1, <1>2, <1>3, <2>1
  <2>2. CASE n = Len(x) + 2
    BY <1>3, <2>2
  <2>3. CASE n # 1 /\ n # Len(x) + 2
    <3>1. n - 1 \in 1 .. Len(x) /\ n \in 1 .. Len(v) /\ (n - 1) + 1 = n
      BY <1>1, <1>2, <1>3, <2>3
    <3>2. v[n] = x[n - 1] /\ y[n] = x[n - 1]
      BY <1>2, <3>1
    <3> QED
      BY <1>3, <3>1, <3>2
  <2> QED
    BY <2>1, <2>2, <2>3
<1>5. u = y
  BY <1>3, <1>4, SeqEqual
<1> QED
  BY <1>5

LEMMA SpacedIs ==
  /\ \A a : Spaced(<<a>>) = Three(Blank, a, Blank)
  /\ \A a, b : Spaced(<<a, b>>) = Four(Blank, a, b, Blank)
  /\ \A a, b, c : Spaced(<<a, b, c>>) = Five(Blank, a, b, c, Blank)
<1>1. \A s, a : <<s>> \o <<a>> \o <<s>> = <<s, a, s>>
  <2> TAKE s, a
  <2> DEFINE S == {s, a}
  <2>1. <<a>> \in Seq(S) /\ Len(<<a>>) = 1 /\ <<s, a, s>> \in Seq(S)
        /\ Len(<<s, a, s>>) = 3 /\ s \in S
        /\ <<s, a, s>>[1] = s /\ <<s, a, s>>[3] = s
        /\ <<s, a, s>>[2] = a /\ <<a>>[1] = a
    OBVIOUS
  <2> HIDE DEF S
  <2> PICK x \in Seq(S) : x = <<a>>
    BY <2>1
  <2> PICK y \in Seq(S) : y = <<s, a, s>>
    BY <2>1
  <2>2. /\ s \in S /\ Len(x) = 1 /\ Len(y) = Len(x) + 2 /\ y[1] = s /\ y[Len(x) + 2] = s
        /\ y[1 + 1] = x[1]
    BY <2>1
  <2>3. \A n \in 1 .. Len(x) : y[n + 1] = x[n]
    BY <2>2
  <2>4. <<s>> \o x \o <<s>> = y
    BY <2>2, <2>3, Around
  <2> QED
    BY <2>4
<1>2. \A s, a, b : <<s>> \o <<a, b>> \o <<s>> = <<s, a, b, s>>
  <2> TAKE s, a, b
  <2> DEFINE S == {s, a, b}
  <2>1. <<a, b>> \in Seq(S) /\ Len(<<a, b>>) = 2 /\ <<s, a, b, s>> \in Seq(S)
        /\ Len(<<s, a, b, s>>) = 4 /\ s \in S
        /\ <<s, a, b, s>>[1] = s /\ <<s, a, b, s>>[4] = s
        /\ <<s, a, b, s>>[2] = a /\ <<a, b>>[1] = a /\ <<s, a, b, s>>[3] = b /\ <<a, b>>[2] = b
    OBVIOUS
  <2> HIDE DEF S
  <2> PICK x \in Seq(S) : x = <<a, b>>
    BY <2>1
  <2> PICK y \in Seq(S) : y = <<s, a, b, s>>
    BY <2>1
  <2>2. /\ s \in S /\ Len(x) = 2 /\ Len(y) = Len(x) + 2 /\ y[1] = s /\ y[Len(x) + 2] = s
        /\ y[1 + 1] = x[1] /\ y[2 + 1] = x[2]
    BY <2>1
  <2>3. \A n \in 1 .. Len(x) : y[n + 1] = x[n]
    BY <2>2
  <2>4. <<s>> \o x \o <<s>> = y
    BY <2>2, <2>3, Around
  <2> QED
    BY <2>4
<1>3. \A s, a, b, c : <<s>> \o <<a, b, c>> \o <<s>> = <<s, a, b, c, s>>
  <2> TAKE s, a, b, c
  <2> DEFINE S == {s, a, b, c}
  <2>1. <<a, b, c>> \in Seq(S) /\ Len(<<a, b, c>>) = 3 /\ <<s, a, b, c, s>> \in Seq(S)
        /\ Len(<<s, a, b, c, s>>) = 5 /\ s \in S
        /\ <<s, a, b, c, s>>[1] = s /\ <<s, a, b, c, s>>[5] = s
        /\ <<s, a, b, c, s>>[2] = a /\ <<a, b, c>>[1] = a /\ <<s, a, b, c, s>>[3] = b
        /\ <<a, b, c>>[2] = b /\ <<s, a, b, c, s>>[4] = c /\ <<a, b, c>>[3] = c
    OBVIOUS
  <2> HIDE DEF S
  <2> PICK x \in Seq(S) : x = <<a, b, c>>
    BY <2>1
  <2> PICK y \in Seq(S) : y = <<s, a, b, c, s>>
    BY <2>1
  <2>2. /\ s \in S /\ Len(x) = 3 /\ Len(y) = Len(x) + 2 /\ y[1] = s /\ y[Len(x) + 2] = s
        /\ y[1 + 1] = x[1] /\ y[2 + 1] = x[2] /\ y[3 + 1] = x[3]
    BY <2>1
  <2>3. \A n \in 1 .. Len(x) : y[n + 1] = x[n]
    BY <2>2
  <2>4. <<s>> \o x \o <<s>> = y
    BY <2>2, <2>3, Around
  <2> QED
    BY <2>4
<1> QED
  BY <1>1, <1>2, <1>3, Zenon DEF Spaced, Blank, Three, Four, Five

LEMMA OtherRulesAre ==
  OtherRules =
  << Rule(Three(Blank, "underscore", Blank), One(Low)),
     Rule(One("underscore"), One(Low)),
     Rule(Four(Blank, "gm", "l", Blank), Five(Blank, "gm", "ai", "l", Blank)),
     Rule(Four(Blank, "gm", "ai", Blank), Five(Blank, "gm", "ai", "l", Blank)),
     Rule(Five(Blank, "google", Blank, "mail", Blank), Five(Blank, "gm", "ai", "l", Blank)),
     Rule(Three(Blank, "gm", Blank), Five(Blank, "gm", "ai", "l", Blank)),
     Rule(Two("gm", Blank), Three("gm", "ai", "l")),
     Rule(Three(Blank, "@", Blank), One("@")),
     Rule(Three(Blank, ".", Blank), One(".")),
     Rule(Three(Blank, ".", "com"), Two(".", "com")) >>
<1>1. /\ Spaced(<<"gm", "l">>) = Four(Blank, "gm", "l", Blank)
      /\ Spaced(<<"gm", "ai">>) = Four(Blank, "gm", "ai", Blank)
      /\ Spaced(<<"google", " ", "mail">>) = Five(Blank, "google", Blank, "mail", Blank)
      /\ Spaced(<<"gm">>) = Three(Blank, "gm", Blank)
      /\ Spaced(Gmail) = Five(Blank, "gm", "ai", "l", Blank)
  BY SpacedIs, Zenon DEF Gmail, Blank
<1> QED
  BY <1>1, Zenon DEF OtherRules, Rule, Gmail, Blank, Low, One, Two, Three

LEMMA RulesInOrder ==
  ASSUME NEW a1, NEW a2, NEW a3, NEW a4, NEW a5, NEW a6, NEW a7, NEW a8, NEW a9,
         NEW b1, NEW b2, NEW b3, NEW b4, NEW b5, NEW b6, NEW b7,
         NEW c1, NEW c2, NEW c3, NEW c4, NEW c5, NEW c6, NEW c7, NEW c8, NEW c9, NEW c10,
         AtRules = <<a1, a2, a3, a4, a5, a6, a7, a8, a9>>,
         DotRules = <<b1, b2, b3, b4, b5, b6, b7>>,
         OtherRules = <<c1, c2, c3, c4, c5, c6, c7, c8, c9, c10>>
  PROVE  /\ Len(Rules) = 26
         /\ Rules[1] = a1 /\ Rules[2] = a2 /\ Rules[3] = a3 /\ Rules[4] = a4 /\ Rules[5] = a5
         /\ Rules[6] = a6 /\ Rules[7] = a7 /\ Rules[8] = a8 /\ Rules[9] = a9 /\ Rules[10] = b1
         /\ Rules[11] = b2 /\ Rules[12] = b3 /\ Rules[13] = b4 /\ Rules[14] = b5 /\ Rules[15] = b6
         /\ Rules[16] = b7 /\ Rules[17] = c1 /\ Rules[18] = c2 /\ Rules[19] = c3 /\ Rules[20] = c4
         /\ Rules[21] = c5 /\ Rules[22] = c6 /\ Rules[23] = c7 /\ Rules[24] = c8 /\ Rules[25] = c9
         /\ Rules[26] = c10
<1> DEFINE T == {a1, a2, a3, a4, a5, a6, a7, a8, a9, b1, b2, b3, b4, b5, b6, b7, c1, c2, c3,
           c4, c5, c6, c7, c8, c9, c10}
<1>1. /\ <<a1, a2, a3, a4, a5, a6, a7, a8, a9>> \in Seq(T)
      /\ Len(<<a1, a2, a3, a4, a5, a6, a7, a8, a9>>) = 9
      /\ <<a1, a2, a3, a4, a5, a6, a7, a8, a9>>[1] = a1
      /\ <<a1, a2, a3, a4, a5, a6, a7, a8, a9>>[2] = a2
      /\ <<a1, a2, a3, a4, a5, a6, a7, a8, a9>>[3] = a3
      /\ <<a1, a2, a3, a4, a5, a6, a7, a8, a9>>[4] = a4
      /\ <<a1, a2, a3, a4, a5, a6, a7, a8, a9>>[5] = a5
      /\ <<a1, a2, a3, a4, a5, a6, a7, a8, a9>>[6] = a6
      /\ <<a1, a2, a3, a4, a5, a6, a7, a8, a9>>[7] = a7
      /\ <<a1, a2, a3, a4, a5, a6, a7, a8, a9>>[8] = a8
      /\ <<a1, a2, a3, a4, a5, a6, a7, a8, a9>>[9] = a9
  OBVIOUS
<1>2. /\ <<b1, b2, b3, b4, b5, b6, b7>> \in Seq(T) /\ Len(<<b1, b2, b3, b4, b5, b6, b7>>) = 7
      /\ <<b1, b2, b3, b4, b5, b6, b7>>[1] = b1
      /\ <<b1, b2, b3, b4, b5, b6, b7>>[2] = b2
      /\ <<b1, b2, b3, b4, b5, b6, b7>>[3] = b3
      /\ <<b1, b2, b3, b4, b5, b6, b7>>[4] = b4
      /\ <<b1, b2, b3, b4, b5, b6, b7>>[5] = b5
      /\ <<b1, b2, b3, b4, b5, b6, b7>>[6] = b6
      /\ <<b1, b2, b3, b4, b5, b6, b7>>[7] = b7
  OBVIOUS
<1>3. /\ <<c1, c2, c3, c4, c5, c6, c7, c8, c9, c10>> \in Seq(T)
      /\ Len(<<c1, c2, c3, c4, c5, c6, c7, c8, c9, c10>>) = 10
      /\ <<c1, c2, c3, c4, c5, c6, c7, c8, c9, c10>>[1] = c1
      /\ <<c1, c2, c3, c4, c5, c6, c7, c8, c9, c10>>[2] = c2
      /\ <<c1, c2, c3, c4, c5, c6, c7, c8, c9, c10>>[3] = c3
      /\ <<c1, c2, c3, c4, c5, c6, c7, c8, c9, c10>>[4] = c4
      /\ <<c1, c2, c3, c4, c5, c6, c7, c8, c9, c10>>[5] = c5
      /\ <<c1, c2, c3, c4, c5, c6, c7, c8, c9, c10>>[6] = c6
      /\ <<c1, c2, c3, c4, c5, c6, c7, c8, c9, c10>>[7] = c7
      /\ <<c1, c2, c3, c4, c5, c6, c7, c8, c9, c10>>[8] = c8
      /\ <<c1, c2, c3, c4, c5, c6, c7, c8, c9, c10>>[9] = c9
      /\ <<c1, c2, c3, c4, c5, c6, c7, c8, c9, c10>>[10] = c10
  OBVIOUS
<1> HIDE DEF T
<1> PICK A \in Seq(T) : /\ A = AtRules /\ Len(A) = 9
        /\ A[1] = a1 /\ A[2] = a2 /\ A[3] = a3 /\ A[4] = a4 /\ A[5] = a5 /\ A[6] = a6
        /\ A[7] = a7 /\ A[8] = a8 /\ A[9] = a9
  BY <1>1
<1> PICK B \in Seq(T) : /\ B = DotRules /\ Len(B) = 7
        /\ B[1] = b1 /\ B[2] = b2 /\ B[3] = b3 /\ B[4] = b4 /\ B[5] = b5 /\ B[6] = b6 /\ B[7] = b7
  BY <1>2
<1> PICK C \in Seq(T) : /\ C = OtherRules /\ Len(C) = 10
        /\ C[1] = c1 /\ C[2] = c2 /\ C[3] = c3 /\ C[4] = c4 /\ C[5] = c5 /\ C[6] = c6
        /\ C[7] = c7 /\ C[8] = c8 /\ C[9] = c9 /\ C[10] = c10
  BY <1>3
<1> PICK AB \in Seq(T) : AB = A \o B
  BY ConcatProperties
<1>4. /\ Len(AB) = 16 /\ \A n \in 1 .. 9 : AB[n] = A[n]
      /\ \A n \in 10 .. 16 : AB[n] = B[n - 9]
  BY ConcatProperties
<1> PICK R \in Seq(T) : R = AB \o C
  BY ConcatProperties
<1>5. /\ Len(R) = 26 /\ \A n \in 1 .. 16 : R[n] = AB[n]
      /\ \A n \in 17 .. 26 : R[n] = C[n - 16]
  BY <1>4, ConcatProperties
<1>6. Rules = R
  BY DEF Rules
<1>7. /\ R[1] = A[1] /\ R[2] = A[2] /\ R[3] = A[3] /\ R[4] = A[4] /\ R[5] = A[5] /\ R[6] = A[6]
      /\ R[7] = A[7] /\ R[8] = A[8] /\ R[9] = A[9]
  BY <1>4, <1>5
<1>8. /\ R[10] = B[1] /\ R[11] = B[2] /\ R[12] = B[3] /\ R[13] = B[4] /\ R[14] = B[5]
      /\ R[15] = B[6] /\ R[16] = B[7]
  BY <1>4, <1>5
<1>9. /\ R[17] = C[1] /\ R[18] = C[2] /\ R[19] = C[3] /\ R[20] = C[4] /\ R[21] = C[5]
      /\ R[22] = C[6] /\ R[23] = C[7] /\ R[24] = C[8] /\ R[25] = C[9] /\ R[26] = C[10]
  BY <1>5
<1> QED
  BY <1>5, <1>6, <1>7, <1>8, <1>9

LEMMA RulesAre ==
  /\ Len(Rules) = 26
  /\ Rules[1].old = Seven(Low, "at", Low, "the", Low, "rate", Low) /\ Rules[1].updated = One("@")
  /\ Rules[2].old = Seven("-", "at", "-", "the", "-", "rate", "-") /\ Rules[2].updated = One("@")
  /\ Rules[3].old = Seven(Blank, "at", Blank, "the", Blank, "rate", Blank)
  /\ Rules[3].updated = One("@")
  /\ Rules[4].old = Three("at", "the", "rate") /\ Rules[4].updated = One("@")
  /\ Rules[5].old = Five("(", "at", "the", "rate", ")") /\ Rules[5].updated = One("@")
  /\ Rules[6].old = Three("(", "at", ")") /\ Rules[6].updated = One("@")
  /\ Rules[7].old = Three("[", "at", "]") /\ Rules[7].updated = One("@")
  /\ Rules[8].old = Three(Blank, "at", Blank) /\ Rules[8].updated = One("@")
  /\ Rules[9].old = Three("(", "@", ")") /\ Rules[9].updated = One("@")
  /\ Rules[10].old = Three(Low, "dot", Low) /\ Rules[10].updated = One(".")
  /\ Rules[11].old = Three(Blank, "dot", Blank) /\ Rules[11].updated = One(".")
  /\ Rules[12].old = Three("(", "dot", ")") /\ Rules[12].updated = One(".")
  /\ Rules[13].old = Three("[", "dot", "]") /\ Rules[13].updated = One(".")
  /\ Rules[14].old = Three(Blank, "period", Blank) /\ Rules[14].updated = One(".")
  /\ Rules[15].old = Two("period", Blank) /\ Rules[15].updated = One(".")
  /\ Rules[16].old = Three("(", "period", ")") /\ Rules[16].updated = One(".")
  /\ Rules[17].old = Three(Blank, "underscore", Blank) /\ Rules[17].updated = One(Low)
  /\ Rules[18].old = One("underscore") /\ Rules[18].updated = One(Low)
  /\ Rules[19].old = Four(Blank, "gm", "l", Blank)
  /\ Rules[19].updated = Five(Blank, "gm", "ai", "l", Blank)
  /\ Rules[20].old = Four(Blank, "gm", "ai", Blank)
  /\ Rules[20].updated = Five(Blank, "gm", "ai", "l", Blank)
  /\ Rules[21].old = Five(Blank, "google", Blank, "mail", Blank)
  /\ Rules[21].updated = Five(Blank, "gm", "ai", "l", Blank)
  /\ Rules[22].old = Three(Blank, "gm", Blank)
  /\ Rules[22].updated = Five(Blank, "gm", "ai", "l", Blank)
  /\ Rules[23].old = Two("gm", Blank) /\ Rules[23].updated = Three("gm", "ai", "l")
  /\ Rules[24].old = Three(Blank, "@", Blank) /\ Rules[24].updated = One("@")
  /\ Rules[25].old = Three(Blank, ".", Blank) /\ Rules[25].updated = One(".")
  /\ Rules[26].old = Three(Blank, ".", "com") /\ Rules[26].updated = Two(".", "com")
<1>1. /\ Len(Rules) = 26
      /\ Rules[1] = Rule(Seven(Low, "at", Low, "the", Low, "rate", Low), One("@"))
      /\ Rules[2] = Rule(Seven("-", "at", "-", "the", "-", "rate", "-"), One("@"))
      /\ Rules[3] = Rule(Seven(Blank, "at", Blank, "the", Blank, "rate", Blank), One("@"))
      /\ Rules[4] = Rule(Three("at", "the", "rate"), One("@"))
      /\ Rules[5] = Rule(Five("(", "at", "the", "rate", ")"), One("@"))
      /\ Rules[6] = Rule(Three("(", "at", ")"), One("@"))
      /\ Rules[7] = Rule(Three("[", "at", "]"), One("@"))
      /\ Rules[8] = Rule(Three(Blank, "at", Blank), One("@"))
      /\ Rules[9] = Rule(Three("(", "@", ")"), One("@"))
      /\ Rules[10] = Rule(Three(Low, "dot", Low), One("."))
      /\ Rules[11] = Rule(Three(Blank, "dot", Blank), One("."))
      /\ Rules[12] = Rule(Three("(", "dot", ")"), One("."))
      /\ Rules[13] = Rule(Three("[", "dot", "]"), One("."))
      /\ Rules[14] = Rule(Three(Blank, "period", Blank), One("."))
      /\ Rules[15] = Rule(Two("period", Blank), One("."))
      /\ Rules[16] = Rule(Three("(", "period", ")"), One("."))
      /\ Rules[17] = Rule(Three(Blank, "underscore", Blank), One(Low))
      /\ Rules[18] = Rule(One("underscore"), One(Low))
      /\ Rules[19] = Rule(Four(Blank, "gm", "l", Blank), Five(Blank, "gm", "ai", "l", Blank))
      /\ Rules[20] = Rule(Four(Blank, "gm", "ai", Blank), Five(Blank, "gm", "ai", "l", Blank))
      /\ Rules[21] =
           Rule(Five(Blank, "google", Blank, "mail", Blank), Five(Blank, "gm", "ai", "l", Blank))
      /\ Rules[22] = Rule(Three(Blank, "gm", Blank), Five(Blank, "gm", "ai", "l", Blank))
      /\ Rules[23] = Rule(Two("gm", Blank), Three("gm", "ai", "l"))
      /\ Rules[24] = Rule(Three(Blank, "@", Blank), One("@"))
      /\ Rules[25] = Rule(Three(Blank, ".", Blank), One("."))
      /\ Rules[26] = Rule(Three(Blank, ".", "com"), Two(".", "com"))
  BY RulesInOrder, AtRulesAre, DotRulesAre, OtherRulesAre
<1> QED
  BY <1>1, RuleParts

-----------------------------------------------------------------------------
(* The forms a dot and an underscore take while they are rewritten.        *)

DotForm(x, d) ==
  \/ d = 10 /\ x = Three(Low, "dot", Low)
  \/ d = 11 /\ x = Three(Blank, "dot", Blank)
  \/ d = 12 /\ x = Three("(", "dot", ")")
  \/ d = 12 /\ x = Five(Blank, "(", "dot", ")", Blank)
  \/ d = 13 /\ x = Three("[", "dot", "]")
  \/ d = 13 /\ x = Five(Blank, "[", "dot", "]", Blank)
  \/ d = 14 /\ x = Three(Blank, "period", Blank)
  \/ d = 16 /\ x = Three("(", "period", ")")
  \/ d = 25 /\ x = Three(Blank, ".", Blank)
  \/ d = 27 /\ x = One(".")

UnderscoreForm(x, d) ==
  \/ d = 17 /\ x = Three(Blank, "underscore", Blank)
  \/ d = 18 /\ x = One("underscore")
  \/ d = 27 /\ x = One(Low)

LEMMA DotFacts ==
  ASSUME NEW x, NEW d, DotForm(x, d)
  PROVE  /\ x \in Sym /\ d \in {10, 11, 12, 13, 14, 16, 25, 27}
         /\ Without(x, "at") /\ Without(x, "@") /\ Without(x, "underscore")
         /\ Without(x, "gm") /\ Without(x, "google") /\ Without(x, "com")
         /\ d = 27 => x = One(".")
<1>1. x \in Sym
  <2>1. /\ Three(Low, "dot", Low) \in Sym /\ Three(Blank, "dot", Blank) \in Sym
        /\ Three("(", "dot", ")") \in Sym /\ Five(Blank, "(", "dot", ")", Blank) \in Sym
        /\ Three("[", "dot", "]") \in Sym /\ Five(Blank, "[", "dot", "]", Blank) \in Sym
    BY ShortTexts, TheLetters, Zenon
  <2>2. /\ Three(Blank, "period", Blank) \in Sym /\ Three("(", "period", ")") \in Sym
        /\ Three(Blank, ".", Blank) \in Sym /\ One(".") \in Sym
    BY ShortTexts, TheLetters, Zenon
  <2> QED
    BY <2>1, <2>2 DEF DotForm
<1>2. d \in {10, 11, 12, 13, 14, 16, 25, 27}
  BY DEF DotForm
<1>3. /\ Without(x, "at") /\ Without(x, "@") /\ Without(x, "underscore")
      /\ Without(x, "gm") /\ Without(x, "google") /\ Without(x, "com")
  BY OtherThanThese, WithoutOne, WithoutThree, WithoutFive DEF DotForm
<1>4. d = 27 => x = One(".")
  BY DEF DotForm
<1> QED
  BY <1>1, <1>2, <1>3, <1>4

LEMMA DotOwn ==
  ASSUME NEW x, NEW d, DotForm(x, d)
  PROVE  /\ 10 < d => Without(x, Low)
         /\ 11 < d => \/ Without(x, Blank) \/ Without(x, "dot")
                      \/ x = Five(Blank, "(", "dot", ")", Blank)
                      \/ x = Five(Blank, "[", "dot", "]", Blank)
         /\ 12 < d => Without(x, "(") \/ Without(x, "dot")
         /\ 13 < d => Without(x, "dot")
         /\ 14 < d => Without(x, Blank) \/ Without(x, "period")
         /\ 16 < d => Without(x, "period")
         /\ 25 < d => Without(x, Blank)
  BY OtherThanThese, WithoutOne, WithoutThree, WithoutFive DEF DotForm

LEMMA UnderscoreFacts ==
  ASSUME NEW x, NEW d, UnderscoreForm(x, d)
  PROVE  /\ x \in Sym /\ d \in {17, 18, 27}
         /\ Without(x, "at") /\ Without(x, "@") /\ Without(x, "dot")
         /\ Without(x, "period") /\ Without(x, "gm") /\ Without(x, "google")
         /\ Without(x, ".")
         /\ d = 27 => x = One(Low)
<1>1. x \in Sym
  <2>1. /\ Three(Blank, "underscore", Blank) \in Sym /\ One("underscore") \in Sym
        /\ One(Low) \in Sym
    BY ShortTexts, TheLetters, Zenon
  <2> QED
    BY <2>1 DEF UnderscoreForm
<1>2. d \in {17, 18, 27}
  BY DEF UnderscoreForm
<1>3. /\ Without(x, "at") /\ Without(x, "@") /\ Without(x, "dot")
      /\ Without(x, "period") /\ Without(x, "gm") /\ Without(x, "google")
      /\ Without(x, ".")
  BY OtherThanThese, WithoutOne, WithoutThree DEF UnderscoreForm
<1>4. d = 27 => x = One(Low)
  BY DEF UnderscoreForm
<1> QED
  BY <1>1, <1>2, <1>3, <1>4

LEMMA UnderscoreOwn ==
  ASSUME NEW x, NEW d, UnderscoreForm(x, d)
  PROVE  /\ 17 < d => Without(x, Blank)
         /\ 18 < d => Without(x, "underscore")
  BY OtherThanThese, WithoutOne, WithoutThree DEF UnderscoreForm

\* What the rules look for: texts, each with certain symbols in it.
LEMMA RuleTexts ==
  \A r \in 1 .. 26 : Rules[r].old \in Sym /\ Rules[r].updated \in Sym
<1>1. /\ Seven(Low, "at", Low, "the", Low, "rate", Low) \in Sym /\ One("@") \in Sym
      /\ Seven("-", "at", "-", "the", "-", "rate", "-") \in Sym /\ One("@") \in Sym
      /\ Seven(Blank, "at", Blank, "the", Blank, "rate", Blank) \in Sym /\ One("@") \in Sym
      /\ Three("at", "the", "rate") \in Sym /\ One("@") \in Sym
  BY ShortTexts, TheLetters, Zenon
<1>2. /\ Five("(", "at", "the", "rate", ")") \in Sym /\ One("@") \in Sym
      /\ Three("(", "at", ")") \in Sym /\ One("@") \in Sym
      /\ Three("[", "at", "]") \in Sym /\ One("@") \in Sym
      /\ Three(Blank, "at", Blank) \in Sym /\ One("@") \in Sym
  BY ShortTexts, TheLetters, Zenon
<1>3. /\ Three("(", "@", ")") \in Sym /\ One("@") \in Sym
      /\ Three(Low, "dot", Low) \in Sym /\ One(".") \in Sym
      /\ Three(Blank, "dot", Blank) \in Sym /\ One(".") \in Sym
      /\ Three("(", "dot", ")") \in Sym /\ One(".") \in Sym
  BY ShortTexts, TheLetters, Zenon
<1>4. /\ Three("[", "dot", "]") \in Sym /\ One(".") \in Sym
      /\ Three(Blank, "period", Blank) \in Sym /\ One(".") \in Sym
      /\ Two("period", Blank) \in Sym /\ One(".") \in Sym
      /\ Three("(", "period", ")") \in Sym /\ One(".") \in Sym
  BY ShortTexts, TheLetters, Zenon
<1>5. /\ Three(Blank, "underscore", Blank) \in Sym /\ One(Low) \in Sym
      /\ One("underscore") \in Sym /\ One(Low) \in Sym
      /\ Four(Blank, "gm", "l", Blank) \in Sym /\ Five(Blank, "gm", "ai", "l", Blank) \in Sym
      /\ Four(Blank, "gm", "ai", Blank) \in Sym /\ Five(Blank, "gm", "ai", "l", Blank) \in Sym
  BY ShortTexts, TheLetters, Zenon
<1>6. /\ Five(Blank, "google", Blank, "mail", Blank) \in Sym
      /\ Five(Blank, "gm", "ai", "l", Blank) \in Sym
      /\ Three(Blank, "gm", Blank) \in Sym /\ Five(Blank, "gm", "ai", "l", Blank) \in Sym
      /\ Two("gm", Blank) \in Sym /\ Three("gm", "ai", "l") \in Sym
      /\ Three(Blank, "@", Blank) \in Sym /\ One("@") \in Sym
  BY ShortTexts, TheLetters, Zenon
<1>7. /\ Three(Blank, ".", Blank) \in Sym /\ One(".") \in Sym
      /\ Three(Blank, ".", "com") \in Sym /\ Two(".", "com") \in Sym
  BY ShortTexts, TheLetters, Zenon
<1> SUFFICES ASSUME NEW r \in 1 .. 26 PROVE Rules[r].old \in Sym /\ Rules[r].updated \in Sym
  OBVIOUS
<1>8. CASE r \in 1 .. 4
  <2>1. r = 1 \/ r = 2 \/ r = 3 \/ r = 4
    BY <1>8
  <2> QED
    BY <1>1, <2>1, RulesAre
<1>9. CASE r \in 5 .. 8
  <2>1. r = 5 \/ r = 6 \/ r = 7 \/ r = 8
    BY <1>9
  <2> QED
    BY <1>2, <2>1, RulesAre
<1>10. CASE r \in 9 .. 12
  <2>1. r = 9 \/ r = 10 \/ r = 11 \/ r = 12
    BY <1>10
  <2> QED
    BY <1>3, <2>1, RulesAre
<1>11. CASE r \in 13 .. 16
  <2>1. r = 13 \/ r = 14 \/ r = 15 \/ r = 16
    BY <1>11
  <2> QED
    BY <1>4, <2>1, RulesAre
<1>12. CASE r \in 17 .. 20
  <2>1. r = 17 \/ r = 18 \/ r = 19 \/ r = 20
    BY <1>12
  <2> QED
    BY <1>5, <2>1, RulesAre
<1>13. CASE r \in 21 .. 24
  <2>1. r = 21 \/ r = 22 \/ r = 23 \/ r = 24
    BY <1>13
  <2> QED
    BY <1>6, <2>1, RulesAre
<1>14. CASE r \in 25 .. 26
  <2>1. r = 25 \/ r = 26
    BY <1>14
  <2> QED
    BY <1>7, <2>1, RulesAre
<1> QED
  BY <1>8, <1>9, <1>10, <1>11, <1>12, <1>13, <1>14

LEMMA RuleSymbols ==
  /\ \A r \in {1, 2, 3, 4, 5, 6, 7, 8} : ~Without(Rules[r].old, "at")
  /\ \A r \in {9, 24} : ~Without(Rules[r].old, "@")
  /\ \A r \in {10, 11, 12, 13} : ~Without(Rules[r].old, "dot")
  /\ \A r \in {14, 15, 16} : ~Without(Rules[r].old, "period")
  /\ \A r \in {17, 18} : ~Without(Rules[r].old, "underscore")
  /\ \A r \in {19, 20, 22, 23} : ~Without(Rules[r].old, "gm")
  /\ \A r \in {21} : ~Without(Rules[r].old, "google")
  /\ \A r \in {25, 26} : ~Without(Rules[r].old, ".")
  /\ ~Without(Rules[26].old, "com")
  /\ \A r \in {11, 14, 17, 24, 25} : ~Without(Rules[r].old, Blank)
<1>1. \A r \in {1, 2, 3, 4, 5, 6, 7, 8} : ~Without(Rules[r].old, "at")
  BY RulesAre, WithoutOne, WithoutTwo, WithoutThree, WithoutFour, WithoutFive, WithoutSeven
<1>2. \A r \in {9, 24} : ~Without(Rules[r].old, "@")
  BY RulesAre, WithoutOne, WithoutTwo, WithoutThree, WithoutFour, WithoutFive, WithoutSeven
<1>3. \A r \in {10, 11, 12, 13} : ~Without(Rules[r].old, "dot")
  BY RulesAre, WithoutOne, WithoutTwo, WithoutThree, WithoutFour, WithoutFive, WithoutSeven
<1>4. \A r \in {14, 15, 16} : ~Without(Rules[r].old, "period")
  BY RulesAre, WithoutOne, WithoutTwo, WithoutThree, WithoutFour, WithoutFive, WithoutSeven
<1>5. \A r \in {17, 18} : ~Without(Rules[r].old, "underscore")
  BY RulesAre, WithoutOne, WithoutTwo, WithoutThree, WithoutFour, WithoutFive, WithoutSeven
<1>6. \A r \in {19, 20, 22, 23} : ~Without(Rules[r].old, "gm")
  BY RulesAre, WithoutOne, WithoutTwo, WithoutThree, WithoutFour, WithoutFive, WithoutSeven
<1>7. \A r \in {21} : ~Without(Rules[r].old, "google")
  BY RulesAre, WithoutOne, WithoutTwo, WithoutThree, WithoutFour, WithoutFive, WithoutSeven
<1>8. \A r \in {25, 26} : ~Without(Rules[r].old, ".")
  BY RulesAre, WithoutOne, WithoutTwo, WithoutThree, WithoutFour, WithoutFive, WithoutSeven
<1>9. ~Without(Rules[26].old, "com")
  BY RulesAre, WithoutThree
<1>10. \A r \in {11, 14, 17, 24, 25} : ~Without(Rules[r].old, Blank)
  BY RulesAre, WithoutThree
<1> QED
  BY <1>1, <1>2, <1>3, <1>4, <1>5, <1>6, <1>7, <1>8, <1>9, <1>10

-----------------------------------------------------------------------------
(* What a rule does to a form.                                             *)

Form(kind, x, d) ==
  \/ kind = "at" /\ AtForm(x, d)
  \/ kind = "dot" /\ DotForm(x, d)
  \/ kind = "underscore" /\ UnderscoreForm(x, d)
Kinds == {"at", "dot", "underscore"}

\* A form that the rules before r have nothing to do with.
Due(kind, r, x) == \E d \in r .. 27 : Form(kind, x, d)

\* What a rule makes of such a form, and when there is nothing left to do.
Handles(kind, r, old, new) ==
  /\ \A x, y : Due(kind, r, x) /\ Replaced(x, old, new, y) => Due(kind, r, y)
  /\ \A x : Due(kind, r, x) /\ ~Has(x, old) => Due(kind, r + 1, x)

\* A form that has what the rule looks for, and becomes another by it.
Becomes(kind, r, x, old, new) ==
  Has(x, old) /\ \A y : Replaced(x, old, new, y) => Due(kind, r, y)

LEMMA FormIsText ==
  ASSUME NEW kind \in Kinds, NEW x, NEW d, Form(kind, x, d)
  PROVE  x \in Sym /\ d \in 1 .. 27
  BY AtFacts, DotFacts, UnderscoreFacts DEF Kinds, Form

LEMMA Absent ==
  ASSUME NEW x \in Sym, NEW old \in Sym, NEW w, Without(x, w), ~Without(old, w)
  PROVE  ~Has(x, old)
  BY HasSymbols

LEMMA AbsentAll ==
  \A x, old \in Sym : \A w : Without(x, w) /\ ~Without(old, w) => ~Has(x, old)
  BY Absent

LEMMA HandlesFrom ==
  ASSUME NEW kind, NEW r \in 1 .. 26, NEW old, NEW new,
         \A x, d : Form(kind, x, d) /\ r < d => ~Has(x, old),
         \A x : Form(kind, x, r) => Becomes(kind, r, x, old, new)
  PROVE  Handles(kind, r, old, new)
<1>1. ASSUME NEW x, NEW y, Due(kind, r, x), Replaced(x, old, new, y) PROVE Due(kind, r, y)
  <2> PICK d \in r .. 27 : Form(kind, x, d)
    BY <1>1 DEF Due
  <2>1. Has(x, old)
    BY <1>1, TurnedHas
  <2>2. d = r
    BY <2>1
  <2> QED
    BY <1>1, <2>2 DEF Becomes
<1>2. ASSUME NEW x, Due(kind, r, x), ~Has(x, old) PROVE Due(kind, r + 1, x)
  <2> PICK d \in r .. 27 : Form(kind, x, d)
    BY <1>2 DEF Due
  <2>1. d # r
    BY <1>2 DEF Becomes
  <2>2. d \in (r + 1) .. 27
    BY <2>1
  <2> QED
    BY <2>2 DEF Due
<1> QED
  BY <1>1, <1>2 DEF Handles

LEMMA FromRight ==
  ASSUME NEW kind, NEW r \in 1 .. 26, NEW y, Form(kind, y, 27)
  PROVE  Due(kind, r, y)
<1>1. 27 \in r .. 27
  OBVIOUS
<1> QED
  BY <1>1 DEF Due

\* A rule that is about another symbol.
LEMMA HandlesForeign ==
  ASSUME NEW kind \in Kinds, NEW r \in 1 .. 26, NEW old \in Sym, NEW new, NEW w,
         ~Without(old, w), \A x, d : Form(kind, x, d) => Without(x, w) /\ d # r
  PROVE  Handles(kind, r, old, new)
<1>1. \A x, d : Form(kind, x, d) /\ r < d => ~Has(x, old)
  <2> SUFFICES ASSUME NEW x, NEW d, Form(kind, x, d) PROVE ~Has(x, old)
    OBVIOUS
  <2>1. x \in Sym /\ Without(x, w)
    BY FormIsText
  <2> QED
    BY <2>1, Absent
<1>2. \A x : ~Form(kind, x, r)
  OBVIOUS
<1> QED
  BY <1>1, <1>2, HandlesFrom

LEMMA ThreeHas ==
  \A a, b, c \in Symbols :
    /\ Length(Three(a, b, c)) = 3 /\ 1 \in Indices(Three(a, b, c)) /\ 3 \in Indices(Three(a, b, c))
    /\ Nth(Three(a, b, c), 1) = a /\ Nth(Three(a, b, c), 3) = c
    /\ Nth(Three(a, b, c), 2) = b /\ Indices(Three(a, b, c)) = {1, 2, 3}
  BY DEF Three, Length, Indices, Nth

LEMMA ThreeIs ==
  ASSUME NEW a \in Symbols, NEW b \in Symbols, NEW c \in Symbols
  PROVE  Three(a, b, c) = Bracketed(a, One(b), c)
<1> PICK x \in Sym : x = <<a>> /\ Length(x) = 1 /\ 1 \in Indices(x) /\ Nth(x, 1) = a
  BY OneSymbol
<1> PICK y \in Sym : y = <<b>> /\ Length(y) = 1 /\ 1 \in Indices(y) /\ Nth(y, 1) = b
  BY OneSymbol
<1> PICK z \in Sym : z = <<c>> /\ Length(z) = 1 /\ 1 \in Indices(z) /\ Nth(z, 1) = c
  BY OneSymbol
<1> PICK v \in Sym : v = y \bullet z
  BY Concat
<1> PICK u \in Sym : u = x \bullet v
  BY Concat
<1>1. Past(x, 1) = 2 /\ Past(y, 1) = 2 /\ Past(x, Past(y, 1)) = 3
  BY DEF Past, Length
<1>2. /\ Length(u) = 3 /\ Nth(v, 1) = b /\ 1 \in Indices(v) /\ Nth(v, 2) = c /\ 2 \in Indices(v)
  BY <1>1, Concat, ConcatLeft, ConcatRight
<1>3. Nth(u, 1) = a /\ Nth(u, 2) = b /\ Nth(u, 3) = c
  BY <1>1, <1>2, ConcatLeft, ConcatRight
<1> PICK t \in Sym : t = Three(a, b, c)
  BY ShortTexts
<1>4. Length(t) = 3 /\ Nth(t, 1) = a /\ Nth(t, 2) = b /\ Nth(t, 3) = c /\ Indices(t) = {1, 2, 3}
  BY ThreeHas
<1>5. \A n \in Indices(t) : Nth(t, n) = Nth(u, n)
  BY <1>3, <1>4
<1>6. t = u
  BY <1>2, <1>4, <1>5, SameSymbols
<1> QED
  BY <1>6 DEF One, Bracketed

LEMMA FiveIs ==
  \A a, b, c, d, e \in Symbols :
    Five(a, b, c, d, e) = Bracketed(a, Three(b, c, d), e)
  BY DEF Five, Three, \bullet, Bracketed

LEMMA FiveInParts ==
  ASSUME NEW a \in Symbols, NEW b \in Symbols, NEW c \in Symbols, NEW d \in Symbols,
         NEW e \in Symbols
  PROVE  Five(a, b, c, d, e) = Join(One(a), b, Three(c, d, e))
<1> PICK v \in Sym : v = <<b>>
  BY OneSymbol
<1> PICK w \in Sym : w = <<c>>
  BY OneSymbol
<1> PICK x \in Sym : x = One(d)
  BY ShortTexts
<1> PICK y \in Sym : y = <<e>>
  BY OneSymbol
<1> PICK z \in Sym : z = <<d>> /\ z = x
  BY OneSymbol DEF One
<1>1. x \bullet y \in Sym /\ w \bullet x \in Sym
  BY Concat
<1>2. (v \bullet (w \bullet x)) \bullet y = v \bullet ((w \bullet x) \bullet y)
  BY <1>1, ConcatAssoc
<1>3. (w \bullet x) \bullet y = w \bullet (x \bullet y)
  BY ConcatAssoc
<1>4. Three(b, c, d) = v \bullet (w \bullet x) /\ Three(c, d, e) = w \bullet (x \bullet y)
  BY ThreeIs DEF Bracketed, One
<1>5. Five(a, b, c, d, e) = <<a>> \bullet (Three(b, c, d) \bullet y)
  BY FiveIs DEF Bracketed
<1> QED
  BY <1>2, <1>3, <1>4, <1>5 DEF Join, One

\* A form that is what the rule looks for; one that has brackets or spaces
\* around it.
LEMMA HandlesWhole ==
  ASSUME NEW kind, NEW r \in 1 .. 26, NEW old \in Sym, NEW new \in Sym,
         Form(kind, new, 27)
  PROVE  Becomes(kind, r, old, old, new)
  BY TurnedWhole, FromRight DEF Becomes

LEMMA HandlesInside ==
  ASSUME NEW kind, NEW r \in 1 .. 26, NEW a \in Symbols, NEW b \in Symbols,
         NEW p \in Symbols, NEW q \in Symbols, NEW s \in Symbols, NEW w \in Symbols,
         p # a, s # b, Due(kind, r, Three(a, w, b))
  PROVE  Becomes(kind, r, Five(a, p, q, s, b), Three(p, q, s), One(w))
<1> PICK old \in Sym : old = Three(p, q, s)
  BY ShortTexts
<1> PICK new \in Sym : new = One(w)
  BY ShortTexts
<1>1. /\ 1 \in Indices(old) /\ Nth(old, 1) # a
      /\ Length(old) \in Indices(old) /\ Nth(old, Length(old)) # b
  BY ThreeHas
<1>2. /\ Has(Bracketed(a, old, b), old)
      /\ \A y : Replaced(Bracketed(a, old, b), old, new, y) => y = Bracketed(a, new, b)
  BY <1>1, TurnedInside
<1>3. Five(a, p, q, s, b) = Bracketed(a, old, b)
  BY FiveIs
<1>4. Three(a, w, b) = Bracketed(a, new, b)
  BY ThreeIs
<1> QED
  BY <1>2, <1>3, <1>4 DEF Becomes

LEMMA RightForms == /\ Form("at", One("@"), 27) /\ Form("dot", One("."), 27)
                    /\ Form("underscore", One(Low), 27)
                    /\ One("@") \in Sym /\ One(".") \in Sym /\ One(Low) \in Sym
<1>1. AtForm(One("@"), 27) /\ DotForm(One("."), 27) /\ UnderscoreForm(One(Low), 27)
  BY DEF AtForm, DotForm, UnderscoreForm
<1>2. One("@") \in Sym /\ One(".") \in Sym /\ One(Low) \in Sym
  BY ShortTexts, TheLetters, Zenon
<1> QED
  BY <1>1, <1>2 DEF Form

LEMMA KindIs ==
  \A x, d : /\ Form("at", x, d) <=> AtForm(x, d)
            /\ Form("dot", x, d) <=> DotForm(x, d)
            /\ Form("underscore", x, d) <=> UnderscoreForm(x, d)
  BY DEF Form

LEMMA AtDues ==
  \A x, d : AtForm(x, d) => d \in {1, 2, 3, 4, 6, 7, 8, 9, 24, 27}
  BY DEF AtForm

LEMMA KindsAre == "at" \in Kinds /\ "dot" \in Kinds /\ "underscore" \in Kinds
  BY DEF Kinds

LEMMA AtHandled ==
  \A r \in 1 .. 9 \cup {24} : Handles("at", r, Rules[r].old, Rules[r].updated)
<1>1. ASSUME NEW r \in 1 .. 26, r = 1
      PROVE  Handles("at", r, Seven(Low, "at", Low, "the", Low, "rate", Low), One("@"))
  <2>1. Seven(Low, "at", Low, "the", Low, "rate", Low) \in Sym
    BY ShortTexts, TheLetters, Zenon
  <2>2. ~Without(Seven(Low, "at", Low, "the", Low, "rate", Low), Low)
    BY WithoutSeven
  <2>3. \A x, d : Form("at", x, d) /\ r < d =>
             ~Has(x, Seven(Low, "at", Low, "the", Low, "rate", Low))
    BY <1>1, <2>1, <2>2, AtFacts, AtOwn, AbsentAll, KindIs
  <2>4. \A x : Form("at", x, r) => x = Seven(Low, "at", Low, "the", Low, "rate", Low)
    BY <1>1, KindIs DEF AtForm
  <2>5. Becomes("at", r, Seven(Low, "at", Low, "the", Low, "rate", Low),
                Seven(Low, "at", Low, "the", Low, "rate", Low), One("@"))
    BY <2>1, HandlesWhole, RightForms
  <2> QED
    BY <2>3, <2>4, <2>5, HandlesFrom
<1>2. ASSUME NEW r \in 1 .. 26, r = 2
      PROVE  Handles("at", r, Seven("-", "at", "-", "the", "-", "rate", "-"), One("@"))
  <2>1. Seven("-", "at", "-", "the", "-", "rate", "-") \in Sym
    BY ShortTexts, TheLetters, Zenon
  <2>2. ~Without(Seven("-", "at", "-", "the", "-", "rate", "-"), "-")
    BY WithoutSeven
  <2>3. \A x, d : Form("at", x, d) /\ r < d =>
             ~Has(x, Seven("-", "at", "-", "the", "-", "rate", "-"))
    BY <1>2, <2>1, <2>2, AtFacts, AtOwn, AbsentAll, KindIs
  <2>4. \A x : Form("at", x, r) => x = Seven("-", "at", "-", "the", "-", "rate", "-")
    BY <1>2, KindIs DEF AtForm
  <2>5. Becomes("at", r, Seven("-", "at", "-", "the", "-", "rate", "-"),
                Seven("-", "at", "-", "the", "-", "rate", "-"), One("@"))
    BY <2>1, HandlesWhole, RightForms
  <2> QED
    BY <2>3, <2>4, <2>5, HandlesFrom
<1>3. ASSUME NEW r \in 1 .. 26, r = 3
      PROVE  Handles("at", r, Seven(Blank, "at", Blank, "the", Blank, "rate", Blank), One("@"))
  <2>1. Seven(Blank, "at", Blank, "the", Blank, "rate", Blank) \in Sym
    BY ShortTexts, TheLetters, Zenon
  <2>2. /\ ~Without(Seven(Blank, "at", Blank, "the", Blank, "rate", Blank), "the")
        /\ ~Without(Seven(Blank, "at", Blank, "the", Blank, "rate", Blank), Blank)
    BY WithoutSeven
  <2>3. \A x, d : Form("at", x, d) /\ r < d =>
             ~Has(x, Seven(Blank, "at", Blank, "the", Blank, "rate", Blank))
    BY <1>3, <2>1, <2>2, AtFacts, AtOwn, AbsentAll, KindIs
  <2>4. \A x : Form("at", x, r) => x = Seven(Blank, "at", Blank, "the", Blank, "rate", Blank)
    BY <1>3, KindIs DEF AtForm
  <2>5. Becomes("at", r, Seven(Blank, "at", Blank, "the", Blank, "rate", Blank),
                Seven(Blank, "at", Blank, "the", Blank, "rate", Blank), One("@"))
    BY <2>1, HandlesWhole, RightForms
  <2> QED
    BY <2>3, <2>4, <2>5, HandlesFrom
<1>4. ASSUME NEW r \in 1 .. 26, r = 4
      PROVE  Handles("at", r, Three("at", "the", "rate"), One("@"))
  <2>1. Three("at", "the", "rate") \in Sym
    BY ShortTexts, TheLetters, Zenon
  <2>2. ~Without(Three("at", "the", "rate"), "the")
    BY WithoutThree
  <2>3. \A x, d : Form("at", x, d) /\ r < d => ~Has(x, Three("at", "the", "rate"))
    BY <1>4, <2>1, <2>2, AtFacts, AtOwn, AbsentAll, KindIs
  <2>4. \A x : Form("at", x, r) =>
             x = Three("at", "the", "rate") \/ x = Five("(", "at", "the", "rate", ")")
    BY <1>4, KindIs DEF AtForm
  <2>5. Becomes("at", r, Three("at", "the", "rate"), Three("at", "the", "rate"), One("@"))
    BY <2>1, HandlesWhole, RightForms
  <2>6. Due("at", r, Three("(", "@", ")"))
    <3>1. 9 \in r .. 27
      BY <1>4
    <3>2. Form("at", Three("(", "@", ")"), 9)
      BY KindIs DEF AtForm
    <3> QED
      BY <3>1, <3>2 DEF Due
  <2>7. Becomes("at", r, Five("(", "at", "the", "rate", ")"), Three("at", "the", "rate"), One("@"))
    BY <2>6, HandlesInside, TheLetters, OtherThanThese
  <2> QED
    BY <2>3, <2>4, <2>5, <2>7, HandlesFrom
<1>5. ASSUME NEW r \in 1 .. 26, r = 5
      PROVE  Handles("at", r, Five("(", "at", "the", "rate", ")"), One("@"))
  <2>1. Five("(", "at", "the", "rate", ")") \in Sym
    BY ShortTexts, TheLetters, Zenon
  <2>2. ~Without(Five("(", "at", "the", "rate", ")"), "the")
    BY WithoutFive
  <2>3. \A x, d : Form("at", x, d) /\ r < d => ~Has(x, Five("(", "at", "the", "rate", ")"))
    BY <1>5, <2>1, <2>2, AtFacts, AtOwn, AbsentAll, KindIs
  <2>4. \A x : ~Form("at", x, r)
    BY <1>5, KindIs DEF AtForm
  <2> QED
    BY <2>3, <2>4, HandlesFrom
<1>6. ASSUME NEW r \in 1 .. 26, r = 6
      PROVE  Handles("at", r, Three("(", "at", ")"), One("@"))
  <2>1. Three("(", "at", ")") \in Sym
    BY ShortTexts, TheLetters, Zenon
  <2>2. ~Without(Three("(", "at", ")"), "(") /\ ~Without(Three("(", "at", ")"), "at")
    BY WithoutThree
  <2>3. \A x, d : Form("at", x, d) /\ r < d => ~Has(x, Three("(", "at", ")"))
    BY <1>6, <2>1, <2>2, AtFacts, AtOwn, AbsentAll, KindIs
  <2>4. \A x : Form("at", x, r) =>
             x = Three("(", "at", ")") \/ x = Five(Blank, "(", "at", ")", Blank)
    BY <1>6, KindIs DEF AtForm
  <2>5. Becomes("at", r, Three("(", "at", ")"), Three("(", "at", ")"), One("@"))
    BY <2>1, HandlesWhole, RightForms
  <2>6. Due("at", r, Three(Blank, "@", Blank))
    <3>1. 24 \in r .. 27
      BY <1>6
    <3>2. Form("at", Three(Blank, "@", Blank), 24)
      BY KindIs DEF AtForm
    <3> QED
      BY <3>1, <3>2 DEF Due
  <2>7. Becomes("at", r, Five(Blank, "(", "at", ")", Blank), Three("(", "at", ")"), One("@"))
    BY <2>6, HandlesInside, TheLetters, OtherThanThese
  <2> QED
    BY <2>3, <2>4, <2>5, <2>7, HandlesFrom
<1>7. ASSUME NEW r \in 1 .. 26, r = 7
      PROVE  Handles("at", r, Three("[", "at", "]"), One("@"))
  <2>1. Three("[", "at", "]") \in Sym
    BY ShortTexts, TheLetters, Zenon
  <2>2. ~Without(Three("[", "at", "]"), "[")
    BY WithoutThree
  <2>3. \A x, d : Form("at", x, d) /\ r < d => ~Has(x, Three("[", "at", "]"))
    BY <1>7, <2>1, <2>2, AtFacts, AtOwn, AbsentAll, KindIs
  <2>4. \A x : Form("at", x, r) =>
             x = Three("[", "at", "]") \/ x = Five(Blank, "[", "at", "]", Blank)
    BY <1>7, KindIs DEF AtForm
  <2>5. Becomes("at", r, Three("[", "at", "]"), Three("[", "at", "]"), One("@"))
    BY <2>1, HandlesWhole, RightForms
  <2>6. Due("at", r, Three(Blank, "@", Blank))
    <3>1. 24 \in r .. 27
      BY <1>7
    <3>2. Form("at", Three(Blank, "@", Blank), 24)
      BY KindIs DEF AtForm
    <3> QED
      BY <3>1, <3>2 DEF Due
  <2>7. Becomes("at", r, Five(Blank, "[", "at", "]", Blank), Three("[", "at", "]"), One("@"))
    BY <2>6, HandlesInside, TheLetters, OtherThanThese
  <2> QED
    BY <2>3, <2>4, <2>5, <2>7, HandlesFrom
<1>8. ASSUME NEW r \in 1 .. 26, r = 8
      PROVE  Handles("at", r, Three(Blank, "at", Blank), One("@"))
  <2>1. Three(Blank, "at", Blank) \in Sym
    BY ShortTexts, TheLetters, Zenon
  <2>2. ~Without(Three(Blank, "at", Blank), "at")
    BY WithoutThree
  <2>3. \A x, d : Form("at", x, d) /\ r < d => ~Has(x, Three(Blank, "at", Blank))
    BY <1>8, <2>1, <2>2, AtFacts, AtOwn, AbsentAll, KindIs
  <2>4. \A x : Form("at", x, r) => x = Three(Blank, "at", Blank)
    BY <1>8, KindIs DEF AtForm
  <2>5. Becomes("at", r, Three(Blank, "at", Blank), Three(Blank, "at", Blank), One("@"))
    BY <2>1, HandlesWhole, RightForms
  <2> QED
    BY <2>3, <2>4, <2>5, HandlesFrom
<1>9. ASSUME NEW r \in 1 .. 26, r = 9
      PROVE  Handles("at", r, Three("(", "@", ")"), One("@"))
  <2>1. Three("(", "@", ")") \in Sym
    BY ShortTexts, TheLetters, Zenon
  <2>2. ~Without(Three("(", "@", ")"), "(")
    BY WithoutThree
  <2>3. \A x, d : Form("at", x, d) /\ r < d => ~Has(x, Three("(", "@", ")"))
    BY <1>9, <2>1, <2>2, AtFacts, AtOwn, AbsentAll, KindIs
  <2>4. \A x : Form("at", x, r) => x = Three("(", "@", ")")
    BY <1>9, KindIs DEF AtForm
  <2>5. Becomes("at", r, Three("(", "@", ")"), Three("(", "@", ")"), One("@"))
    BY <2>1, HandlesWhole, RightForms
  <2> QED
    BY <2>3, <2>4, <2>5, HandlesFrom
<1>24. ASSUME NEW r \in 1 .. 26, r = 24
      PROVE  Handles("at", r, Three(Blank, "@", Blank), One("@"))
  <2>1. Three(Blank, "@", Blank) \in Sym
    BY ShortTexts, TheLetters, Zenon
  <2>2. ~Without(Three(Blank, "@", Blank), Blank)
    BY WithoutThree
  <2>3. \A x, d : Form("at", x, d) /\ r < d => ~Has(x, Three(Blank, "@", Blank))
    BY <1>24, <2>1, <2>2, AtFacts, AtOwn, AbsentAll, KindIs
  <2>4. \A x : Form("at", x, r) => x = Three(Blank, "@", Blank)
    BY <1>24, KindIs DEF AtForm
  <2>5. Becomes("at", r, Three(Blank, "@", Blank), Three(Blank, "@", Blank), One("@"))
    BY <2>1, HandlesWhole, RightForms
  <2> QED
    BY <2>3, <2>4, <2>5, HandlesFrom
<1> QED
  BY <1>1, <1>2, <1>3, <1>4, <1>5, <1>6, <1>7, <1>8, <1>9, <1>24, RulesAre

LEMMA NotAcross ==
  ASSUME NEW l \in Sym, NEW r \in Sym, NEW w \in Symbols, NEW old \in Sym,
         Without(old, w), ~Has(l, old), ~Has(r, old)
  PROVE  ~Has(Join(l, w, r), old)
<1> SUFFICES ASSUME Has(Join(l, w, r), old) PROVE FALSE
  OBVIOUS
<1> PICK p \in Sym, s \in Sym : Join(l, w, r) = p \bullet (old \bullet s)
  BY DEF Has
<1>1. OneSide(l, w, r, old, p, s)
  BY OnOneSide
<1> QED
  BY <1>1 DEF OneSide, Has

LEMMA ThreeInParts ==
  \A c, d, e \in Symbols : Three(c, d, e) = Join(One(c), d, One(e))
  BY ThreeIs DEF Bracketed, Join, One

\* " dot " is not in a "dot" with brackets and spaces around it.
LEMMA NotInBrackets ==
  ASSUME NEW b \in Symbols, NEW e \in Symbols, b # Blank, b # "dot", e # Blank, e # "dot"
  PROVE  ~Has(Five(Blank, b, "dot", e, Blank), Three(Blank, "dot", Blank))
<1> PICK old \in Sym : old = Three(Blank, "dot", Blank)
  BY ShortTexts, TheLetters
<1>1. ~Without(old, "dot") /\ ~Without(old, Blank) /\ Without(old, b) /\ Without(old, e)
  BY WithoutThree
<1>2. One(Blank) \in Sym /\ One("dot") \in Sym /\ Three("dot", e, Blank) \in Sym
  BY ShortTexts, TheLetters
<1>3. Without(One(Blank), "dot") /\ Without(One("dot"), Blank)
  BY WithoutOne, OtherThanThese
<1>4. ~Has(One(Blank), old) /\ ~Has(One("dot"), old)
  BY <1>1, <1>2, <1>3, AbsentAll
<1>5. ~Has(Join(One("dot"), e, One(Blank)), old)
  BY <1>1, <1>2, <1>4, NotAcross
<1>6. ~Has(Three("dot", e, Blank), old)
  BY <1>5, ThreeInParts, TheLetters
<1>7. ~Has(Join(One(Blank), b, Three("dot", e, Blank)), old)
  BY <1>1, <1>2, <1>4, <1>6, NotAcross
<1>8. Blank \in Symbols /\ "dot" \in Symbols
  BY TheLetters
<1>9. Five(Blank, b, "dot", e, Blank) = Join(One(Blank), b, Three("dot", e, Blank))
  BY <1>8, FiveInParts
<1> QED
  BY <1>7, <1>9

LEMMA DotHandled ==
  \A r \in 10 .. 16 \cup {25} : Handles("dot", r, Rules[r].old, Rules[r].updated)
<1>10. ASSUME NEW r \in 1 .. 26, r = 10
      PROVE  Handles("dot", r, Three(Low, "dot", Low), One("."))
  <2>1. Three(Low, "dot", Low) \in Sym
    BY ShortTexts, TheLetters, Zenon
  <2>2. ~Without(Three(Low, "dot", Low), Low)
    BY WithoutThree
  <2>3. \A x, d : Form("dot", x, d) /\ r < d => ~Has(x, Three(Low, "dot", Low))
    BY <1>10, <2>1, <2>2, DotFacts, DotOwn, AbsentAll, KindIs
  <2>4. \A x : Form("dot", x, r) => x = Three(Low, "dot", Low)
    BY <1>10, KindIs DEF DotForm
  <2>5. Becomes("dot", r, Three(Low, "dot", Low), Three(Low, "dot", Low), One("."))
    BY <2>1, HandlesWhole, RightForms
  <2> QED
    BY <2>3, <2>4, <2>5, HandlesFrom
<1>11. ASSUME NEW r \in 1 .. 26, r = 11
      PROVE  Handles("dot", r, Three(Blank, "dot", Blank), One("."))
  <2>1. Three(Blank, "dot", Blank) \in Sym
    BY ShortTexts, TheLetters, Zenon
  <2>2. ~Without(Three(Blank, "dot", Blank), Blank) /\ ~Without(Three(Blank, "dot", Blank), "dot")
    BY WithoutThree
  <2>3. \A x, d : Form("dot", x, d) /\ r < d => ~Has(x, Three(Blank, "dot", Blank))
    <3> SUFFICES ASSUME NEW x, NEW d, Form("dot", x, d), r < d
          PROVE ~Has(x, Three(Blank, "dot", Blank))
      OBVIOUS
    <3>1. DotForm(x, d) /\ x \in Sym
      BY KindIs, DotFacts
    <3>2. CASE Without(x, Blank) \/ Without(x, "dot")
      BY <2>1, <2>2, <3>1, <3>2, AbsentAll
    <3>3. CASE x = Five(Blank, "(", "dot", ")", Blank)
      BY <3>3, NotInBrackets, TheLetters, OtherThanThese
    <3>4. CASE x = Five(Blank, "[", "dot", "]", Blank)
      BY <3>4, NotInBrackets, TheLetters, OtherThanThese
    <3> QED
      BY <1>11, <3>1, <3>2, <3>3, <3>4, DotOwn
  <2>4. \A x : Form("dot", x, r) => x = Three(Blank, "dot", Blank)
    BY <1>11, KindIs DEF DotForm
  <2>5. Becomes("dot", r, Three(Blank, "dot", Blank), Three(Blank, "dot", Blank), One("."))
    BY <2>1, HandlesWhole, RightForms
  <2> QED
    BY <2>3, <2>4, <2>5, HandlesFrom
<1>12. ASSUME NEW r \in 1 .. 26, r = 12
      PROVE  Handles("dot", r, Three("(", "dot", ")"), One("."))
  <2>1. Three("(", "dot", ")") \in Sym
    BY ShortTexts, TheLetters, Zenon
  <2>2. ~Without(Three("(", "dot", ")"), "(") /\ ~Without(Three("(", "dot", ")"), "dot")
    BY WithoutThree
  <2>3. \A x, d : Form("dot", x, d) /\ r < d => ~Has(x, Three("(", "dot", ")"))
    BY <1>12, <2>1, <2>2, DotFacts, DotOwn, AbsentAll, KindIs
  <2>4. \A x : Form("dot", x, r) =>
             x = Three("(", "dot", ")") \/ x = Five(Blank, "(", "dot", ")", Blank)
    BY <1>12, KindIs DEF DotForm
  <2>5. Becomes("dot", r, Three("(", "dot", ")"), Three("(", "dot", ")"), One("."))
    BY <2>1, HandlesWhole, RightForms
  <2>6. Due("dot", r, Three(Blank, ".", Blank))
    <3>1. 25 \in r .. 27
      BY <1>12
    <3>2. Form("dot", Three(Blank, ".", Blank), 25)
      BY KindIs DEF DotForm
    <3> QED
      BY <3>1, <3>2 DEF Due
  <2>7. Becomes("dot", r, Five(Blank, "(", "dot", ")", Blank), Three("(", "dot", ")"), One("."))
    BY <2>6, HandlesInside, TheLetters, OtherThanThese
  <2> QED
    BY <2>3, <2>4, <2>5, <2>7, HandlesFrom
<1>13. ASSUME NEW r \in 1 .. 26, r = 13
      PROVE  Handles("dot", r, Three("[", "dot", "]"), One("."))
  <2>1. Three("[", "dot", "]") \in Sym
    BY ShortTexts, TheLetters, Zenon
  <2>2. ~Without(Three("[", "dot", "]"), "dot")
    BY WithoutThree
  <2>3. \A x, d : Form("dot", x, d) /\ r < d => ~Has(x, Three("[", "dot", "]"))
    BY <1>13, <2>1, <2>2, DotFacts, DotOwn, AbsentAll, KindIs
  <2>4. \A x : Form("dot", x, r) =>
             x = Three("[", "dot", "]") \/ x = Five(Blank, "[", "dot", "]", Blank)
    BY <1>13, KindIs DEF DotForm
  <2>5. Becomes("dot", r, Three("[", "dot", "]"), Three("[", "dot", "]"), One("."))
    BY <2>1, HandlesWhole, RightForms
  <2>6. Due("dot", r, Three(Blank, ".", Blank))
    <3>1. 25 \in r .. 27
      BY <1>13
    <3>2. Form("dot", Three(Blank, ".", Blank), 25)
      BY KindIs DEF DotForm
    <3> QED
      BY <3>1, <3>2 DEF Due
  <2>7. Becomes("dot", r, Five(Blank, "[", "dot", "]", Blank), Three("[", "dot", "]"), One("."))
    BY <2>6, HandlesInside, TheLetters, OtherThanThese
  <2> QED
    BY <2>3, <2>4, <2>5, <2>7, HandlesFrom
<1>14. ASSUME NEW r \in 1 .. 26, r = 14
      PROVE  Handles("dot", r, Three(Blank, "period", Blank), One("."))
  <2>1. Three(Blank, "period", Blank) \in Sym
    BY ShortTexts, TheLetters, Zenon
  <2>2. /\ ~Without(Three(Blank, "period", Blank), Blank)
        /\ ~Without(Three(Blank, "period", Blank), "period")
    BY WithoutThree
  <2>3. \A x, d : Form("dot", x, d) /\ r < d => ~Has(x, Three(Blank, "period", Blank))
    BY <1>14, <2>1, <2>2, DotFacts, DotOwn, AbsentAll, KindIs
  <2>4. \A x : Form("dot", x, r) => x = Three(Blank, "period", Blank)
    BY <1>14, KindIs DEF DotForm
  <2>5. Becomes("dot", r, Three(Blank, "period", Blank), Three(Blank, "period", Blank), One("."))
    BY <2>1, HandlesWhole, RightForms
  <2> QED
    BY <2>3, <2>4, <2>5, HandlesFrom
<1>15. ASSUME NEW r \in 1 .. 26, r = 15
      PROVE  Handles("dot", r, Two("period", Blank), One("."))
  <2>1. Two("period", Blank) \in Sym
    BY ShortTexts, TheLetters, Zenon
  <2>2. ~Without(Two("period", Blank), Blank) /\ ~Without(Two("period", Blank), "period")
    BY WithoutTwo
  <2>3. \A x, d : Form("dot", x, d) /\ r < d => ~Has(x, Two("period", Blank))
    BY <1>15, <2>1, <2>2, DotFacts, DotOwn, AbsentAll, KindIs
  <2>4. \A x : ~Form("dot", x, r)
    BY <1>15, KindIs DEF DotForm
  <2> QED
    BY <2>3, <2>4, HandlesFrom
<1>16. ASSUME NEW r \in 1 .. 26, r = 16
      PROVE  Handles("dot", r, Three("(", "period", ")"), One("."))
  <2>1. Three("(", "period", ")") \in Sym
    BY ShortTexts, TheLetters, Zenon
  <2>2. ~Without(Three("(", "period", ")"), "period")
    BY WithoutThree
  <2>3. \A x, d : Form("dot", x, d) /\ r < d => ~Has(x, Three("(", "period", ")"))
    BY <1>16, <2>1, <2>2, DotFacts, DotOwn, AbsentAll, KindIs
  <2>4. \A x : Form("dot", x, r) => x = Three("(", "period", ")")
    BY <1>16, KindIs DEF DotForm
  <2>5. Becomes("dot", r, Three("(", "period", ")"), Three("(", "period", ")"), One("."))
    BY <2>1, HandlesWhole, RightForms
  <2> QED
    BY <2>3, <2>4, <2>5, HandlesFrom
<1>25. ASSUME NEW r \in 1 .. 26, r = 25
      PROVE  Handles("dot", r, Three(Blank, ".", Blank), One("."))
  <2>1. Three(Blank, ".", Blank) \in Sym
    BY ShortTexts, TheLetters, Zenon
  <2>2. ~Without(Three(Blank, ".", Blank), Blank)
    BY WithoutThree
  <2>3. \A x, d : Form("dot", x, d) /\ r < d => ~Has(x, Three(Blank, ".", Blank))
    BY <1>25, <2>1, <2>2, DotFacts, DotOwn, AbsentAll, KindIs
  <2>4. \A x : Form("dot", x, r) => x = Three(Blank, ".", Blank)
    BY <1>25, KindIs DEF DotForm
  <2>5. Becomes("dot", r, Three(Blank, ".", Blank), Three(Blank, ".", Blank), One("."))
    BY <2>1, HandlesWhole, RightForms
  <2> QED
    BY <2>3, <2>4, <2>5, HandlesFrom
<1> QED
  BY <1>10, <1>11, <1>12, <1>13, <1>14, <1>15, <1>16, <1>25, RulesAre

LEMMA UnderscoreHandled ==
  \A r \in {17, 18} : Handles("underscore", r, Rules[r].old, Rules[r].updated)
<1>17. ASSUME NEW r \in 1 .. 26, r = 17
      PROVE  Handles("underscore", r, Three(Blank, "underscore", Blank), One(Low))
  <2>1. Three(Blank, "underscore", Blank) \in Sym
    BY ShortTexts, TheLetters, Zenon
  <2>2. ~Without(Three(Blank, "underscore", Blank), Blank)
    BY WithoutThree
  <2>3. \A x, d : Form("underscore", x, d) /\ r < d => ~Has(x, Three(Blank, "underscore", Blank))
    BY <1>17, <2>1, <2>2, UnderscoreFacts, UnderscoreOwn, AbsentAll, KindIs
  <2>4. \A x : Form("underscore", x, r) => x = Three(Blank, "underscore", Blank)
    BY <1>17, KindIs DEF UnderscoreForm
  <2>5. Becomes("underscore", r, Three(Blank, "underscore", Blank),
                Three(Blank, "underscore", Blank), One(Low))
    BY <2>1, HandlesWhole, RightForms
  <2> QED
    BY <2>3, <2>4, <2>5, HandlesFrom
<1>18. ASSUME NEW r \in 1 .. 26, r = 18
      PROVE  Handles("underscore", r, One("underscore"), One(Low))
  <2>1. One("underscore") \in Sym
    BY ShortTexts, TheLetters, Zenon
  <2>2. ~Without(One("underscore"), "underscore")
    BY WithoutOne
  <2>3. \A x, d : Form("underscore", x, d) /\ r < d => ~Has(x, One("underscore"))
    BY <1>18, <2>1, <2>2, UnderscoreFacts, UnderscoreOwn, AbsentAll, KindIs
  <2>4. \A x : Form("underscore", x, r) => x = One("underscore")
    BY <1>18, KindIs DEF UnderscoreForm
  <2>5. Becomes("underscore", r, One("underscore"), One("underscore"), One(Low))
    BY <2>1, HandlesWhole, RightForms
  <2> QED
    BY <2>3, <2>4, <2>5, HandlesFrom
<1> QED
  BY <1>17, <1>18, RulesAre

\* Every rule does right by every form of every symbol.
LEMMA AllHandled ==
  \A r \in 1 .. 26 : \A kind \in Kinds : Handles(kind, r, Rules[r].old, Rules[r].updated)
<1> SUFFICES ASSUME NEW r \in 1 .. 26
             PROVE  \A kind \in Kinds : Handles(kind, r, Rules[r].old, Rules[r].updated)
  OBVIOUS
<1> PICK old \in Sym : old = Rules[r].old
  BY RuleTexts
<1>1. Handles("at", r, old, Rules[r].updated)
  <2>1. CASE r \in 1 .. 9 \cup {24}
    BY <2>1, AtHandled
  <2>2. CASE r \notin 1 .. 9 \cup {24}
    <3>1. \A x, d : Form("at", x, d) => AtForm(x, d) /\ d # r
      BY <2>2, KindIs, AtDues
    <3>2. \/ ~Without(old, "dot") \/ ~Without(old, "period") \/ ~Without(old, "underscore")
          \/ ~Without(old, "gm") \/ ~Without(old, "google") \/ ~Without(old, ".")
      BY <2>2, RuleSymbols
    <3> QED
      BY <3>1, <3>2, AtFacts, KindsAre, HandlesForeign
  <2> QED
    BY <2>1, <2>2
<1>2. Handles("dot", r, old, Rules[r].updated)
  <2>1. CASE r \in 10 .. 16 \cup {25}
    BY <2>1, DotHandled
  <2>2. CASE r \notin 10 .. 16 \cup {25}
    <3>1. \A x, d : Form("dot", x, d) => DotForm(x, d) /\ d # r
      BY <2>2, KindIs, DotFacts
    <3>2. \/ ~Without(old, "at") \/ ~Without(old, "@") \/ ~Without(old, "underscore")
          \/ ~Without(old, "gm") \/ ~Without(old, "google") \/ ~Without(old, "com")
      BY <2>2, RuleSymbols
    <3> QED
      BY <3>1, <3>2, DotFacts, KindsAre, HandlesForeign
  <2> QED
    BY <2>1, <2>2
<1>3. Handles("underscore", r, old, Rules[r].updated)
  <2>1. CASE r \in {17, 18}
    BY <2>1, UnderscoreHandled
  <2>2. CASE r \notin {17, 18}
    <3>1. \A x, d : Form("underscore", x, d) => UnderscoreForm(x, d) /\ d # r
      BY <2>2, KindIs, UnderscoreFacts
    <3>2. \/ ~Without(old, "at") \/ ~Without(old, "@") \/ ~Without(old, "dot")
          \/ ~Without(old, "period") \/ ~Without(old, "gm") \/ ~Without(old, "google")
          \/ ~Without(old, ".")
      BY <2>2, RuleSymbols
    <3> QED
      BY <3>1, <3>2, UnderscoreFacts, KindsAre, HandlesForeign
  <2> QED
    BY <2>1, <2>2
<1> QED
  BY <1>1, <1>2, <1>3 DEF Kinds

-----------------------------------------------------------------------------
(* The address while it is rewritten.                                      *)

\* The address, its symbols in some form.
Whole(u, d, a, e) ==
  Join(<<>>, "ann", Join(u, "lee", Join(d, "x", Join(a, "yahoo", Join(e, "com", <<>>)))))

\* What the rules before r may leave of it.
Left(r, x) ==
  \E u, d, a, e : /\ Due("underscore", r, u) /\ Due("dot", r, d) /\ Due("at", r, a)
                  /\ Due("dot", r, e) /\ x = Whole(u, d, a, e)

LEMMA NamesAreApart ==
  ASSUME NEW r \in 1 .. 25
  PROVE  /\ Without(Rules[r].old, "ann") /\ Without(Rules[r].old, "lee")
         /\ Without(Rules[r].old, "x") /\ Without(Rules[r].old, "yahoo")
         /\ Without(Rules[r].old, "com")
<1>1. /\ Without(Seven(Low, "at", Low, "the", Low, "rate", Low), "ann")
      /\ Without(Seven(Low, "at", Low, "the", Low, "rate", Low), "lee")
      /\ Without(Seven(Low, "at", Low, "the", Low, "rate", Low), "x")
      /\ Without(Seven(Low, "at", Low, "the", Low, "rate", Low), "yahoo")
      /\ Without(Seven(Low, "at", Low, "the", Low, "rate", Low), "com")
  BY WithoutSeven, OtherThanThese
<1>2. /\ Without(Seven("-", "at", "-", "the", "-", "rate", "-"), "ann")
      /\ Without(Seven("-", "at", "-", "the", "-", "rate", "-"), "lee")
      /\ Without(Seven("-", "at", "-", "the", "-", "rate", "-"), "x")
      /\ Without(Seven("-", "at", "-", "the", "-", "rate", "-"), "yahoo")
      /\ Without(Seven("-", "at", "-", "the", "-", "rate", "-"), "com")
  BY WithoutSeven, OtherThanThese
<1>3. /\ Without(Seven(Blank, "at", Blank, "the", Blank, "rate", Blank), "ann")
      /\ Without(Seven(Blank, "at", Blank, "the", Blank, "rate", Blank), "lee")
      /\ Without(Seven(Blank, "at", Blank, "the", Blank, "rate", Blank), "x")
      /\ Without(Seven(Blank, "at", Blank, "the", Blank, "rate", Blank), "yahoo")
      /\ Without(Seven(Blank, "at", Blank, "the", Blank, "rate", Blank), "com")
  BY WithoutSeven, OtherThanThese
<1>4. /\ Without(Three("at", "the", "rate"), "ann")
      /\ Without(Three("at", "the", "rate"), "lee")
      /\ Without(Three("at", "the", "rate"), "x")
      /\ Without(Three("at", "the", "rate"), "yahoo")
      /\ Without(Three("at", "the", "rate"), "com")
  BY WithoutThree, OtherThanThese
<1>5. /\ Without(Five("(", "at", "the", "rate", ")"), "ann")
      /\ Without(Five("(", "at", "the", "rate", ")"), "lee")
      /\ Without(Five("(", "at", "the", "rate", ")"), "x")
      /\ Without(Five("(", "at", "the", "rate", ")"), "yahoo")
      /\ Without(Five("(", "at", "the", "rate", ")"), "com")
  BY WithoutFive, OtherThanThese
<1>6. /\ Without(Three("(", "at", ")"), "ann")
      /\ Without(Three("(", "at", ")"), "lee")
      /\ Without(Three("(", "at", ")"), "x")
      /\ Without(Three("(", "at", ")"), "yahoo")
      /\ Without(Three("(", "at", ")"), "com")
  BY WithoutThree, OtherThanThese
<1>7. /\ Without(Three("[", "at", "]"), "ann")
      /\ Without(Three("[", "at", "]"), "lee")
      /\ Without(Three("[", "at", "]"), "x")
      /\ Without(Three("[", "at", "]"), "yahoo")
      /\ Without(Three("[", "at", "]"), "com")
  BY WithoutThree, OtherThanThese
<1>8. /\ Without(Three(Blank, "at", Blank), "ann")
      /\ Without(Three(Blank, "at", Blank), "lee")
      /\ Without(Three(Blank, "at", Blank), "x")
      /\ Without(Three(Blank, "at", Blank), "yahoo")
      /\ Without(Three(Blank, "at", Blank), "com")
  BY WithoutThree, OtherThanThese
<1>9. /\ Without(Three("(", "@", ")"), "ann")
      /\ Without(Three("(", "@", ")"), "lee")
      /\ Without(Three("(", "@", ")"), "x")
      /\ Without(Three("(", "@", ")"), "yahoo")
      /\ Without(Three("(", "@", ")"), "com")
  BY WithoutThree, OtherThanThese
<1>10. /\ Without(Three(Low, "dot", Low), "ann")
       /\ Without(Three(Low, "dot", Low), "lee")
       /\ Without(Three(Low, "dot", Low), "x")
       /\ Without(Three(Low, "dot", Low), "yahoo")
       /\ Without(Three(Low, "dot", Low), "com")
  BY WithoutThree, OtherThanThese
<1>11. /\ Without(Three(Blank, "dot", Blank), "ann")
       /\ Without(Three(Blank, "dot", Blank), "lee")
       /\ Without(Three(Blank, "dot", Blank), "x")
       /\ Without(Three(Blank, "dot", Blank), "yahoo")
       /\ Without(Three(Blank, "dot", Blank), "com")
  BY WithoutThree, OtherThanThese
<1>12. /\ Without(Three("(", "dot", ")"), "ann")
       /\ Without(Three("(", "dot", ")"), "lee")
       /\ Without(Three("(", "dot", ")"), "x")
       /\ Without(Three("(", "dot", ")"), "yahoo")
       /\ Without(Three("(", "dot", ")"), "com")
  BY WithoutThree, OtherThanThese
<1>13. /\ Without(Three("[", "dot", "]"), "ann")
       /\ Without(Three("[", "dot", "]"), "lee")
       /\ Without(Three("[", "dot", "]"), "x")
       /\ Without(Three("[", "dot", "]"), "yahoo")
       /\ Without(Three("[", "dot", "]"), "com")
  BY WithoutThree, OtherThanThese
<1>14. /\ Without(Three(Blank, "period", Blank), "ann")
       /\ Without(Three(Blank, "period", Blank), "lee")
       /\ Without(Three(Blank, "period", Blank), "x")
       /\ Without(Three(Blank, "period", Blank), "yahoo")
       /\ Without(Three(Blank, "period", Blank), "com")
  BY WithoutThree, OtherThanThese
<1>15. /\ Without(Two("period", Blank), "ann")
       /\ Without(Two("period", Blank), "lee")
       /\ Without(Two("period", Blank), "x")
       /\ Without(Two("period", Blank), "yahoo")
       /\ Without(Two("period", Blank), "com")
  BY WithoutTwo, OtherThanThese
<1>16. /\ Without(Three("(", "period", ")"), "ann")
       /\ Without(Three("(", "period", ")"), "lee")
       /\ Without(Three("(", "period", ")"), "x")
       /\ Without(Three("(", "period", ")"), "yahoo")
       /\ Without(Three("(", "period", ")"), "com")
  BY WithoutThree, OtherThanThese
<1>17. /\ Without(Three(Blank, "underscore", Blank), "ann")
       /\ Without(Three(Blank, "underscore", Blank), "lee")
       /\ Without(Three(Blank, "underscore", Blank), "x")
       /\ Without(Three(Blank, "underscore", Blank), "yahoo")
       /\ Without(Three(Blank, "underscore", Blank), "com")
  BY WithoutThree, OtherThanThese
<1>18. /\ Without(One("underscore"), "ann")
       /\ Without(One("underscore"), "lee")
       /\ Without(One("underscore"), "x")
       /\ Without(One("underscore"), "yahoo")
       /\ Without(One("underscore"), "com")
  BY WithoutOne, OtherThanThese
<1>19. /\ Without(Four(Blank, "gm", "l", Blank), "ann")
       /\ Without(Four(Blank, "gm", "l", Blank), "lee")
       /\ Without(Four(Blank, "gm", "l", Blank), "x")
       /\ Without(Four(Blank, "gm", "l", Blank), "yahoo")
       /\ Without(Four(Blank, "gm", "l", Blank), "com")
  BY WithoutFour, OtherThanThese
<1>20. /\ Without(Four(Blank, "gm", "ai", Blank), "ann")
       /\ Without(Four(Blank, "gm", "ai", Blank), "lee")
       /\ Without(Four(Blank, "gm", "ai", Blank), "x")
       /\ Without(Four(Blank, "gm", "ai", Blank), "yahoo")
       /\ Without(Four(Blank, "gm", "ai", Blank), "com")
  BY WithoutFour, OtherThanThese
<1>21. /\ Without(Five(Blank, "google", Blank, "mail", Blank), "ann")
       /\ Without(Five(Blank, "google", Blank, "mail", Blank), "lee")
       /\ Without(Five(Blank, "google", Blank, "mail", Blank), "x")
       /\ Without(Five(Blank, "google", Blank, "mail", Blank), "yahoo")
       /\ Without(Five(Blank, "google", Blank, "mail", Blank), "com")
  BY WithoutFive, OtherThanThese
<1>22. /\ Without(Three(Blank, "gm", Blank), "ann")
       /\ Without(Three(Blank, "gm", Blank), "lee")
       /\ Without(Three(Blank, "gm", Blank), "x")
       /\ Without(Three(Blank, "gm", Blank), "yahoo")
       /\ Without(Three(Blank, "gm", Blank), "com")
  BY WithoutThree, OtherThanThese
<1>23. /\ Without(Two("gm", Blank), "ann")
       /\ Without(Two("gm", Blank), "lee")
       /\ Without(Two("gm", Blank), "x")
       /\ Without(Two("gm", Blank), "yahoo")
       /\ Without(Two("gm", Blank), "com")
  BY WithoutTwo, OtherThanThese
<1>24. /\ Without(Three(Blank, "@", Blank), "ann")
       /\ Without(Three(Blank, "@", Blank), "lee")
       /\ Without(Three(Blank, "@", Blank), "x")
       /\ Without(Three(Blank, "@", Blank), "yahoo")
       /\ Without(Three(Blank, "@", Blank), "com")
  BY WithoutThree, OtherThanThese
<1>25. /\ Without(Three(Blank, ".", Blank), "ann")
       /\ Without(Three(Blank, ".", Blank), "lee")
       /\ Without(Three(Blank, ".", Blank), "x")
       /\ Without(Three(Blank, ".", Blank), "yahoo")
       /\ Without(Three(Blank, ".", Blank), "com")
  BY WithoutThree, OtherThanThese
<1>26. CASE r \in 1 .. 5
  <2>1. r = 1 \/ r = 2 \/ r = 3 \/ r = 4 \/ r = 5
    BY <1>26
  <2> QED
    BY <1>1, <1>2, <1>3, <1>4, <1>5, <2>1, RulesAre
<1>27. CASE r \in 6 .. 10
  <2>1. r = 6 \/ r = 7 \/ r = 8 \/ r = 9 \/ r = 10
    BY <1>27
  <2> QED
    BY <1>6, <1>7, <1>8, <1>9, <1>10, <2>1, RulesAre
<1>28. CASE r \in 11 .. 15
  <2>1. r = 11 \/ r = 12 \/ r = 13 \/ r = 14 \/ r = 15
    BY <1>28
  <2> QED
    BY <1>11, <1>12, <1>13, <1>14, <1>15, <2>1, RulesAre
<1>29. CASE r \in 16 .. 20
  <2>1. r = 16 \/ r = 17 \/ r = 18 \/ r = 19 \/ r = 20
    BY <1>29
  <2> QED
    BY <1>16, <1>17, <1>18, <1>19, <1>20, <2>1, RulesAre
<1>30. CASE r \in 21 .. 25
  <2>1. r = 21 \/ r = 22 \/ r = 23 \/ r = 24 \/ r = 25
    BY <1>30
  <2> QED
    BY <1>21, <1>22, <1>23, <1>24, <1>25, <2>1, RulesAre
<1> QED
  BY <1>26, <1>27, <1>28, <1>29, <1>30

LEMMA DueIsText ==
  \A kind \in Kinds : \A r \in 1 .. 27 : \A x : Due(kind, r, x) => x \in Sym
  BY FormIsText DEF Due

LEMMA NoneInNothing ==
  ASSUME NEW old \in Sym, NEW w, ~Without(old, w)
  PROVE  ~Has(<<>>, old)
<1>1. <<>> \in Sym /\ Without(<<>>, w)
  BY NoSymbols DEF Without, Indices
<1> QED
  BY <1>1, Absent

LEMMA SomeSymbol == \A r \in 1 .. 26 : \E w : ~Without(Rules[r].old, w)
<1> SUFFICES ASSUME NEW r \in 1 .. 26 PROVE \E w : ~Without(Rules[r].old, w)
  OBVIOUS
<1>1. CASE r \in 1 .. 16
  BY <1>1, RuleSymbols
<1>2. CASE r \in 17 .. 26
  BY <1>2, RuleSymbols
<1> QED
  BY <1>1, <1>2

\* A rule changes one of the forms, or finds nothing.
LEMMA WholeTurned ==
  ASSUME NEW r \in 1 .. 25, NEW x, Left(r, x)
  PROVE  /\ \A y : Replaced(x, Rules[r].old, Rules[r].updated, y) => Left(r, y)
         /\ ~Has(x, Rules[r].old) => Left(r + 1, x)
<1>0. r \in 1 .. 26 /\ r \in 1 .. 27
  OBVIOUS
<1> PICK u, d, a, e : /\ Due("underscore", r, u) /\ Due("dot", r, d) /\ Due("at", r, a)
                      /\ Due("dot", r, e) /\ x = Whole(u, d, a, e)
  BY DEF Left
<1>1. u \in Sym /\ d \in Sym /\ a \in Sym /\ e \in Sym
  BY <1>0, DueIsText, KindsAre
<1> PICK old \in Sym : old = Rules[r].old
  BY <1>0, RuleTexts
<1> PICK new \in Sym : new = Rules[r].updated
  BY <1>0, RuleTexts
<1> PICK n \in Sym : n = <<>>
  BY NoSymbols
<1>2. ~Has(n, old)
  BY <1>0, NoneInNothing, SomeSymbol
<1>3. /\ "ann" \in Symbols /\ "lee" \in Symbols /\ "x" \in Symbols /\ "yahoo" \in Symbols
      /\ "com" \in Symbols
  BY TheLetters
<1>4. /\ Without(old, "ann") /\ Without(old, "lee") /\ Without(old, "x")
      /\ Without(old, "yahoo") /\ Without(old, "com")
  BY NamesAreApart
<1> PICK x5 \in Sym : x5 = Join(e, "com", n)
  BY <1>1, <1>3, JoinIsText
<1> PICK x4 \in Sym : x4 = Join(a, "yahoo", x5)
  BY <1>1, <1>3, JoinIsText
<1> PICK x3 \in Sym : x3 = Join(d, "x", x4)
  BY <1>1, <1>3, JoinIsText
<1> PICK x2 \in Sym : x2 = Join(u, "lee", x3)
  BY <1>1, <1>3, JoinIsText
<1>5. x = Join(n, "ann", x2)
  BY DEF Whole
<1>6. /\ Handles("underscore", r, old, new) /\ Handles("dot", r, old, new)
      /\ Handles("at", r, old, new)
  BY <1>0, AllHandled, KindsAre
<1>7. ASSUME NEW y, Replaced(x, old, new, y) PROVE Left(r, y)
  <2>0. TurnedSide(n, "ann", x2, old, new, y)
    BY <1>3, <1>4, <1>5, <1>7, TurnedInJoin
  <2>1. PICK y2 \in Sym : Replaced(x2, old, new, y2) /\ y = Join(n, "ann", y2)
    BY <1>2, <2>0, TurnedHas DEF TurnedSide
  <2>2. CASE \E z \in Sym : Replaced(u, old, new, z) /\ y2 = Join(z, "lee", x3)
    <3> PICK z \in Sym : Replaced(u, old, new, z) /\ y2 = Join(z, "lee", x3)
      BY <2>2
    <3>1. Due("underscore", r, z)
      BY <1>6 DEF Handles
    <3>2. y = Whole(z, d, a, e)
      BY <2>1 DEF Whole
    <3> QED
      BY <3>1, <3>2 DEF Left
  <2>3. CASE \E y3 \in Sym : Replaced(x3, old, new, y3) /\ y2 = Join(u, "lee", y3)
    <3> PICK y3 \in Sym : Replaced(x3, old, new, y3) /\ y2 = Join(u, "lee", y3)
      BY <2>3
    <3>1. CASE \E z \in Sym : Replaced(d, old, new, z) /\ y3 = Join(z, "x", x4)
      <4> PICK z \in Sym : Replaced(d, old, new, z) /\ y3 = Join(z, "x", x4)
        BY <3>1
      <4>1. Due("dot", r, z)
        BY <1>6 DEF Handles
      <4>2. y = Whole(u, z, a, e)
        BY <2>1 DEF Whole
      <4> QED
        BY <4>1, <4>2 DEF Left
    <3>2. CASE \E y4 \in Sym : Replaced(x4, old, new, y4) /\ y3 = Join(d, "x", y4)
      <4> PICK y4 \in Sym : Replaced(x4, old, new, y4) /\ y3 = Join(d, "x", y4)
        BY <3>2
      <4>1. CASE \E z \in Sym : Replaced(a, old, new, z) /\ y4 = Join(z, "yahoo", x5)
        <5> PICK z \in Sym : Replaced(a, old, new, z) /\ y4 = Join(z, "yahoo", x5)
          BY <4>1
        <5>1. Due("at", r, z)
          BY <1>6 DEF Handles
        <5>2. y = Whole(u, d, z, e)
          BY <2>1 DEF Whole
        <5> QED
          BY <5>1, <5>2 DEF Left
      <4>2. CASE \E y5 \in Sym : Replaced(x5, old, new, y5) /\ y4 = Join(a, "yahoo", y5)
        <5> PICK y5 \in Sym : Replaced(x5, old, new, y5) /\ y4 = Join(a, "yahoo", y5)
          BY <4>2
        <5>0. TurnedSide(e, "com", n, old, new, y5)
          BY <1>1, <1>3, <1>4, TurnedInJoin
        <5> PICK z \in Sym : Replaced(e, old, new, z) /\ y5 = Join(z, "com", n)
          BY <1>2, <5>0, TurnedHas DEF TurnedSide
        <5>1. Due("dot", r, z)
          BY <1>6 DEF Handles
        <5>2. y = Whole(u, d, a, z)
          BY <2>1 DEF Whole
        <5> QED
          BY <5>1, <5>2 DEF Left
      <4>3. TurnedSide(a, "yahoo", x5, old, new, y4)
        BY <1>1, <1>3, <1>4, TurnedInJoin
      <4> QED
        BY <4>1, <4>2, <4>3 DEF TurnedSide
    <3>3. TurnedSide(d, "x", x4, old, new, y3)
      BY <1>1, <1>3, <1>4, TurnedInJoin
    <3> QED
      BY <3>1, <3>2, <3>3 DEF TurnedSide
  <2>4. TurnedSide(u, "lee", x3, old, new, y2)
    BY <1>1, <1>3, <1>4, <2>1, TurnedInJoin
  <2> QED
    BY <2>2, <2>3, <2>4 DEF TurnedSide
<1>8. ASSUME ~Has(x, old) PROVE Left(r + 1, x)
  <2>1. ~Has(x2, old)
    BY <1>3, <1>5, <1>8, HasInJoin
  <2>2. ~Has(u, old) /\ ~Has(x3, old)
    BY <1>1, <1>3, <2>1, HasInJoin
  <2>3. ~Has(d, old) /\ ~Has(x4, old)
    BY <1>1, <1>3, <2>2, HasInJoin
  <2>4. ~Has(a, old) /\ ~Has(x5, old)
    BY <1>1, <1>3, <2>3, HasInJoin
  <2>5. ~Has(e, old)
    BY <1>1, <1>3, <2>4, HasInJoin
  <2>6. /\ Due("underscore", r + 1, u) /\ Due("dot", r + 1, d) /\ Due("at", r + 1, a)
        /\ Due("dot", r + 1, e)
    BY <1>6, <2>2, <2>3, <2>4, <2>5 DEF Handles
  <2> QED
    BY <2>6 DEF Left
<1> QED
  BY <1>7, <1>8

LEMMA WithoutConcat ==
  ASSUME NEW a \in Sym, NEW b \in Sym, NEW v, Without(a, v), Without(b, v)
  PROVE  Without(a \bullet b, v)
<1> SUFFICES ASSUME NEW n \in Indices(a \bullet b) PROVE Nth(a \bullet b, n) # v
  BY DEF Without
<1>1. Length(a) \in Nat /\ Length(b) \in Nat /\ Length(a \bullet b) = Length(a) + Length(b)
  BY Concat
<1>2. n \in 1 .. Length(a) + Length(b)
  BY <1>1 DEF Indices, Length
<1>3. CASE n \in 1 .. Length(a)
  <2>1. n \in Indices(a)
    BY <1>3 DEF Indices, Length
  <2> QED
    BY <2>1, ConcatLeft DEF Without
<1>4. CASE n \notin 1 .. Length(a)
  <2>1. n - Length(a) \in 1 .. Length(b) /\ Length(a) + (n - Length(a)) = n
    BY <1>1, <1>2, <1>4
  <2> PICK k \in 1 .. Length(b) : Length(a) + k = n
    BY <2>1
  <2>2. k \in Indices(b) /\ Past(a, k) = n
    BY DEF Indices, Length, Past
  <2> QED
    BY <2>2, ConcatRight DEF Without
<1> QED
  BY <1>3, <1>4

LEMMA WithoutJoin ==
  ASSUME NEW l \in Sym, NEW r \in Sym, NEW w \in Symbols, NEW v,
         Without(l, v), Without(r, v), w # v
  PROVE  Without(Join(l, w, r), v)
<1> PICK x \in Sym : x = One(w) /\ x = <<w>>
  BY ShortTexts DEF One
<1>1. Without(x, v)
  BY WithoutOne
<1>2. x \bullet r \in Sym /\ Without(x \bullet r, v)
  BY <1>1, Concat, WithoutConcat
<1> QED
  BY <1>2, WithoutConcat DEF Join

LEMMA RightInTheEnd ==
  ASSUME NEW kind \in Kinds, NEW r \in {26, 27}, NEW x, Due(kind, r, x)
  PROVE  /\ kind = "at" => x = One("@")
         /\ kind = "dot" => x = One(".")
         /\ kind = "underscore" => x = One(Low)
<1> PICK d \in r .. 27 : Form(kind, x, d)
  BY DEF Due
<1>1. d = 26 \/ d = 27
  OBVIOUS
<1>2. kind = "at" => AtForm(x, d) /\ d = 27
  BY <1>1, KindIs, AtDues
<1>3. kind = "dot" => DotForm(x, d) /\ d = 27
  BY <1>1, KindIs, DotFacts
<1>4. kind = "underscore" => UnderscoreForm(x, d) /\ d = 27
  BY <1>1, KindIs, UnderscoreFacts
<1> QED
  BY <1>2, <1>3, <1>4, AtFacts, DotFacts, UnderscoreFacts

\* When the last rule is tried the address stands there.
TheAddress == Whole(One(Low), One("."), One("@"), One("."))

LEMMA TheAddressIsText == TheAddress \in Sym /\ Without(TheAddress, Blank)
<1> PICK u \in Sym : u = One(Low) /\ Without(u, Blank)
  BY RightForms, WithoutOne, OtherThanThese
<1> PICK d \in Sym : d = One(".") /\ Without(d, Blank)
  BY RightForms, WithoutOne, OtherThanThese
<1> PICK a \in Sym : a = One("@") /\ Without(a, Blank)
  BY RightForms, WithoutOne, OtherThanThese
<1> PICK n \in Sym : n = <<>> /\ Without(n, Blank)
  BY NoSymbols DEF Without, Indices
<1>1. /\ "ann" \in Symbols /\ "lee" \in Symbols /\ "x" \in Symbols /\ "yahoo" \in Symbols
      /\ "com" \in Symbols
      /\ "ann" # Blank /\ "lee" # Blank /\ "x" # Blank /\ "yahoo" # Blank /\ "com" # Blank
  BY TheLetters, OtherThanThese
<1> PICK x5 \in Sym : x5 = Join(d, "com", n) /\ Without(x5, Blank)
  BY <1>1, JoinIsText, WithoutJoin
<1> PICK x4 \in Sym : x4 = Join(a, "yahoo", x5) /\ Without(x4, Blank)
  BY <1>1, JoinIsText, WithoutJoin
<1> PICK x3 \in Sym : x3 = Join(d, "x", x4) /\ Without(x3, Blank)
  BY <1>1, JoinIsText, WithoutJoin
<1> PICK x2 \in Sym : x2 = Join(u, "lee", x3) /\ Without(x2, Blank)
  BY <1>1, JoinIsText, WithoutJoin
<1> PICK x1 \in Sym : x1 = Join(n, "ann", x2) /\ Without(x1, Blank)
  BY <1>1, JoinIsText, WithoutJoin
<1>2. TheAddress = x1
  BY DEF TheAddress, Whole
<1> QED
  BY <1>2

LEMMA WholeInTheEnd ==
  ASSUME NEW r \in {26, 27}, NEW x, Left(r, x)
  PROVE  x = TheAddress /\ ~Has(x, Rules[26].old) /\ Left(27, x)
<1> PICK u, d, a, e : /\ Due("underscore", r, u) /\ Due("dot", r, d) /\ Due("at", r, a)
                      /\ Due("dot", r, e) /\ x = Whole(u, d, a, e)
  BY DEF Left
<1>1. u = One(Low) /\ d = One(".") /\ a = One("@") /\ e = One(".")
  BY RightInTheEnd, KindsAre
<1>2. x = TheAddress
  BY <1>1 DEF TheAddress
<1> PICK old \in Sym : old = Rules[26].old
  BY RuleTexts
<1>3. ~Without(old, Blank)
  BY RulesAre, WithoutThree
<1>4. ~Has(x, old)
  BY <1>2, <1>3, TheAddressIsText, Absent
<1>5. 27 \in 27 .. 27
  OBVIOUS
<1>6. /\ Due("underscore", 27, One(Low)) /\ Due("dot", 27, One("."))
      /\ Due("at", 27, One("@"))
  BY <1>5, RightForms DEF Due
<1>7. Left(27, x)
  BY <1>2, <1>6 DEF Left, TheAddress
<1> QED
  BY <1>2, <1>4, <1>7

-----------------------------------------------------------------------------
(* strstr().                                                               *)

LEMMA MinIs ==
  ASSUME NEW S, S \subseteq Int, NEW m \in S, \A y \in S : m <= y
  PROVE  Min(S) = m
<1>1. Min(S) \in S /\ \A y \in S : Min(S) <= y
  BY Zenon DEF Min
<1>2. Min(S) <= m /\ m <= Min(S) /\ Min(S) \in Int /\ m \in Int
  BY <1>1
<1> QED
  BY <1>2

LEMMA MaxIs ==
  ASSUME NEW S, S \subseteq Int, NEW m \in S, \A y \in S : m >= y
  PROVE  Max(S) = m
<1>1. Max(S) \in S /\ \A y \in S : Max(S) >= y
  BY Zenon DEF Max
<1>2. Max(S) >= m /\ m >= Max(S) /\ Max(S) \in Int /\ m \in Int
  BY <1>1
<1> QED
  BY <1>2

LEMMA MinIn ==
  ASSUME NEW S, S \subseteq Nat, S # {}
  PROVE  Min(S) \in S
<1>1. PICK n \in S : \A m \in S : n <= m
  BY LeastNumber
<1>2. S \subseteq Int
  OBVIOUS
<1>3. Min(S) = n
  BY <1>1, <1>2, MinIs
<1> QED
  BY <1>3

LEMMA MaxIn ==
  ASSUME NEW N \in Nat, NEW S, S \subseteq 0 .. N, S # {}
  PROVE  Max(S) \in S
<1> DEFINE T == {n \in 0 .. N : N - n \in S}
<1>1. T \subseteq Nat
  OBVIOUS
<1>2. PICK s \in S : s \in 0 .. N
  OBVIOUS
<1>3. N - s \in 0 .. N /\ N - (N - s) = s
  BY <1>2
<1>4. N - s \in T
  BY <1>3
<1>5. PICK t \in T : \A m \in T : t <= m
  BY <1>1, <1>4, LeastNumber
<1>6. N - t \in S /\ t \in 0 .. N
  BY <1>5
<1>7. \A y \in S : N - t >= y
  <2> SUFFICES ASSUME NEW y \in S PROVE N - t >= y
    OBVIOUS
  <2>1. y \in 0 .. N /\ N - y \in 0 .. N /\ N - (N - y) = y
    OBVIOUS
  <2>2. N - y \in T
    BY <2>1
  <2>3. t <= N - y
    BY <1>5, <2>2
  <2> QED
    BY <1>6, <2>1, <2>3
<1>8. S \subseteq Int
  OBVIOUS
<1>9. Max(S) = N - t
  BY <1>6, <1>7, <1>8, MaxIs
<1> QED
  BY <1>6, <1>9

LEMMA SubText ==
  ASSUME NEW x \in Sym, NEW m \in 1 .. Len(x) + 1, NEW n \in (m - 1) .. Len(x)
  PROVE  /\ SubSeq(x, m, n) \in Sym /\ Len(SubSeq(x, m, n)) = n - m + 1
         /\ \A i \in 1 .. n - m + 1 : SubSeq(x, m, n)[i] = x[m + i - 1]
<1>1. Len(x) \in Nat /\ \A i \in m .. n : x[i] \in Symbols
  BY DEF Sym
<1>2. m \in Int /\ n \in Int
  BY <1>1
<1>3. /\ SubSeq(x, m, n) \in Seq(Symbols)
      /\ Len(SubSeq(x, m, n)) = IF m <= n THEN n - m + 1 ELSE 0
      /\ \A i \in 1 .. n - m + 1 : SubSeq(x, m, n)[i] = x[m + i - 1]
  BY <1>1, <1>2, SubSeqProperties
<1>4. m <= n \/ n - m + 1 = 0
  BY <1>1
<1> QED
  BY <1>3, <1>4 DEF Sym

LEMMA SubTextAny ==
  ASSUME NEW x \in Sym, NEW m \in 1 .. Len(x), NEW n \in 1 .. Len(x)
  PROVE  SubSeq(x, m, n) \in Sym
<1>1. Len(x) \in Nat /\ \A i \in m .. n : x[i] \in Symbols
  BY DEF Sym
<1>2. m \in Int /\ n \in Int
  BY <1>1
<1>3. SubSeq(x, m, n) \in Seq(Symbols)
  BY <1>1, <1>2, SubSeqProperties
<1> QED
  BY <1>3 DEF Sym

\* strstr() finds the text where it begins first, if it is there.
LEMMA FoundIsThere ==
  ASSUME NEW text \in Sym, NEW old \in Sym, NEW new \in Sym, NEW k \in Found(text, old)
  PROVE  Replaced(text, old, new,
                SubSeq(text, 1, k - 1) \o new \o SubSeq(text, k + Len(old), Len(text)))
<1>1. /\ Len(text) \in Nat /\ Len(old) \in Nat /\ k \in 1 .. (Len(text) - Len(old) + 1)
      /\ SubSeq(text, k, k + Len(old) - 1) = old
  BY DEF Sym, Found
<1>2. /\ k - 1 \in (1 - 1) .. Len(text) /\ (k - 1) + 1 = k
      /\ 1 \in 1 .. (Len(text) + 1) /\ k \in 1 .. (Len(text) + 1)
      /\ k + Len(old) - 1 \in (k - 1) .. Len(text)
      /\ Len(text) \in (k - 1) .. Len(text)
      /\ Len(text) \in (k + Len(old) - 1) .. Len(text)
      /\ (k + Len(old) - 1) + 1 = k + Len(old)
  BY <1>1
<1>a. k + Len(old) \in 1 .. Len(text) + 1 /\ Len(text) \in ((k + Len(old)) - 1) .. Len(text)
      /\ 1 \in 1 .. Len(text) + 1
  BY <1>1
<1>b. SubSeq(text, 1, k - 1) \in Sym /\ SubSeq(text, k + Len(old), Len(text)) \in Sym
  BY <1>2, <1>a, SubText
<1> PICK p \in Sym : p = SubSeq(text, 1, k - 1)
  BY <1>b
<1> PICK s \in Sym : s = SubSeq(text, k + Len(old), Len(text))
  BY <1>b
<1>3. SubSeq(text, 1, Len(text)) = text
  BY SubSeqFull DEF Sym
<1>4. SubSeq(text, 1, k - 1) \o SubSeq(text, (k - 1) + 1, Len(text)) = SubSeq(text, 1, Len(text))
  BY <1>2, ConcatAdjacentSubSeq DEF Sym
<1>5. SubSeq(text, k, k + Len(old) - 1) \o SubSeq(text, (k + Len(old) - 1) + 1, Len(text))
        = SubSeq(text, k, Len(text))
  BY <1>2, ConcatAdjacentSubSeq DEF Sym
<1>6. text = p \bullet (old \bullet s)
  BY <1>1, <1>2, <1>3, <1>4, <1>5, Zenon DEF \bullet
<1>7. (p \bullet new) \bullet s = p \bullet (new \bullet s)
  BY ConcatAssoc
<1>8. (p \o new) \o s = p \bullet (new \bullet s)
  BY <1>7, Zenon DEF \bullet
<1>9. Replaced(text, old, new, (p \o new) \o s)
  BY <1>6, <1>8 DEF Replaced
<1> QED
  BY <1>9

LEMMA FoundAreNumbers ==
  ASSUME NEW text \in Sym, NEW old \in Sym
  PROVE  Found(text, old) \subseteq Nat
<1>1. Len(text) \in Nat /\ Len(old) \in Nat
  BY DEF Sym
<1> PICK n \in Int : n = Len(text) - Len(old) + 1
  BY <1>1
<1>2. \A k \in Found(text, old) : k \in 1 .. n
  BY DEF Found
<1> QED
  BY <1>2

LEMMA NotFoundIsNotThere ==
  ASSUME NEW text \in Sym, NEW old \in Sym, Found(text, old) = {}
  PROVE  ~Has(text, old)
<1> SUFFICES ASSUME NEW p \in Sym, NEW s \in Sym, text = p \bullet (old \bullet s)
             PROVE  FALSE
  BY DEF Has
<1>1. /\ Length(p) \in Nat /\ Length(old) \in Nat /\ Length(s) \in Nat
      /\ Length(text) = Length(p) + (Length(old) + Length(s)) /\ old \bullet s \in Sym
  BY Concat
<1>2. PICK k \in Nat : k = Length(p) + 1
  BY <1>1
<1>3. /\ Len(text) = Length(text) /\ Len(old) = Length(old)
      /\ k \in 1 .. (Len(text) - Len(old) + 1)
      /\ k + Len(old) - 1 \in (k - 1) .. Len(text)
  BY <1>1, <1>2 DEF Length
<1>4. /\ SubSeq(text, k, k + Len(old) - 1) \in Sym
      /\ Len(SubSeq(text, k, k + Len(old) - 1)) = Len(old)
      /\ \A n \in 1 .. Len(old) : SubSeq(text, k, k + Len(old) - 1)[n] = text[k + n - 1]
  <2>1. /\ k \in 1 .. Len(text) + 1 /\ (k + Len(old) - 1) - k + 1 = Len(old)
        /\ k + Len(old) - 1 \in (k - 1) .. Len(text)
    <3>1. /\ Len(text) \in Nat /\ Len(old) \in Nat /\ k \in 1 .. (Len(text) - Len(old) + 1)
          /\ k + Len(old) - 1 \in (k - 1) .. Len(text)
      BY <1>1, <1>2, <1>3
    <3> QED
      BY ONLY <3>1
  <2> QED
    BY <2>1, SubText
<1> PICK f \in Sym : f = SubSeq(text, k, k + Len(old) - 1)
  BY <1>4
<1>5. ASSUME NEW n \in Indices(f) PROVE Nth(f, n) = Nth(old, n)
  <2>1. n \in Indices(old) /\ n \in 1 .. Len(old)
    BY <1>4, <1>5 DEF Indices
  <2>2. Nth(old \bullet s, n) = Nth(old, n) /\ n \in Indices(old \bullet s)
    BY <2>1, ConcatLeft
  <2>3. Nth(text, Past(p, n)) = Nth(old, n)
    BY <1>1, <2>2, ConcatRight
  <2>4. Past(p, n) = k + n - 1
    BY <1>1, <1>2, <2>1 DEF Past, Length
  <2>5. Nth(f, n) = Nth(text, k + n - 1)
    BY <1>4, <2>1 DEF Nth
  <2> QED
    BY <2>3, <2>4, <2>5
<1>6. f = old
  BY <1>4, <1>5, SameSymbols DEF Length
<1>7. k \in Found(text, old)
  BY <1>3, <1>6 DEF Found
<1> QED
  BY <1>7

-----------------------------------------------------------------------------
(* extract_email() prints an address or nothing.                           *)

\* One @ and, behind it, a dot.
HasAt(y) ==
  \E k \in DOMAIN y :
    /\ y[k] = "@"
    /\ \A j \in DOMAIN y : j # k => y[j] # "@"
    /\ \E j \in k .. Len(y) : y[j] = "."

LEMMA MatchIsAddress ==
  ASSUME NEW x \in Sym, Matches(x)
  PROVE  x # <<>> /\ HasAt(x)
<1>1. Len(x) \in Nat /\ DOMAIN x = 1 .. Len(x)
  BY DEF Sym
<1> PICK at \in 1 .. Len(x), dot \in 1 .. Len(x) :
           /\ x[at] = "@" /\ x[dot] = "." /\ at < dot
           /\ IsLocal(SubSeq(x, 1, at - 1))
           /\ IsDomain(SubSeq(x, at + 1, dot - 1))
           /\ IsTop(SubSeq(x, dot + 1, Len(x)))
  BY <1>1 DEF Matches
<1>2. "@" \in Others
  BY Zenon DEF Others
<1>3. ASSUME NEW j \in 1 .. Len(x), j # at PROVE x[j] # "@"
  <2>1. CASE j < at
    <3>1. 1 \in 1 .. Len(x) + 1 /\ at - 1 \in (1 - 1) .. Len(x) /\ j \in 1 .. (at - 1) - 1 + 1
          /\ 1 + j - 1 = j
      BY <1>1, <2>1
    <3> PICK y \in Sym : /\ y = SubSeq(x, 1, at - 1) /\ Len(y) = (at - 1) - 1 + 1
                         /\ y[j] = x[j]
      BY <3>1, SubText
    <3>2. DOMAIN y = 1 .. Len(y)
      BY DEF Sym
    <3>3. x[j] \in ToSet(y)
      BY <3>1, <3>2 DEF ToSet
    <3> QED
      BY <1>2, <3>3 DEF IsLocal
  <2>2. CASE at < j /\ j < dot
    <3>1. /\ at + 1 \in 1 .. Len(x) + 1 /\ dot - 1 \in ((at + 1) - 1) .. Len(x)
          /\ j - at \in 1 .. (dot - 1) - (at + 1) + 1 /\ (at + 1) + (j - at) - 1 = j
      BY <1>1, <2>2
    <3> PICK y \in Sym : /\ y = SubSeq(x, at + 1, dot - 1)
                         /\ Len(y) = (dot - 1) - (at + 1) + 1 /\ y[j - at] = x[j]
      BY <3>1, SubText
    <3>2. DOMAIN y = 1 .. Len(y)
      BY DEF Sym
    <3>3. x[j] \in ToSet(y)
      BY <3>1, <3>2 DEF ToSet
    <3> QED
      BY <1>2, <3>3 DEF IsDomain
  <2>3. CASE j = dot
    BY <2>3
  <2>4. CASE dot < j
    <3>1. /\ dot + 1 \in 1 .. Len(x) + 1 /\ Len(x) \in ((dot + 1) - 1) .. Len(x)
          /\ j - dot \in 1 .. Len(x) - (dot + 1) + 1 /\ (dot + 1) + (j - dot) - 1 = j
      BY <1>1, <2>4
    <3> PICK y \in Sym : /\ y = SubSeq(x, dot + 1, Len(x))
                         /\ Len(y) = Len(x) - (dot + 1) + 1 /\ y[j - dot] = x[j]
      BY <3>1, SubText
    <3>2. DOMAIN y = 1 .. Len(y)
      BY DEF Sym
    <3>3. x[j] \in ToSet(y)
      BY <3>1, <3>2 DEF ToSet
    <3> QED
      BY <1>2, <3>3 DEF IsTop, IsDomain
  <2> QED
    BY <1>3, <2>1, <2>2, <2>3, <2>4
<1>4. dot \in at .. Len(x)
  OBVIOUS
<1>5. x # <<>>
  <2>1. Len(x) # 0
    BY <1>1
  <2> QED
    BY <2>1
<1>6. HasAt(x)
  BY <1>1, <1>3, <1>4 DEF HasAt
<1> QED
  BY <1>5, <1>6

Addresses(x, y) == y # <<>> => HasAt(y) /\ Found(x, y) # {}

LEMMA MatchWithin ==
  ASSUME NEW x \in Sym, NEW f \in 1 .. Len(x), NEW l \in 1 .. Len(x), NEW y \in Sym,
         y = SubSeq(x, f, l), Matches(y)
  PROVE  Addresses(x, y)
<1>1. Len(x) \in Nat /\ f \in Int /\ l \in Int
  BY DEF Sym
<1>2. y # <<>> /\ HasAt(y)
  BY MatchIsAddress
<1>3. f <= l
  <2> SUFFICES ASSUME l < f PROVE FALSE
    BY <1>1
  <2>1. SubSeq(x, f, l) = <<>>
    BY <1>1, SubSeqEmpty
  <2> QED
    BY <1>2, <2>1
<1>4. f \in 1 .. Len(x) + 1 /\ l \in (f - 1) .. Len(x)
  BY <1>1, <1>3
<1>5. Len(y) = l - f + 1
  BY <1>4, SubText
<1>6. f + Len(y) - 1 = l /\ f \in 1 .. (Len(x) - Len(y) + 1)
  <2>1. Len(x) \in Nat /\ f \in 1 .. Len(x) /\ l \in 1 .. Len(x) /\ f <= l
        /\ Len(y) = l - f + 1
    BY <1>1, <1>3, <1>5
  <2> QED
    BY ONLY <2>1
<1>7. Found(x, y) # {}
  BY <1>6 DEF Found
<1> QED
  BY <1>2, <1>7 DEF Addresses

\* The leftmost match, the longest of those, is one.
LEMMA ChosenIsIn ==
  ASSUME NEW N \in Nat, NEW P, P \subseteq (1 .. N) \X (1 .. N), P # {}
  PROVE  \E f, l \in 1 .. N :
           /\ f = Min({k[1] : k \in P}) /\ l = Max({k[2] : k \in {m \in P : m[1] = f}})
           /\ <<f, l>> \in P
<1>1. \A k \in P : k[1] \in 1 .. N /\ k[2] \in 1 .. N /\ k = <<k[1], k[2]>>
  OBVIOUS
<1> PICK S : S = {k[1] : k \in P}
  OBVIOUS
<1>2. S \subseteq Nat /\ S # {}
  BY <1>1
<1> PICK f : f = Min(S)
  OBVIOUS
<1>3. f \in S
  BY <1>2, MinIn
<1> PICK a \in P : a[1] = f
  BY <1>3
<1> PICK T : T = {k[2] : k \in {m \in P : m[1] = f}}
  OBVIOUS
<1>4. T \subseteq 0 .. N
  BY <1>1
<1>5. a[2] \in T
  OBVIOUS
<1> PICK l : l = Max(T)
  OBVIOUS
<1>6. l \in T
  BY <1>4, <1>5, MaxIn
<1> PICK b \in P : b[1] = f /\ b[2] = l
  BY <1>6
<1>7. f \in 1 .. N /\ l \in 1 .. N /\ <<f, l>> \in P
  BY <1>1
<1> QED
  BY <1>7

\* The parts of a text that match, and the one that is chosen.
Fitting(x) == {k \in (DOMAIN x) \X (DOMAIN x) : Matches(SubSeq(x, k[1], k[2]))}
Extracted(x, found) ==
  IF found = {} THEN <<>>
  ELSE SubSeq(x, Min({k[1] : k \in found}),
              Max({k[2] : k \in {m \in found : m[1] = Min({k[1] : k \in found})}}))

LEMMA ExtractedIsAddress ==
  ASSUME NEW x \in Sym, NEW y, y = Extracted(x, Fitting(x))
  PROVE  y \in Sym /\ Addresses(x, y)
<1>1. Len(x) \in Nat /\ DOMAIN x = 1 .. Len(x)
  BY DEF Sym
<1> PICK found : found = Fitting(x)
  OBVIOUS
<1>2. CASE found = {}
  BY <1>2, NoSymbols DEF Addresses, Extracted
<1>3. CASE found # {}
  <2>1. found \subseteq (1 .. Len(x)) \X (1 .. Len(x))
    BY <1>1 DEF Fitting
  <2> PICK f, l \in 1 .. Len(x) :
             /\ f = Min({k[1] : k \in found})
             /\ l = Max({k[2] : k \in {m \in found : m[1] = f}})
             /\ <<f, l>> \in found
    BY <1>1, <1>3, <2>1, ChosenIsIn
  <2>2. y = SubSeq(x, f, l)
    BY <1>3 DEF Extracted
  <2>3. Matches(SubSeq(x, f, l))
    <3>1. \A k \in found : Matches(SubSeq(x, k[1], k[2]))
      BY DEF Fitting
    <3> QED
      BY ONLY <3>1, <<f, l>> \in found
  <2>4. SubSeq(x, f, l) \in Sym
    BY SubTextAny
  <2> QED
    BY <2>2, <2>3, <2>4, MatchWithin
<1> QED
  BY <1>2, <1>3

LEMMA Prepended ==
  ASSUME NEW w \in Symbols, NEW x \in Sym
  PROVE  /\ <<w>> \bullet x \in Sym /\ Length(<<w>> \bullet x) = Length(x) + 1
         /\ Nth(<<w>> \bullet x, 1) = w
         /\ \A n \in 1 .. Length(x) : Nth(<<w>> \bullet x, n + 1) = Nth(x, n)
<1> PICK v \in Sym : v = <<w>> /\ Length(v) = 1 /\ 1 \in Indices(v) /\ Nth(v, 1) = w
  BY OneSymbol
<1>1. v \bullet x \in Sym /\ Length(v \bullet x) = 1 + Length(x) /\ Length(x) \in Nat
  BY Concat
<1>2. Nth(v \bullet x, 1) = w
  BY ConcatLeft
<1>3. ASSUME NEW n \in 1 .. Length(x) PROVE Nth(v \bullet x, n + 1) = Nth(x, n)
  <2>1. n \in Indices(x) /\ Past(v, n) = n + 1
    BY DEF Indices, Past, Length
  <2> QED
    BY <2>1, ConcatRight
<1> QED
  BY <1>1, <1>2, <1>3

LEMMA TheAddressIs ==
  /\ TheAddress \in Sym /\ Len(TheAddress) = 9
  /\ TheAddress[1] = "ann"
  /\ TheAddress[2] = Low
  /\ TheAddress[3] = "lee"
  /\ TheAddress[4] = "."
  /\ TheAddress[5] = "x"
  /\ TheAddress[6] = "@"
  /\ TheAddress[7] = "yahoo"
  /\ TheAddress[8] = "."
  /\ TheAddress[9] = "com"
<1> PICK n \in Sym : n = <<>> /\ Length(n) = 0
  BY NoSymbols
<1> PICK t9 \in Sym : /\ t9 = <<"com">> \bullet n /\ Length(t9) = 1
                      /\ Nth(t9, 1) = "com"
  <2>1. "com" \in Symbols
    BY TheLetters
  <2> QED
    BY <2>1, Prepended
<1> PICK t8 \in Sym : /\ t8 = <<".">> \bullet t9 /\ Length(t8) = 2
                      /\ Nth(t8, 1) = "." /\ Nth(t8, 2) = "com"
  <2>1. "." \in Symbols
    BY TheLetters
  <2>2. 1 \in 1 .. Length(t9)
    OBVIOUS
  <2>3. /\ <<".">> \bullet t9 \in Sym /\ Length(<<".">> \bullet t9) = 1 + 1
        /\ Nth(<<".">> \bullet t9, 1) = "."
        /\ Nth(<<".">> \bullet t9, 1 + 1) = Nth(t9, 1)
    BY <2>1, <2>2, Prepended
  <2> QED
    BY <2>3
<1> PICK t7 \in Sym : /\ t7 = <<"yahoo">> \bullet t8 /\ Length(t7) = 3
                      /\ Nth(t7, 1) = "yahoo" /\ Nth(t7, 2) = "." /\ Nth(t7, 3) = "com"
  <2>1. "yahoo" \in Symbols
    BY TheLetters
  <2>2. 1 \in 1 .. Length(t8) /\ 2 \in 1 .. Length(t8)
    OBVIOUS
  <2>3. /\ <<"yahoo">> \bullet t8 \in Sym /\ Length(<<"yahoo">> \bullet t8) = 2 + 1
        /\ Nth(<<"yahoo">> \bullet t8, 1) = "yahoo"
        /\ Nth(<<"yahoo">> \bullet t8, 1 + 1) = Nth(t8, 1)
        /\ Nth(<<"yahoo">> \bullet t8, 2 + 1) = Nth(t8, 2)
    BY <2>1, <2>2, Prepended
  <2> QED
    BY <2>3
<1> PICK t6 \in Sym : /\ t6 = <<"@">> \bullet t7 /\ Length(t6) = 4
                      /\ Nth(t6, 1) = "@" /\ Nth(t6, 2) = "yahoo" /\ Nth(t6, 3) = "."
                      /\ Nth(t6, 4) = "com"
  <2>1. "@" \in Symbols
    BY TheLetters
  <2>2. 1 \in 1 .. Length(t7) /\ 2 \in 1 .. Length(t7) /\ 3 \in 1 .. Length(t7)
    OBVIOUS
  <2>3. /\ <<"@">> \bullet t7 \in Sym /\ Length(<<"@">> \bullet t7) = 3 + 1
        /\ Nth(<<"@">> \bullet t7, 1) = "@"
        /\ Nth(<<"@">> \bullet t7, 1 + 1) = Nth(t7, 1)
        /\ Nth(<<"@">> \bullet t7, 2 + 1) = Nth(t7, 2)
        /\ Nth(<<"@">> \bullet t7, 3 + 1) = Nth(t7, 3)
    BY <2>1, <2>2, Prepended
  <2> QED
    BY <2>3
<1> PICK t5 \in Sym : /\ t5 = <<"x">> \bullet t6 /\ Length(t5) = 5
                      /\ Nth(t5, 1) = "x" /\ Nth(t5, 2) = "@" /\ Nth(t5, 3) = "yahoo"
                      /\ Nth(t5, 4) = "." /\ Nth(t5, 5) = "com"
  <2>1. "x" \in Symbols
    BY TheLetters
  <2>2. 1 \in 1 .. Length(t6) /\ 2 \in 1 .. Length(t6) /\ 3 \in 1 .. Length(t6) /\ 4 \in 1 .. Length(t6)
    OBVIOUS
  <2>3. /\ <<"x">> \bullet t6 \in Sym /\ Length(<<"x">> \bullet t6) = 4 + 1
        /\ Nth(<<"x">> \bullet t6, 1) = "x"
        /\ Nth(<<"x">> \bullet t6, 1 + 1) = Nth(t6, 1)
        /\ Nth(<<"x">> \bullet t6, 2 + 1) = Nth(t6, 2)
        /\ Nth(<<"x">> \bullet t6, 3 + 1) = Nth(t6, 3)
        /\ Nth(<<"x">> \bullet t6, 4 + 1) = Nth(t6, 4)
    BY <2>1, <2>2, Prepended
  <2> QED
    BY <2>3
<1> PICK t4 \in Sym : /\ t4 = <<".">> \bullet t5 /\ Length(t4) = 6
                      /\ Nth(t4, 1) = "." /\ Nth(t4, 2) = "x" /\ Nth(t4, 3) = "@"
                      /\ Nth(t4, 4) = "yahoo" /\ Nth(t4, 5) = "." /\ Nth(t4, 6) = "com"
  <2>1. "." \in Symbols
    BY TheLetters
  <2>2. /\ 1 \in 1 .. Length(t5) /\ 2 \in 1 .. Length(t5) /\ 3 \in 1 .. Length(t5)
        /\ 4 \in 1 .. Length(t5) /\ 5 \in 1 .. Length(t5)
    OBVIOUS
  <2>3. /\ <<".">> \bullet t5 \in Sym /\ Length(<<".">> \bullet t5) = 5 + 1
        /\ Nth(<<".">> \bullet t5, 1) = "."
        /\ Nth(<<".">> \bullet t5, 1 + 1) = Nth(t5, 1)
        /\ Nth(<<".">> \bullet t5, 2 + 1) = Nth(t5, 2)
        /\ Nth(<<".">> \bullet t5, 3 + 1) = Nth(t5, 3)
        /\ Nth(<<".">> \bullet t5, 4 + 1) = Nth(t5, 4)
        /\ Nth(<<".">> \bullet t5, 5 + 1) = Nth(t5, 5)
    BY <2>1, <2>2, Prepended
  <2> QED
    BY <2>3
<1> PICK t3 \in Sym : /\ t3 = <<"lee">> \bullet t4 /\ Length(t3) = 7
                      /\ Nth(t3, 1) = "lee" /\ Nth(t3, 2) = "." /\ Nth(t3, 3) = "x"
                      /\ Nth(t3, 4) = "@" /\ Nth(t3, 5) = "yahoo" /\ Nth(t3, 6) = "."
                      /\ Nth(t3, 7) = "com"
  <2>1. "lee" \in Symbols
    BY TheLetters
  <2>2. /\ 1 \in 1 .. Length(t4) /\ 2 \in 1 .. Length(t4) /\ 3 \in 1 .. Length(t4)
        /\ 4 \in 1 .. Length(t4) /\ 5 \in 1 .. Length(t4) /\ 6 \in 1 .. Length(t4)
    OBVIOUS
  <2>3. /\ <<"lee">> \bullet t4 \in Sym /\ Length(<<"lee">> \bullet t4) = 6 + 1
        /\ Nth(<<"lee">> \bullet t4, 1) = "lee"
        /\ Nth(<<"lee">> \bullet t4, 1 + 1) = Nth(t4, 1)
        /\ Nth(<<"lee">> \bullet t4, 2 + 1) = Nth(t4, 2)
        /\ Nth(<<"lee">> \bullet t4, 3 + 1) = Nth(t4, 3)
        /\ Nth(<<"lee">> \bullet t4, 4 + 1) = Nth(t4, 4)
        /\ Nth(<<"lee">> \bullet t4, 5 + 1) = Nth(t4, 5)
        /\ Nth(<<"lee">> \bullet t4, 6 + 1) = Nth(t4, 6)
    BY <2>1, <2>2, Prepended
  <2> QED
    BY <2>3
<1> PICK t2 \in Sym : /\ t2 = <<Low>> \bullet t3 /\ Length(t2) = 8
                      /\ Nth(t2, 1) = Low /\ Nth(t2, 2) = "lee" /\ Nth(t2, 3) = "."
                      /\ Nth(t2, 4) = "x" /\ Nth(t2, 5) = "@" /\ Nth(t2, 6) = "yahoo"
                      /\ Nth(t2, 7) = "." /\ Nth(t2, 8) = "com"
  <2>1. Low \in Symbols
    BY TheLetters
  <2>2. /\ 1 \in 1 .. Length(t3) /\ 2 \in 1 .. Length(t3) /\ 3 \in 1 .. Length(t3)
        /\ 4 \in 1 .. Length(t3) /\ 5 \in 1 .. Length(t3) /\ 6 \in 1 .. Length(t3)
        /\ 7 \in 1 .. Length(t3)
    OBVIOUS
  <2>3. /\ <<Low>> \bullet t3 \in Sym /\ Length(<<Low>> \bullet t3) = 7 + 1
        /\ Nth(<<Low>> \bullet t3, 1) = Low
        /\ Nth(<<Low>> \bullet t3, 1 + 1) = Nth(t3, 1)
        /\ Nth(<<Low>> \bullet t3, 2 + 1) = Nth(t3, 2)
        /\ Nth(<<Low>> \bullet t3, 3 + 1) = Nth(t3, 3)
        /\ Nth(<<Low>> \bullet t3, 4 + 1) = Nth(t3, 4)
        /\ Nth(<<Low>> \bullet t3, 5 + 1) = Nth(t3, 5)
        /\ Nth(<<Low>> \bullet t3, 6 + 1) = Nth(t3, 6)
        /\ Nth(<<Low>> \bullet t3, 7 + 1) = Nth(t3, 7)
    BY <2>1, <2>2, Prepended
  <2> QED
    BY <2>3
<1> PICK t1 \in Sym : /\ t1 = <<"ann">> \bullet t2 /\ Length(t1) = 9
                      /\ Nth(t1, 1) = "ann" /\ Nth(t1, 2) = Low /\ Nth(t1, 3) = "lee"
                      /\ Nth(t1, 4) = "." /\ Nth(t1, 5) = "x" /\ Nth(t1, 6) = "@"
                      /\ Nth(t1, 7) = "yahoo" /\ Nth(t1, 8) = "." /\ Nth(t1, 9) = "com"
  <2>1. "ann" \in Symbols
    BY TheLetters
  <2>2. /\ 1 \in 1 .. Length(t2) /\ 2 \in 1 .. Length(t2) /\ 3 \in 1 .. Length(t2)
        /\ 4 \in 1 .. Length(t2) /\ 5 \in 1 .. Length(t2) /\ 6 \in 1 .. Length(t2)
        /\ 7 \in 1 .. Length(t2) /\ 8 \in 1 .. Length(t2)
    OBVIOUS
  <2>3. /\ <<"ann">> \bullet t2 \in Sym /\ Length(<<"ann">> \bullet t2) = 8 + 1
        /\ Nth(<<"ann">> \bullet t2, 1) = "ann"
        /\ Nth(<<"ann">> \bullet t2, 1 + 1) = Nth(t2, 1)
        /\ Nth(<<"ann">> \bullet t2, 2 + 1) = Nth(t2, 2)
        /\ Nth(<<"ann">> \bullet t2, 3 + 1) = Nth(t2, 3)
        /\ Nth(<<"ann">> \bullet t2, 4 + 1) = Nth(t2, 4)
        /\ Nth(<<"ann">> \bullet t2, 5 + 1) = Nth(t2, 5)
        /\ Nth(<<"ann">> \bullet t2, 6 + 1) = Nth(t2, 6)
        /\ Nth(<<"ann">> \bullet t2, 7 + 1) = Nth(t2, 7)
        /\ Nth(<<"ann">> \bullet t2, 8 + 1) = Nth(t2, 8)
    BY <2>1, <2>2, Prepended
  <2> QED
    BY <2>3
<1>1. n \bullet t1 = t1
  BY NoSymbols
<1>2. TheAddress = t1
  <2>1. Join(One("."), "com", <<>>) = t8
    BY DEF Join, One
  <2>2. Join(One("@"), "yahoo", t8) = t6
    BY DEF Join, One
  <2>3. Join(One("."), "x", t6) = t4
    BY DEF Join, One
  <2>4. Join(One(Low), "lee", t4) = t2
    BY DEF Join, One
  <2>5. Join(<<>>, "ann", t2) = t1
    BY <1>1 DEF Join
  <2> QED
    BY <2>1, <2>2, <2>3, <2>4, <2>5 DEF TheAddress, Whole
<1>3. /\ Len(t1) = 9 /\ t1[1] = "ann" /\ t1[2] = Low /\ t1[3] = "lee" /\ t1[4] = "."
      /\ t1[5] = "x" /\ t1[6] = "@" /\ t1[7] = "yahoo" /\ t1[8] = "." /\ t1[9] = "com"
  BY DEF Length, Nth
<1> QED
  BY <1>2, <1>3

LEMMA PartHasNone ==
  ASSUME NEW x \in Sym, NEW m \in 1 .. Len(x), NEW n \in m .. Len(x), NEW S,
         \A i \in m .. n : x[i] \notin S
  PROVE  SubSeq(x, m, n) # <<>> /\ ToSet(SubSeq(x, m, n)) \cap S = {}
<1>1. m \in 1 .. Len(x) + 1 /\ n \in (m - 1) .. Len(x) /\ n - m + 1 \in Nat \ {0}
      /\ \A i \in 1 .. n - m + 1 : m + i - 1 \in m .. n
  BY DEF Sym
<1> PICK y \in Sym : /\ y = SubSeq(x, m, n) /\ Len(y) = n - m + 1
                     /\ \A i \in 1 .. n - m + 1 : y[i] = x[m + i - 1]
  BY <1>1, SubText
<1>2. DOMAIN y = 1 .. Len(y)
  BY DEF Sym
<1>3. \A i \in DOMAIN y : y[i] \notin S
  BY <1>1, <1>2
<1>4. ToSet(y) \cap S = {}
  BY <1>3 DEF ToSet
<1>5. y # <<>>
  BY <1>1
<1> QED
  BY <1>4, <1>5

LEMMA OthersAre ==
  /\ "ann" \notin Others /\ Low \notin Others /\ "lee" \notin Others /\ "." \notin Others
  /\ "x" \notin Others /\ "yahoo" \notin Others /\ "com" \notin Others
  /\ "yahoo" # "_" /\ "com" # "_"
  /\ "com" \notin Digit /\ "com" # "." /\ "com" # "-"
  BY Zenon DEF Others, Low, Digit

LEMMA TheAddressMatches == Matches(TheAddress)
<1> PICK x \in Sym : /\ x = TheAddress /\ Len(x) = 9
                     /\ x[1] = "ann"
                     /\ x[2] = Low
                     /\ x[3] = "lee"
                     /\ x[4] = "."
                     /\ x[5] = "x"
                     /\ x[6] = "@"
                     /\ x[7] = "yahoo"
                     /\ x[8] = "."
                     /\ x[9] = "com"
  BY TheAddressIs
<1>1. DOMAIN x = 1 .. 9
  BY DEF Sym
<1>2. IsLocal(SubSeq(x, 1, 6 - 1))
  <2> PICK m \in Nat, n \in Nat : m = 1 /\ n = 6 - 1
    OBVIOUS
  <2>1. m \in 1 .. Len(x) /\ n \in m .. Len(x)
    OBVIOUS
  <2>2. \A i \in m .. n : i = 1 \/ i = 2 \/ i = 3 \/ i = 4 \/ i = 5
    OBVIOUS
  <2>3. \A i \in m .. n : x[i] \notin Others
    BY <2>2, OthersAre
  <2>4. SubSeq(x, m, n) # <<>> /\ ToSet(SubSeq(x, m, n)) \cap Others = {}
    BY <2>1, <2>3, PartHasNone
  <2> QED
    BY <2>4 DEF IsLocal
<1>3. IsDomain(SubSeq(x, 6 + 1, 8 - 1))
  <2> PICK m \in Nat, n \in Nat : m = 6 + 1 /\ n = 8 - 1
    OBVIOUS
  <2>1. m \in 1 .. Len(x) /\ n \in m .. Len(x)
    OBVIOUS
  <2>3. \A i \in m .. n : i = 7
    BY ONLY m = 6 + 1, n = 8 - 1
  <2>2. "yahoo" \notin Others \cup {"_"}
    BY OthersAre, Zenon
  <2> PICK S : S = Others \cup {"_"}
    BY Zenon
  <2>4. "yahoo" \notin S
    BY <2>2, Zenon
  <2>5. \A i \in m .. n : x[i] \notin S
    BY ONLY <2>3, <2>4, x[7] = "yahoo"
  <2>6. SubSeq(x, m, n) # <<>> /\ ToSet(SubSeq(x, m, n)) \cap S = {}
    BY ONLY <2>1, <2>5, PartHasNone, x \in Sym
  <2> QED
    BY <2>6, Zenon DEF IsDomain
<1>4. IsTop(SubSeq(x, 8 + 1, Len(x)))
  <2> PICK m \in Nat, n \in Nat : m = 8 + 1 /\ n = Len(x)
    OBVIOUS
  <2>1. m \in 1 .. Len(x) /\ n \in m .. Len(x)
    OBVIOUS
  <2>3. \A i \in m .. n : i = 9
    BY ONLY m = 8 + 1, n = Len(x), Len(x) = 9
  <2>2. "com" \notin Others \cup {"_"} /\ "com" \notin Digit \cup {".", "-"}
    BY OthersAre, Zenon
  <2> PICK S, T : S = Others \cup {"_"} /\ T = Digit \cup {".", "-"}
    BY Zenon
  <2>4. "com" \notin S /\ "com" \notin T
    BY <2>2, Zenon
  <2>5. \A i \in m .. n : x[i] \notin S /\ x[i] \notin T
    BY ONLY <2>3, <2>4, x[9] = "com"
  <2>6. /\ SubSeq(x, m, n) # <<>> /\ ToSet(SubSeq(x, m, n)) \cap S = {}
        /\ ToSet(SubSeq(x, m, n)) \cap T = {}
    BY ONLY <2>1, <2>5, PartHasNone, x \in Sym
  <2> QED
    BY <2>6, Zenon DEF IsDomain, IsTop
<1>5. 6 \in DOMAIN x /\ 8 \in DOMAIN x /\ x[6] = "@" /\ x[8] = "." /\ 6 < 8
  BY <1>1
<1> QED
  BY <1>2, <1>3, <1>4, <1>5 DEF Matches

LEMMA TheAddressIsFound ==
  ASSUME NEW x, x = TheAddress, NEW y, y = Extracted(x, Fitting(x))
  PROVE  y = TheAddress
<1> PICK found : found = Fitting(x)
  OBVIOUS
<1>1. x \in Sym /\ Len(x) = 9 /\ DOMAIN x = 1 .. 9
  BY TheAddressIs DEF Sym
<1>2. SubSeq(x, 1, 9) = x
  BY <1>1, SubSeqFull DEF Sym
<1>3. <<1, 9>> \in found
  <2>1. Matches(SubSeq(x, 1, 9)) /\ 1 \in DOMAIN x /\ 9 \in DOMAIN x
    <3>1. Matches(x)
      BY ONLY x = TheAddress, TheAddressMatches
    <3>2. Matches(SubSeq(x, 1, 9))
      BY ONLY <3>1, <1>2, Zenon
    <3> QED
      BY ONLY <3>2, <1>1
  <2>2. \A a, b \in DOMAIN x : Matches(SubSeq(x, a, b)) => <<a, b>> \in found
    <3> SUFFICES ASSUME NEW a \in DOMAIN x, NEW b \in DOMAIN x, Matches(SubSeq(x, a, b))
                 PROVE  <<a, b>> \in found
      OBVIOUS
    <3>1. <<a, b>> \in (DOMAIN x) \X (DOMAIN x) /\ <<a, b>>[1] = a /\ <<a, b>>[2] = b
      OBVIOUS
    <3>2. Matches(SubSeq(x, <<a, b>>[1], <<a, b>>[2]))
      BY ONLY <3>1, Matches(SubSeq(x, a, b))
    <3> QED
      BY <3>1, <3>2, Zenon DEF Fitting
  <2> QED
    BY ONLY <2>1, <2>2
<1>4. \A k \in found : k[1] \in 1 .. 9 /\ k[2] \in 1 .. 9
  BY <1>1 DEF Fitting
<1>5. /\ {k[1] : k \in found} \subseteq Int /\ 1 \in {k[1] : k \in found}
      /\ \A v \in {k[1] : k \in found} : 1 <= v
  BY <1>3, <1>4
<1>6. Min({k[1] : k \in found}) = 1
  BY <1>5, MinIs
<1> PICK T : T = {k[2] : k \in {m \in found : m[1] = 1}}
  OBVIOUS
<1>7. T \subseteq Int /\ 9 \in T /\ \A v \in T : 9 >= v
  BY <1>3, <1>4
<1>8. Max(T) = 9
  BY <1>7, MaxIs
<1>9. y = SubSeq(x, 1, 9)
  BY <1>3, <1>6, <1>8 DEF Extracted
<1> QED
  BY <1>2, <1>9

LEMMA AddressIs == Address = TheAddress
<1> DEFINE t == <<"ann", Low, "lee", ".", "x", "@", "yahoo", ".", "com">>
<1>1. t \in Seq(Symbols)
  BY TheLetters
<1>2. /\ Len(t) = 9 /\ t[1] = "ann" /\ t[2] = Low /\ t[3] = "lee" /\ t[4] = "."
      /\ t[5] = "x" /\ t[6] = "@" /\ t[7] = "yahoo" /\ t[8] = "." /\ t[9] = "com"
  OBVIOUS
<1>3. Address = t
  BY Zenon DEF Address, Low
<1> HIDE DEF t
<1>4. \A i \in 1 .. 9 : \/ i = 1 \/ i = 2 \/ i = 3 \/ i = 4 \/ i = 5 \/ i = 6
                        \/ i = 7 \/ i = 8 \/ i = 9
  OBVIOUS
<1>5. \A i \in 1 .. Len(t) : t[i] = TheAddress[i]
  BY <1>2, <1>4, TheAddressIs
<1>6. TheAddress \in Seq(Symbols) /\ Len(TheAddress) = Len(t)
  BY <1>2, TheAddressIs DEF Sym
<1>7. t = TheAddress
  BY <1>1, <1>5, <1>6, SeqEqual
<1> QED
  BY <1>3, <1>7

-----------------------------------------------------------------------------
(* clean_content().                                                        *)

LEMMA HeadIs ==
  ASSUME NEW w \in Symbols, NEW x \in Sym
  PROVE  /\ <<w>> \bullet x # <<>> /\ Head(<<w>> \bullet x) = w
         /\ Tail(<<w>> \bullet x) = x
         /\ \A S : StartsWith(<<w>> \bullet x, S) <=> w \in S
<1> PICK y \in Sym : /\ y = <<w>> \bullet x /\ Length(y) = Length(x) + 1 /\ Nth(y, 1) = w
                     /\ \A n \in 1 .. Length(x) : Nth(y, n + 1) = Nth(x, n)
  BY Prepended
<1>1. Length(x) \in Nat
  BY Concat
<1>2. y # <<>>
  BY <1>1, NoSymbols
<1>3. Head(y) = w
  BY <1>2 DEF Nth, Sym
<1>4. Tail(y) \in Sym /\ Length(Tail(y)) = Length(x)
  BY <1>1, <1>2 DEF Length, Sym
<1>5. \A n \in 1 .. Len(Tail(y)) : Tail(y)[n] = y[n + 1]
  BY <1>2 DEF Sym
<1> PICK t \in Sym : t = Tail(y)
  BY <1>4
<1>6. \A n \in Indices(t) : Nth(t, n) = Nth(x, n)
  BY <1>4, <1>5 DEF Nth, Indices, Length
<1>7. t = x
  BY <1>4, <1>6, SameSymbols
<1>8. \A S : StartsWith(y, S) <=> w \in S
  BY <1>2, <1>3, Zenon DEF StartsWith
<1> QED
  BY <1>2, <1>3, <1>7, <1>8

LEMMA PartIs ==
  ASSUME NEW x \in Sym, NEW m \in Nat, NEW n \in Nat, NEW c \in Nat,
         1 <= m, n <= Len(x), m + c = n + 1
  PROVE  /\ SubSeq(x, m, n) \in Sym /\ Len(SubSeq(x, m, n)) = c
         /\ \A k \in 1 .. c : SubSeq(x, m, n)[k] = x[m + k - 1]
<1>1. Len(x) \in Nat /\ \A i \in m .. n : x[i] \in Symbols
  BY DEF Sym
<1>2. m \in Int /\ n \in Int
  OBVIOUS
<1>3. /\ SubSeq(x, m, n) \in Seq(Symbols)
      /\ Len(SubSeq(x, m, n)) = IF m <= n THEN n - m + 1 ELSE 0
      /\ \A i \in 1 .. n - m + 1 : SubSeq(x, m, n)[i] = x[m + i - 1]
  BY <1>1, <1>2, SubSeqProperties
<1>4. n - m + 1 = c /\ (m <= n \/ c = 0)
  OBVIOUS
<1> QED
  BY <1>3, <1>4 DEF Sym

LEMMA RestIs ==
  ASSUME NEW a \in Sym, NEW b \in Sym
  PROVE  SubSeq(a \bullet b, Length(a) + 1, Len(a \bullet b)) = b
<1> PICK x \in Sym : x = a \bullet b
  BY Concat
<1> PICK i \in Nat, j \in Nat : i = Length(a) /\ j = Length(b)
  BY Concat
<1>1. Len(x) = i + j
  BY Concat DEF Length
<1> PICK m \in Nat, n \in Nat : m = i + 1 /\ n = i + j
  OBVIOUS
<1>2. 1 <= m /\ n <= n /\ m + j = n + 1
  OBVIOUS
<1>3. n = Len(x) /\ n <= Len(x)
  BY <1>1
<1>4. /\ SubSeq(x, m, n) \in Sym /\ Len(SubSeq(x, m, n)) = j
      /\ \A k \in 1 .. j : SubSeq(x, m, n)[k] = x[m + k - 1]
  BY ONLY <1>2, <1>3, n <= Len(x), x \in Sym, m \in Nat, n \in Nat, j \in Nat, PartIs
<1> PICK y \in Sym : y = SubSeq(x, m, n) /\ Len(y) = j /\ \A k \in 1 .. j : y[k] = x[m + k - 1]
  BY <1>4
<1>5. \A k \in Indices(y) : Nth(y, k) = Nth(b, k)
  <2> SUFFICES ASSUME NEW k \in Indices(y) PROVE Nth(y, k) = Nth(b, k)
    OBVIOUS
  <2>1. k \in Indices(b) /\ k \in 1 .. j
    BY DEF Indices, Length
  <2>2. Nth(x, Past(a, k)) = Nth(b, k)
    BY <2>1, ConcatRight
  <2>3. Past(a, k) = i + k /\ m + k - 1 = i + k
    BY <2>1 DEF Past, Length
  <2> QED
    BY <2>1, <2>2, <2>3 DEF Nth
<1>6. Length(y) = Length(b)
  BY DEF Length
<1>7. y = b
  BY <1>5, <1>6, SameSymbols
<1> QED
  BY <1>3, <1>7

\* What is skipped is what stands before the first symbol of another kind.
LEMMA SkipTo ==
  ASSUME NEW p \in Sym, NEW t \in Sym, NEW S,
         \A n \in Indices(p) : Nth(p, n) \in S,
         1 \in Indices(t), Nth(t, 1) \notin S
  PROVE  Skip(p \bullet t, S) = t
<1> PICK x \in Sym : x = p \bullet t
  BY Concat
<1>1. /\ Length(p) \in Nat /\ Length(t) \in Nat /\ 1 <= Length(t) /\ Len(x) = Length(p) + Length(t)
  BY Concat DEF Indices, Length
<1> PICK m \in Nat : m = Length(p) + 1
  BY <1>1
<1>2. DOMAIN x = 1 .. Len(x) /\ m \in DOMAIN x
  BY <1>1 DEF Sym
<1>3. x[m] \notin S
  <2>1. Nth(x, Past(p, 1)) = Nth(t, 1) /\ Past(p, 1) = m
    BY ConcatRight DEF Past, Length
  <2> QED
    BY <2>1 DEF Nth
<1>4. \A j \in 1 .. Length(p) : x[j] \in S
  <2> SUFFICES ASSUME NEW j \in 1 .. Length(p) PROVE x[j] \in S
    OBVIOUS
  <2>1. j \in Indices(p)
    BY DEF Indices, Length
  <2>2. Nth(x, j) = Nth(p, j)
    BY <2>1, ConcatLeft
  <2> QED
    BY <2>1, <2>2 DEF Nth
<1> PICK kept : kept = {k \in DOMAIN x : \E j \in 1 .. k : x[j] \notin S}
  OBVIOUS
<1>5. m \in kept
  BY <1>2, <1>3
<1>6. \A k \in kept : m <= k
  <2> SUFFICES ASSUME NEW k \in kept PROVE m <= k
    OBVIOUS
  <2> PICK j \in 1 .. k : x[j] \notin S
    OBVIOUS
  <2>1. k \in Nat /\ j \in Nat /\ j <= k /\ 1 <= j
    BY <1>2
  <2>2. ~(j <= Length(p))
    BY <1>4, <2>1
  <2> QED
    BY <1>1, <2>1, <2>2
<1>7. kept \subseteq Int
  BY <1>2
<1>8. Min(kept) = m
  BY <1>5, <1>6, <1>7, MinIs
<1>9. Skip(x, S) = SubSeq(x, m, Len(x))
  BY <1>5, <1>8, Zenon DEF Skip
<1>10. SubSeq(x, m, Len(x)) = t
  BY RestIs
<1> QED
  BY <1>9, <1>10

LEMMA SkipIsText ==
  ASSUME NEW x \in Sym, NEW S
  PROVE  Skip(x, S) \in Sym
<1> PICK kept : kept = {k \in DOMAIN x : \E j \in 1 .. k : x[j] \notin S}
  OBVIOUS
<1>1. Len(x) \in Nat /\ DOMAIN x = 1 .. Len(x)
  BY DEF Sym
<1>2. kept \subseteq Nat /\ \A k \in kept : k \in 1 .. Len(x)
  BY <1>1
<1>3. CASE kept = {}
  <2>1. Skip(x, S) = <<>>
    BY <1>3, Zenon DEF Skip
  <2> QED
    BY <2>1, NoSymbols
<1>4. CASE kept # {}
  <2>1. Skip(x, S) = SubSeq(x, Min(kept), Len(x))
    BY <1>4, Zenon DEF Skip
  <2>2. Min(kept) \in kept
    BY <1>2, <1>4, MinIn
  <2> PICK m \in 1 .. Len(x) : m = Min(kept)
    BY <1>2, <2>2
  <2>3. Len(x) \in 1 .. Len(x)
    BY <1>1
  <2>4. SubSeq(x, m, Len(x)) \in Sym
    BY <2>3, SubTextAny
  <2> QED
    BY <2>1, <2>4
<1> QED
  BY <1>3, <1>4

\* clean_content() in its steps.
Unnumbered(t1, t2) ==
  IF StartsWith(t1, Digit) /\ StartsWith(t2, {".", ")"}) THEN Tail(t2) ELSE t2
Unlabelled(t) ==
  IF \E label \in Labels : IsPrefix(label, t) THEN SubSeq(t, 3, Len(t)) ELSE t

LEMMA CleanIs ==
  \A text :
    clean_content(text) =
      Skip(Unlabelled(Unnumbered(Skip(text, {Blank}), Skip(Skip(text, {Blank}), Digit))),
           {"-", ":", Blank})
  BY Zenon DEF clean_content, Unnumbered, Unlabelled, Blank

LEMMA CleanSteps ==
  ASSUME NEW text, NEW t1, NEW t2, NEW t3, NEW t4, NEW y,
         t1 = Skip(text, {Blank}), t2 = Skip(t1, Digit), t3 = Unnumbered(t1, t2),
         t4 = Unlabelled(t3), y = Skip(t4, {"-", ":", Blank})
  PROVE  clean_content(text) = y
  BY CleanIs, Zenon

LEMMA NotUnlabelled ==
  ASSUME NEW t \in Sym, 1 \in Indices(t), Nth(t, 1) # "Email", Nth(t, 1) # "ID"
  PROVE  Unlabelled(t) = t
<1>1. ASSUME NEW label \in Labels, IsPrefix(label, t) PROVE FALSE
  <2>1. label = <<"Email", ":">> \/ label = <<"ID", ":">>
    BY DEF Labels
  <2>2. label \in Sym /\ Len(label) = 2 /\ (label[1] = "Email" \/ label[1] = "ID")
    <3>1. "Email" \in Symbols /\ "ID" \in Symbols /\ ":" \in Symbols
      BY TheLetters
    <3>2. CASE label = <<"Email", ":">>
      BY ONLY <3>1, <3>2 DEF Sym
    <3>3. CASE label = <<"ID", ":">>
      BY ONLY <3>1, <3>3 DEF Sym
    <3> QED
      BY <2>1, <3>2, <3>3
  <2>3. 2 <= Len(t) /\ SubSeq(label, 1, 2) = SubSeq(t, 1, 2) /\ Len(t) \in Nat
    BY <1>1, <2>2 DEF IsPrefix, Sym
  <2>4. SubSeq(label, 1, 2)[1] = label[1]
    BY <2>2 DEF Sym
  <2>5. SubSeq(t, 1, 2)[1] = t[1]
    BY <2>3 DEF Sym
  <2> QED
    BY <2>2, <2>3, <2>4, <2>5 DEF Nth
<1> QED
  BY <1>1, Zenon DEF Unlabelled

LEMMA TwoIs == \A a, b \in Symbols : Two(a, b) = <<a>> \bullet <<b>>
<1> SUFFICES ASSUME NEW a \in Symbols, NEW b \in Symbols
             PROVE  Two(a, b) = <<a>> \bullet <<b>>
  OBVIOUS
<1> PICK p \in Sym : p = <<a>> /\ Length(p) = 1 /\ 1 \in Indices(p) /\ Nth(p, 1) = a
  BY OneSymbol
<1> PICK q \in Sym : q = <<b>> /\ Length(q) = 1 /\ 1 \in Indices(q) /\ Nth(q, 1) = b
  BY OneSymbol
<1> PICK u \in Sym : u = p \bullet q
  BY Concat
<1>1. Past(p, 1) = 2
  BY DEF Past, Length
<1>2. Length(u) = 2 /\ Nth(u, 1) = a /\ Nth(u, 2) = b
  BY <1>1, Concat, ConcatLeft, ConcatRight
<1> PICK t \in Sym : t = Two(a, b)
  BY ShortTexts
<1>3. Length(t) = 2 /\ Nth(t, 1) = a /\ Nth(t, 2) = b /\ Indices(t) = {1, 2}
  BY DEF Two, Length, Nth, Indices
<1>4. t = u
  BY <1>2, <1>3, SameSymbols
<1> QED
  BY <1>4

LEMMA UnlabelledIs ==
  ASSUME NEW x \in Sym, NEW a \in Symbols, NEW b \in Symbols, <<a, b>> \in Labels,
         NEW t, t = <<a>> \bullet (<<b>> \bullet x)
  PROVE  Unlabelled(t) = x
<1> PICK p \in Sym : p = <<a>> /\ Length(p) = 1
  BY OneSymbol
<1> PICK q \in Sym : q = <<b>> /\ Length(q) = 1
  BY OneSymbol
<1> PICK l \in Sym : l = p \bullet q /\ Length(l) = 2
  BY Concat
<1>1. t \in Sym /\ t = l \bullet x /\ Length(x) \in Nat /\ Length(t) = 2 + Length(x)
  <2>1. (p \bullet q) \bullet x = p \bullet (q \bullet x)
    BY ConcatAssoc
  <2> QED
    BY <2>1, Concat
<1>2. l = <<a, b>>
  BY TwoIs DEF Two
<1>3. IsPrefix(l, t)
  <2>1. Len(l) = 2 /\ Len(t) = 2 + Length(x) /\ Length(x) \in Nat
    BY <1>1 DEF Length
  <2>2. 1 \in 1 .. Len(l) /\ Len(l) \in 1 .. Len(l) /\ Len(l) <= Len(t)
    BY ONLY <2>1
  <2>3. SubSeq(l \o x, 1, Len(l)) = SubSeq(l, 1, Len(l))
    BY <2>2, SubSeqOfConcat1 DEF Sym
  <2>4. t = l \o x
    BY <1>1, Zenon DEF \bullet
  <2> QED
    BY <2>2, <2>3, <2>4, Zenon DEF IsPrefix
<1>4. Unlabelled(t) = SubSeq(t, 3, Len(t))
  BY <1>2, <1>3, Zenon DEF Unlabelled
<1>5. SubSeq(t, Length(l) + 1, Len(t)) = x
  <2>1. SubSeq(l \bullet x, Length(l) + 1, Len(l \bullet x)) = x
    BY RestIs
  <2> QED
    BY <1>1, <2>1, Zenon
<1>6. Length(l) + 1 = 3
  OBVIOUS
<1> QED
  BY <1>4, <1>5, <1>6

LEMMA LabelsAre == <<"Email", ":">> \in Labels /\ <<"ID", ":">> \in Labels
  BY Zenon DEF Labels

LEMMA FourInParts ==
  \A a, b, c, d \in Symbols : Four(a, b, c, d) = <<a>> \bullet Three(b, c, d)
  BY DEF Four, Three, \bullet

LEMMA FiveInTwo ==
  ASSUME NEW a \in Symbols, NEW b \in Symbols, NEW c \in Symbols, NEW d \in Symbols,
         NEW e \in Symbols
  PROVE  Five(a, b, c, d, e) = <<a>> \bullet (<<b>> \bullet Three(c, d, e))
<1> PICK u \in Sym : u = <<a>>
  BY OneSymbol
<1>1. Five(a, b, c, d, e) = u \bullet (<<b>> \bullet Three(c, d, e))
  BY FiveInParts DEF Join, One
<1> QED
  BY <1>1

\* A text that some symbols stand before.
LEMMA Led ==
  ASSUME NEW x \in Sym
  PROVE  /\ \A a, b \in Symbols : Two(a, b) \bullet x = <<a>> \bullet (<<b>> \bullet x)
         /\ \A a, b, c \in Symbols :
              Three(a, b, c) \bullet x = <<a>> \bullet (<<b>> \bullet (<<c>> \bullet x))
<1>1. ASSUME NEW a \in Symbols, NEW b \in Symbols
      PROVE  Two(a, b) \bullet x = <<a>> \bullet (<<b>> \bullet x)
  <2> PICK p \in Sym : p = <<a>>
    BY OneSymbol
  <2> PICK q \in Sym : q = <<b>>
    BY OneSymbol
  <2>1. Two(a, b) = p \bullet q
    BY TwoIs
  <2>2. (p \bullet q) \bullet x = p \bullet (q \bullet x)
    BY ConcatAssoc
  <2> QED
    BY <2>1, <2>2
<1>2. ASSUME NEW a \in Symbols, NEW b \in Symbols, NEW c \in Symbols
      PROVE  Three(a, b, c) \bullet x = <<a>> \bullet (<<b>> \bullet (<<c>> \bullet x))
  <2> PICK p \in Sym : p = <<a>>
    BY OneSymbol
  <2> PICK q \in Sym : q = <<b>>
    BY OneSymbol
  <2> PICK r \in Sym : r = <<c>>
    BY OneSymbol
  <2>1. Three(a, b, c) = p \bullet (q \bullet r)
    BY ThreeIs DEF Bracketed, One
  <2>2. q \bullet r \in Sym /\ r \bullet x \in Sym
    BY Concat
  <2>3. (p \bullet (q \bullet r)) \bullet x = p \bullet ((q \bullet r) \bullet x)
    BY <2>2, ConcatAssoc
  <2>4. (q \bullet r) \bullet x = q \bullet (r \bullet x)
    BY ConcatAssoc
  <2> QED
    BY <2>1, <2>3, <2>4
<1> QED
  BY <1>1, <1>2

LEMMA LedByMore ==
  ASSUME NEW x \in Sym
  PROVE  /\ \A a, b, c, d \in Symbols :
              Four(a, b, c, d) \bullet x
                = <<a>> \bullet (<<b>> \bullet (<<c>> \bullet (<<d>> \bullet x)))
         /\ \A a, b, c, d, e \in Symbols :
              Five(a, b, c, d, e) \bullet x
                = <<a>> \bullet (<<b>> \bullet (<<c>> \bullet (<<d>> \bullet (<<e>> \bullet x))))
<1>1. ASSUME NEW a \in Symbols, NEW b \in Symbols, NEW c \in Symbols, NEW d \in Symbols
      PROVE  Four(a, b, c, d) \bullet x
               = <<a>> \bullet (<<b>> \bullet (<<c>> \bullet (<<d>> \bullet x)))
  <2> PICK p \in Sym : p = <<a>>
    BY OneSymbol
  <2> PICK t \in Sym : t = Three(b, c, d)
    BY ShortTexts
  <2>1. Four(a, b, c, d) = p \bullet t
    BY FourInParts
  <2>2. (p \bullet t) \bullet x = p \bullet (t \bullet x)
    BY ConcatAssoc
  <2>3. t \bullet x = <<b>> \bullet (<<c>> \bullet (<<d>> \bullet x))
    BY Led
  <2> QED
    BY <2>1, <2>2, <2>3
<1>2. ASSUME NEW a \in Symbols, NEW b \in Symbols, NEW c \in Symbols, NEW d \in Symbols,
             NEW e \in Symbols
      PROVE  Five(a, b, c, d, e) \bullet x
               = <<a>> \bullet (<<b>> \bullet (<<c>> \bullet (<<d>> \bullet (<<e>> \bullet x))))
  <2> PICK p \in Sym : p = <<a>>
    BY OneSymbol
  <2> PICK q \in Sym : q = <<b>>
    BY OneSymbol
  <2> PICK t \in Sym : t = Three(c, d, e)
    BY ShortTexts
  <2>0. q \bullet t \in Sym
    BY Concat
  <2>1. Five(a, b, c, d, e) = p \bullet (q \bullet t)
    BY FiveInTwo
  <2>2. (p \bullet (q \bullet t)) \bullet x = p \bullet ((q \bullet t) \bullet x)
    BY <2>0, ConcatAssoc
  <2>3. (q \bullet t) \bullet x = q \bullet (t \bullet x)
    BY ConcatAssoc
  <2>4. t \bullet x = <<c>> \bullet (<<d>> \bullet (<<e>> \bullet x))
    BY Led
  <2> QED
    BY <2>1, <2>2, <2>3, <2>4
<1> QED
  BY <1>1, <1>2

\* Skipping goes symbol by symbol.
LEMMA SkipNone ==
  ASSUME NEW x \in Sym, NEW S, 1 \in Indices(x), Nth(x, 1) \notin S
  PROVE  Skip(x, S) = x
<1> PICK n \in Sym : n = <<>> /\ Length(n) = 0
  BY NoSymbols
<1>1. \A k \in Indices(n) : Nth(n, k) \in S
  BY DEF Indices, Length
<1>2. n \bullet x = x
  BY NoSymbols
<1>3. Skip(n \bullet x, S) = x
  BY <1>1, SkipTo
<1> QED
  BY <1>2, <1>3

LEMMA SkipOne ==
  ASSUME NEW w \in Symbols, NEW x \in Sym, NEW S, w \in S, 1 \in Indices(x), Nth(x, 1) \notin S
  PROVE  Skip(<<w>> \bullet x, S) = x
<1> PICK p \in Sym : p = <<w>> /\ Length(p) = 1 /\ Nth(p, 1) = w
  BY OneSymbol
<1>1. \A k \in Indices(p) : Nth(p, k) \in S
  BY DEF Indices, Length
<1>2. Skip(p \bullet x, S) = x
  BY <1>1, SkipTo
<1> QED
  BY <1>2

LEMMA LedIsText ==
  ASSUME NEW w \in Symbols, NEW x \in Sym
  PROVE  /\ <<w>> \bullet x \in Sym /\ 1 \in Indices(<<w>> \bullet x)
         /\ Nth(<<w>> \bullet x, 1) = w
<1>1. Length(x) \in Nat
  BY Concat
<1> QED
  BY <1>1, Prepended DEF Indices, Length

LEMMA DigitsAre ==
  /\ "7" \in Digit /\ "10" \in Digit /\ "." \notin Digit /\ "ann" \notin Digit
  /\ "ID" \notin Digit /\ "Email" \notin Digit /\ Blank \notin Digit
  BY Zenon DEF Digit, Blank

\* The headings go.
LEMMA CleanLine ==
  ASSUME NEW x \in Sym, 1 \in Indices(x), Nth(x, 1) = "ann", NEW heading \in Headings
  PROVE  clean_content(heading \o x) = x
<1> PICK B, E : B = {Blank} /\ E = {"-", ":", Blank}
  OBVIOUS
<1>1. "ann" \notin B /\ "ann" \notin E /\ "ann" \notin Digit
  BY DigitsAre, OtherThanThese
<1>2. Skip(x, B) = x /\ Skip(x, Digit) = x /\ Skip(x, E) = x /\ Unlabelled(x) = x
  BY <1>1, SkipNone, NotUnlabelled
<1>3. \A t1, t2, t3, t4, y :
        /\ t1 = Skip(heading \o x, B) /\ t2 = Skip(t1, Digit) /\ t3 = Unnumbered(t1, t2)
        /\ t4 = Unlabelled(t3) /\ y = Skip(t4, E)
        => clean_content(heading \o x) = y
  BY CleanSteps
<1>4. CASE heading = <<>>
  <2>1. heading \o x = x
    BY <1>4, NoSymbols, Zenon DEF \bullet
  <2>2. ~StartsWith(x, Digit)
    <3>1. x # <<>> => Head(x) = Nth(x, 1)
      BY DEF Sym, Nth
    <3> QED
      BY <1>1, <3>1, Zenon DEF StartsWith
  <2>3. Unnumbered(x, x) = x
    BY <2>2, Zenon DEF Unnumbered
  <2> QED
    BY <1>2, <1>3, <2>1, <2>3
<1>5. CASE heading = <<" ", "7", ".", " ">>
  <2> PICK x1 \in Sym : x1 = <<Blank>> \bullet x /\ 1 \in Indices(x1) /\ Nth(x1, 1) = Blank
    BY LedIsText, TheLetters
  <2> PICK x2 \in Sym : x2 = <<".">> \bullet x1 /\ 1 \in Indices(x2) /\ Nth(x2, 1) = "."
    BY LedIsText, TheLetters
  <2> PICK x3 \in Sym : x3 = <<"7">> \bullet x2 /\ 1 \in Indices(x3) /\ Nth(x3, 1) = "7"
    BY LedIsText, TheLetters
  <2>1. heading \o x = <<Blank>> \bullet x3
    <3>1. heading = Four(Blank, "7", ".", Blank)
      BY <1>5, Zenon DEF Four, Blank
    <3>2. Blank \in Symbols /\ "7" \in Symbols /\ "." \in Symbols
      BY TheLetters
    <3>3. Four(Blank, "7", ".", Blank) \bullet x = <<Blank>> \bullet x3
      BY <3>2, LedByMore
    <3> QED
      BY <3>1, <3>3, Zenon DEF \bullet
  <2>2. Skip(<<Blank>> \bullet x3, B) = x3
    <3>1. "7" \notin B /\ Blank \in B /\ Blank \in Symbols
      BY OtherThanThese, TheLetters
    <3> QED
      BY <3>1, SkipOne
  <2>3. Skip(x3, Digit) = x2
    <3>1. "7" \in Digit /\ "." \notin Digit /\ "7" \in Symbols
      BY DigitsAre, TheLetters
    <3> QED
      BY <3>1, SkipOne
  <2>4. Unnumbered(x3, x2) = x1
    <3>1. "7" \in Digit /\ "." \in {".", ")"} /\ "7" \in Symbols /\ "." \in Symbols
      BY DigitsAre, TheLetters
    <3>a. StartsWith(x3, Digit) <=> "7" \in Digit
      BY <3>1, HeadIs
    <3>b. Tail(x2) = x1 /\ \A S : StartsWith(x2, S) <=> "." \in S
      BY <3>1, HeadIs
    <3>2. StartsWith(x3, Digit) /\ StartsWith(x2, {".", ")"}) /\ Tail(x2) = x1
      BY <3>1, <3>a, <3>b, Zenon
    <3> QED
      BY <3>2, Zenon DEF Unnumbered
  <2>5. Unlabelled(x1) = x1
    BY OtherThanThese, NotUnlabelled
  <2>6. Skip(x1, E) = x
    <3>1. Blank \in E /\ Blank \in Symbols
      BY TheLetters
    <3> QED
      BY <1>1, <3>1, SkipOne
  <2> QED
    BY <1>3, <2>1, <2>2, <2>3, <2>4, <2>5, <2>6
<1>6. CASE heading = <<"10", ".", "Email", ":", "-">>
  <2> PICK x1 \in Sym : x1 = <<"-">> \bullet x /\ 1 \in Indices(x1) /\ Nth(x1, 1) = "-"
    BY LedIsText, TheLetters
  <2> PICK x2 \in Sym : x2 = <<":">> \bullet x1
    BY LedIsText, TheLetters
  <2> PICK x3 \in Sym : x3 = <<"Email">> \bullet x2
    BY LedIsText, TheLetters
  <2> PICK x4 \in Sym : x4 = <<".">> \bullet x3 /\ 1 \in Indices(x4) /\ Nth(x4, 1) = "."
    BY LedIsText, TheLetters
  <2> PICK x5 \in Sym : x5 = <<"10">> \bullet x4 /\ 1 \in Indices(x5) /\ Nth(x5, 1) = "10"
    BY LedIsText, TheLetters
  <2>1. heading \o x = x5
    <3>1. heading = Five("10", ".", "Email", ":", "-")
      BY <1>6, Zenon DEF Five
    <3>2. /\ "10" \in Symbols /\ "." \in Symbols /\ "Email" \in Symbols /\ ":" \in Symbols
          /\ "-" \in Symbols
      BY TheLetters
    <3> PICK a \in Symbols, b \in Symbols, c \in Symbols, d \in Symbols, e \in Symbols :
             a = "10" /\ b = "." /\ c = "Email" /\ d = ":" /\ e = "-"
      BY <3>2
    <3>a. Five(a, b, c, d, e) \bullet x
            = <<a>> \bullet (<<b>> \bullet (<<c>> \bullet (<<d>> \bullet (<<e>> \bullet x))))
      BY ONLY x \in Sym, LedByMore
    <3>3. Five("10", ".", "Email", ":", "-") \bullet x = x5
      BY <3>a
    <3> QED
      BY <3>1, <3>3, Zenon DEF \bullet
  <2>2. Skip(x5, B) = x5
    <3>1. "10" \notin B
      BY OtherThanThese
    <3> QED
      BY <3>1, SkipNone
  <2>3. Skip(x5, Digit) = x4
    <3>1. "10" \in Digit /\ "." \notin Digit /\ "10" \in Symbols
      BY DigitsAre, TheLetters
    <3> QED
      BY <3>1, SkipOne
  <2>4. Unnumbered(x5, x4) = x3
    <3>1. "10" \in Digit /\ "." \in {".", ")"} /\ "10" \in Symbols /\ "." \in Symbols
      BY DigitsAre, TheLetters
    <3>a. StartsWith(x5, Digit) <=> "10" \in Digit
      BY <3>1, HeadIs
    <3>b. Tail(x4) = x3 /\ \A S : StartsWith(x4, S) <=> "." \in S
      BY <3>1, HeadIs
    <3>2. StartsWith(x5, Digit) /\ StartsWith(x4, {".", ")"}) /\ Tail(x4) = x3
      BY <3>1, <3>a, <3>b, Zenon
    <3> QED
      BY <3>2, Zenon DEF Unnumbered
  <2>5. Unlabelled(x3) = x1
    <3>1. "Email" \in Symbols /\ ":" \in Symbols /\ <<"Email", ":">> \in Labels
      BY TheLetters, LabelsAre
    <3> QED
      BY <3>1, UnlabelledIs
  <2>6. Skip(x1, E) = x
    <3>1. "-" \in E /\ "-" \in Symbols
      BY TheLetters
    <3> QED
      BY <1>1, <3>1, SkipOne
  <2> QED
    BY <1>3, <2>1, <2>2, <2>3, <2>4, <2>5, <2>6
<1>7. CASE heading = <<"ID", ":">>
  <2> PICK x1 \in Sym : x1 = <<":">> \bullet x
    BY LedIsText, TheLetters
  <2> PICK x2 \in Sym : x2 = <<"ID">> \bullet x1 /\ 1 \in Indices(x2) /\ Nth(x2, 1) = "ID"
    BY LedIsText, TheLetters
  <2>1. heading \o x = x2
    <3>1. heading = Two("ID", ":")
      BY <1>7, Zenon DEF Two
    <3>2. "ID" \in Symbols /\ ":" \in Symbols
      BY TheLetters
    <3>3. Two("ID", ":") \bullet x = x2
      BY <3>2, Led
    <3> QED
      BY <3>1, <3>3, Zenon DEF \bullet
  <2>2. Skip(x2, B) = x2 /\ Skip(x2, Digit) = x2
    <3>1. "ID" \notin B /\ "ID" \notin Digit
      BY OtherThanThese, DigitsAre
    <3> QED
      BY <3>1, SkipNone
  <2>4. Unnumbered(x2, x2) = x2
    <3>1. "ID" \notin Digit /\ "ID" \in Symbols
      BY DigitsAre, TheLetters
    <3>2. ~StartsWith(x2, Digit)
      BY <3>1, HeadIs
    <3> QED
      BY <3>2, Zenon DEF Unnumbered
  <2>5. Unlabelled(x2) = x
    <3>1. "ID" \in Symbols /\ ":" \in Symbols /\ <<"ID", ":">> \in Labels
      BY TheLetters, LabelsAre
    <3> QED
      BY <3>1, UnlabelledIs
  <2> QED
    BY <1>2, <1>3, <2>1, <2>2, <2>4, <2>5
<1> QED
  BY <1>4, <1>5, <1>6, <1>7, Zenon DEF Headings

LEMMA CleanIsText ==
  ASSUME NEW x \in Sym
  PROVE  clean_content(x) \in Sym
<1> PICK B, E : B = {Blank} /\ E = {"-", ":", Blank}
  OBVIOUS
<1> PICK t1 \in Sym : t1 = Skip(x, B)
  BY SkipIsText
<1> PICK t2 \in Sym : t2 = Skip(t1, Digit)
  BY SkipIsText
<1>1. Unnumbered(t1, t2) \in Sym
  <2>1. CASE StartsWith(t1, Digit) /\ StartsWith(t2, {".", ")"})
    <3>1. t2 # <<>>
      BY <2>1, Zenon DEF StartsWith
    <3>2. Tail(t2) \in Sym
      BY <3>1 DEF Sym
    <3> QED
      BY <2>1, <3>2, Zenon DEF Unnumbered
  <2>2. CASE ~(StartsWith(t1, Digit) /\ StartsWith(t2, {".", ")"}))
    BY <2>2, Zenon DEF Unnumbered
  <2> QED
    BY <2>1, <2>2
<1> PICK t3 \in Sym : t3 = Unnumbered(t1, t2)
  BY <1>1
<1>2. Unlabelled(t3) \in Sym
  <2>1. CASE \E label \in Labels : IsPrefix(label, t3)
    <3> PICK label \in Labels : IsPrefix(label, t3)
      BY <2>1
    <3>1. Len(label) = 2
      <4>1. label = <<"Email", ":">> \/ label = <<"ID", ":">>
        BY DEF Labels
      <4> QED
        BY <4>1
    <3>2. 2 <= Len(t3) /\ Len(t3) \in Nat
      BY <3>1 DEF IsPrefix, Sym
    <3> PICK m \in Nat, n \in Nat, c \in Nat : m = 3 /\ n = Len(t3) /\ c = n - 2
      BY <3>2
    <3>3. 1 <= m /\ n <= Len(t3) /\ m + c = n + 1
      BY <3>2
    <3>4. SubSeq(t3, m, n) \in Sym
      BY ONLY <3>3, t3 \in Sym, m \in Nat, n \in Nat, c \in Nat, PartIs
    <3>5. Unlabelled(t3) = SubSeq(t3, 3, Len(t3))
      BY <2>1, Zenon DEF Unlabelled
    <3> QED
      BY <3>4, <3>5
  <2>2. CASE ~ \E label \in Labels : IsPrefix(label, t3)
    <3>1. Unlabelled(t3) = t3
      BY <2>2, Zenon DEF Unlabelled
    <3> QED
      BY <3>1
  <2> QED
    BY <2>1, <2>2
<1> PICK t4 \in Sym : t4 = Unlabelled(t3)
  BY <1>2
<1> PICK y \in Sym : y = Skip(t4, E)
  BY SkipIsText
<1>3. clean_content(x) = y
  BY CleanSteps
<1> QED
  BY <1>3

-----------------------------------------------------------------------------
(* convert_to_lowercase().                                                 *)

LEMMA LowerIs ==
  /\ Lower("AT") = "at" /\ Lower("DOT") = "dot"
  /\ \A w : /\ w # "Email" /\ w # "ID" /\ w # "AT" /\ w # "DOT" => Lower(w) = w
  /\ \A w \in Symbols : Lower(w) \in Symbols
<1>1. Lower("AT") = "at" /\ Lower("DOT") = "dot" /\ Lower("Email") = "email" /\ Lower("ID") = "id"
  BY DEF Lower
<1>2. \A w : /\ w # "Email" /\ w # "ID" /\ w # "AT" /\ w # "DOT" => Lower(w) = w
  BY DEF Lower
<1>3. \A w \in Symbols : Lower(w) \in Symbols
  BY <1>1, <1>2, TheLetters
<1> QED
  BY <1>1, <1>2, <1>3

LEMMA LowText ==
  ASSUME NEW x \in Sym
  PROVE  /\ convert_to_lowercase(x) \in Sym /\ Length(convert_to_lowercase(x)) = Length(x)
         /\ \A n \in Indices(x) : Nth(convert_to_lowercase(x), n) = Lower(Nth(x, n))
<1> PICK n \in Nat : n = Len(x)
  BY DEF Sym
<1>1. DOMAIN x = 1 .. n /\ \A k \in 1 .. n : x[k] \in Symbols
  BY DEF Sym
<1> PICK y : y = convert_to_lowercase(x)
  OBVIOUS
<1>2. y = [k \in 1 .. n |-> Lower(x[k])]
  BY <1>1, Zenon DEF convert_to_lowercase
<1>3. \A k \in 1 .. n : Lower(x[k]) \in Symbols
  BY <1>1, LowerIs
<1>4. y \in Seq(Symbols) /\ Len(y) = n /\ \A k \in 1 .. n : y[k] = Lower(x[k])
  BY <1>2, <1>3, SeqDef
<1> QED
  BY <1>4 DEF Sym, Length, Indices, Nth

LEMMA LowConcat ==
  ASSUME NEW a \in Sym, NEW b \in Sym
  PROVE  convert_to_lowercase(a \bullet b)
           = convert_to_lowercase(a) \bullet convert_to_lowercase(b)
<1> PICK x \in Sym : x = a \bullet b
  BY Concat
<1> PICK y \in Sym : /\ y = convert_to_lowercase(x) /\ Length(y) = Length(x)
                     /\ \A n \in Indices(x) : Nth(y, n) = Lower(Nth(x, n))
  BY LowText
<1> PICK p \in Sym : /\ p = convert_to_lowercase(a) /\ Length(p) = Length(a)
                     /\ \A n \in Indices(a) : Nth(p, n) = Lower(Nth(a, n))
  BY LowText
<1> PICK q \in Sym : /\ q = convert_to_lowercase(b) /\ Length(q) = Length(b)
                     /\ \A n \in Indices(b) : Nth(q, n) = Lower(Nth(b, n))
  BY LowText
<1> PICK z \in Sym : z = p \bullet q
  BY Concat
<1>1. /\ Length(a) \in Nat /\ Length(b) \in Nat /\ Length(x) = Length(a) + Length(b)
      /\ Length(z) = Length(a) + Length(b)
  BY Concat
<1>2. \A n \in Indices(y) : Nth(y, n) = Nth(z, n)
  <2> SUFFICES ASSUME NEW n \in Indices(y) PROVE Nth(y, n) = Nth(z, n)
    OBVIOUS
  <2>1. n \in 1 .. Length(a) + Length(b) /\ n \in Indices(x)
    BY <1>1 DEF Indices, Length
  <2>2. CASE n \in 1 .. Length(a)
    <3>1. n \in Indices(a) /\ n \in Indices(p)
      BY <2>2 DEF Indices, Length
    <3>2. Nth(x, n) = Nth(a, n) /\ Nth(z, n) = Nth(p, n)
      BY <3>1, ConcatLeft
    <3> QED
      BY <2>1, <3>1, <3>2
  <2>3. CASE n \notin 1 .. Length(a)
    <3>1. n - Length(a) \in 1 .. Length(b) /\ Length(a) + (n - Length(a)) = n
      BY <1>1, <2>1, <2>3
    <3> PICK k \in 1 .. Length(b) : Length(a) + k = n
      BY <3>1
    <3>2. k \in Indices(b) /\ k \in Indices(q) /\ Past(a, k) = n /\ Past(p, k) = n
      BY DEF Indices, Length, Past
    <3>3. Nth(x, n) = Nth(b, k) /\ Nth(z, n) = Nth(q, k)
      BY <3>2, ConcatRight
    <3> QED
      BY <2>1, <3>2, <3>3
  <2> QED
    BY <2>2, <2>3
<1>3. y = z
  BY <1>1, <1>2, SameSymbols
<1> QED
  BY <1>3

LEMMA LowKeeps ==
  ASSUME NEW x \in Sym, Without(x, "Email"), Without(x, "ID"), Without(x, "AT"),
         Without(x, "DOT")
  PROVE  convert_to_lowercase(x) = x
<1> PICK y \in Sym : /\ y = convert_to_lowercase(x) /\ Length(y) = Length(x)
                     /\ \A n \in Indices(x) : Nth(y, n) = Lower(Nth(x, n))
  BY LowText
<1>1. \A n \in Indices(x) : Nth(y, n) = Nth(x, n)
  BY LowerIs DEF Without
<1>2. y = x
  BY <1>1, SameSymbols DEF Indices, Length
<1> QED
  BY <1>2

LEMMA LowOne ==
  ASSUME NEW w \in Symbols
  PROVE  convert_to_lowercase(<<w>>) = <<Lower(w)>>
<1> PICK x \in Sym : x = <<w>> /\ Length(x) = 1 /\ 1 \in Indices(x) /\ Nth(x, 1) = w
  BY OneSymbol
<1> PICK v \in Symbols : v = Lower(w)
  BY LowerIs
<1> PICK z \in Sym : z = <<v>> /\ Length(z) = 1 /\ Nth(z, 1) = v
  BY OneSymbol
<1> PICK y \in Sym : /\ y = convert_to_lowercase(x) /\ Length(y) = Length(x)
                     /\ \A n \in Indices(x) : Nth(y, n) = Lower(Nth(x, n))
  BY LowText
<1>1. \A n \in Indices(y) : Nth(y, n) = Nth(z, n)
  <2>1. Indices(y) = {1}
    BY DEF Indices, Length
  <2> QED
    BY <2>1
<1>2. y = z
  BY <1>1, SameSymbols
<1> QED
  BY <1>2

LEMMA LowJoin ==
  ASSUME NEW l \in Sym, NEW r \in Sym, NEW w \in Symbols
  PROVE  convert_to_lowercase(Join(l, w, r))
           = Join(convert_to_lowercase(l), Lower(w), convert_to_lowercase(r))
<1> PICK v \in Sym : v = <<w>>
  BY OneSymbol
<1>1. v \bullet r \in Sym
  BY Concat
<1>2. convert_to_lowercase(l \bullet (v \bullet r))
        = convert_to_lowercase(l) \bullet convert_to_lowercase(v \bullet r)
  BY <1>1, LowConcat
<1>3. convert_to_lowercase(v \bullet r) = convert_to_lowercase(v) \bullet convert_to_lowercase(r)
  BY LowConcat
<1>4. convert_to_lowercase(v) = <<Lower(w)>>
  BY LowOne
<1> QED
  BY <1>2, <1>3, <1>4 DEF Join

LEMMA LowWhole ==
  ASSUME NEW u \in Sym, NEW d \in Sym, NEW a \in Sym, NEW e \in Sym
  PROVE  /\ Whole(u, d, a, e) \in Sym
         /\ convert_to_lowercase(Whole(u, d, a, e))
              = Whole(convert_to_lowercase(u), convert_to_lowercase(d),
                      convert_to_lowercase(a), convert_to_lowercase(e))
<1> PICK n \in Sym : n = <<>> /\ convert_to_lowercase(n) = n
  <2> PICK n \in Sym : n = <<>> /\ Length(n) = 0
    BY NoSymbols
  <2>1. convert_to_lowercase(n) \in Sym /\ Length(convert_to_lowercase(n)) = 0
    BY LowText
  <2>2. convert_to_lowercase(n) = <<>>
    BY <2>1, NoSymbols
  <2> QED
    BY <2>2
<1>1. /\ "ann" \in Symbols /\ "lee" \in Symbols /\ "x" \in Symbols /\ "yahoo" \in Symbols
      /\ "com" \in Symbols
  BY TheLetters
<1>2. /\ Lower("ann") = "ann" /\ Lower("lee") = "lee" /\ Lower("x") = "x"
      /\ Lower("yahoo") = "yahoo" /\ Lower("com") = "com"
  BY LowerIs
<1> PICK x5 \in Sym : /\ x5 = Join(e, "com", n)
                      /\ convert_to_lowercase(x5) = Join(convert_to_lowercase(e), "com", n)
  BY <1>1, <1>2, JoinIsText, LowJoin
<1> PICK x4 \in Sym : /\ x4 = Join(a, "yahoo", x5)
                      /\ convert_to_lowercase(x4)
                           = Join(convert_to_lowercase(a), "yahoo", convert_to_lowercase(x5))
  BY <1>1, <1>2, JoinIsText, LowJoin
<1> PICK x3 \in Sym : /\ x3 = Join(d, "x", x4)
                      /\ convert_to_lowercase(x3)
                           = Join(convert_to_lowercase(d), "x", convert_to_lowercase(x4))
  BY <1>1, <1>2, JoinIsText, LowJoin
<1> PICK x2 \in Sym : /\ x2 = Join(u, "lee", x3)
                      /\ convert_to_lowercase(x2)
                           = Join(convert_to_lowercase(u), "lee", convert_to_lowercase(x3))
  BY <1>1, <1>2, JoinIsText, LowJoin
<1> PICK x1 \in Sym : /\ x1 = Join(n, "ann", x2)
                      /\ convert_to_lowercase(x1) = Join(n, "ann", convert_to_lowercase(x2))
  BY <1>1, <1>2, JoinIsText, LowJoin
<1>3. Whole(u, d, a, e) = x1
  BY DEF Whole
<1> QED
  BY <1>3 DEF Whole

-----------------------------------------------------------------------------
(* The notations, and the forms they are read as.                          *)

Wrapped(s, a, b, c) == s \o <<a, b, c>> \o s
LEMMA WrappedIs ==
  ASSUME NEW s \in {<<>>, <<Blank>>}, NEW a \in Symbols, NEW b \in Symbols, NEW c \in Symbols
  PROVE  Wrapped(s, a, b, c) = Three(a, b, c) \/ Wrapped(s, a, b, c) = Five(Blank, a, b, c, Blank)
<1>0. s \in Sym /\ Blank \in Symbols
  BY NoSymbols, OneSymbol, TheLetters
<1> PICK t \in Sym : t = Three(a, b, c)
  BY ShortTexts
<1>1. Wrapped(s, a, b, c) = (s \bullet t) \bullet s
  BY Zenon DEF \bullet, Three, Wrapped
<1>2. (s \bullet t) \bullet s = s \bullet (t \bullet s)
  BY <1>0, ConcatAssoc
<1>3. CASE s = <<>>
  <2>1. t \bullet s = t /\ s \bullet t = t
    BY <1>3, NoSymbols
  <2> QED
    BY <1>1, <2>1
<1>4. CASE s = <<Blank>>
  BY <1>0, <1>1, <1>2, <1>4, FiveIs DEF Bracketed
<1> QED
  BY <1>3, <1>4

LEMMA InBracketsIs ==
  ASSUME NEW w \in Symbols, NEW x \in InBrackets(w)
  PROVE  \/ x = Three("(", w, ")") \/ x = Five(Blank, "(", w, ")", Blank)
         \/ x = Three("[", w, "]") \/ x = Five(Blank, "[", w, "]", Blank)
<1>1. Margins = {<<>>, <<Blank>>}
  BY Zenon DEF Margins, Blank
<1> PICK s \in {<<>>, <<Blank>>}, b \in {<<"(", ")">>, <<"[", "]">>} :
           x = s \o <<b[1], w, b[2]>> \o s
  BY <1>1 DEF InBrackets
<1> PICK l, r : l = b[1] /\ r = b[2]
  OBVIOUS
<1>2. (l = "(" /\ r = ")") \/ (l = "[" /\ r = "]")
  OBVIOUS
<1>3. l \in Symbols /\ r \in Symbols
  BY <1>2, TheLetters
<1>4. x = Wrapped(s, l, w, r)
  BY DEF Wrapped
<1>5. x = Three(l, w, r) \/ x = Five(Blank, l, w, r, Blank)
  BY <1>3, <1>4, WrappedIs
<1> QED
  BY <1>2, <1>5

LEMMA AtNotationsAre ==
  ASSUME NEW x \in AtNotations
  PROVE  \/ x = One("@")
         \/ x = Three(Blank, "@", Blank)
         \/ x = Three(Blank, "AT", Blank)
         \/ x = Seven(Low, "at", Low, "the", Low, "rate", Low)
         \/ x = Seven("-", "at", "-", "the", "-", "rate", "-")
         \/ x = Seven(Blank, "at", Blank, "the", Blank, "rate", Blank)
         \/ x = Three("(", "at", ")") \/ x = Five(Blank, "(", "at", ")", Blank)
         \/ x = Three("[", "at", "]") \/ x = Five(Blank, "[", "at", "]", Blank)
         \/ x = Five("(", "at", "the", "rate", ")")
         \/ x = Three("at", "the", "rate")
<1>1. \/ x \in InBrackets("at")
      \/ x = One("@")
      \/ x = Three(Blank, "@", Blank)
      \/ x = Three(Blank, "AT", Blank)
      \/ x = Seven(Low, "at", Low, "the", Low, "rate", Low)
      \/ x = Seven("-", "at", "-", "the", "-", "rate", "-")
      \/ x = Seven(Blank, "at", Blank, "the", Blank, "rate", Blank)
      \/ x = Five("(", "at", "the", "rate", ")")
      \/ x = Three("at", "the", "rate")
  BY Zenon DEF AtNotations, One, Three, Five, Seven, Blank, Low
<1>2. CASE x \in InBrackets("at")
  <2> PICK w \in Symbols : w = "at"
    BY TheLetters
  <2> QED
    BY <1>2, InBracketsIs
<1> QED
  BY <1>1, <1>2

LEMMA DotNotationsAre ==
  ASSUME NEW x \in DotNotations
  PROVE  \/ x = One(".")
         \/ x = Three(Blank, "DOT", Blank)
         \/ x = Three(Low, "dot", Low)
         \/ x = Three(Blank, ".", Blank)
         \/ x = Three(Blank, "period", Blank)
         \/ x = Three("(", "period", ")")
         \/ x = Three("(", "dot", ")") \/ x = Five(Blank, "(", "dot", ")", Blank)
         \/ x = Three("[", "dot", "]") \/ x = Five(Blank, "[", "dot", "]", Blank)
<1>1. \/ x \in InBrackets("dot")
      \/ x = One(".")
      \/ x = Three(Blank, "DOT", Blank)
      \/ x = Three(Low, "dot", Low)
      \/ x = Three(Blank, ".", Blank)
      \/ x = Three(Blank, "period", Blank)
      \/ x = Three("(", "period", ")")
  BY Zenon DEF DotNotations, One, Three, Blank, Low
<1>2. CASE x \in InBrackets("dot")
  <2> PICK w \in Symbols : w = "dot"
    BY TheLetters
  <2> QED
    BY <1>2, InBracketsIs
<1> QED
  BY <1>1, <1>2

LEMMA UnderscoreNotationsAre ==
  ASSUME NEW x \in UnderscoreNotations
  PROVE  \/ x = One(Low) \/ x = One("underscore") \/ x = Three(Blank, "underscore", Blank)
  BY Zenon DEF UnderscoreNotations, One, Three, Blank, Low

LEMMA LowThree ==
  ASSUME NEW a \in Symbols, NEW b \in Symbols, NEW c \in Symbols
  PROVE  convert_to_lowercase(Three(a, b, c)) = Three(Lower(a), Lower(b), Lower(c))
<1> PICK x \in Sym : x = Three(a, b, c)
  BY ShortTexts
<1>1. Length(x) = 3 /\ Nth(x, 1) = a /\ Nth(x, 2) = b /\ Nth(x, 3) = c /\ Indices(x) = {1, 2, 3}
  BY ThreeHas
<1>2. Lower(a) \in Symbols /\ Lower(b) \in Symbols /\ Lower(c) \in Symbols
  BY LowerIs
<1> PICK z \in Sym : /\ z = Three(Lower(a), Lower(b), Lower(c)) /\ Length(z) = 3
                     /\ Nth(z, 1) = Lower(a) /\ Nth(z, 2) = Lower(b) /\ Nth(z, 3) = Lower(c)
                     /\ Indices(z) = {1, 2, 3}
  BY <1>2, ShortTexts, ThreeHas
<1> PICK y \in Sym : /\ y = convert_to_lowercase(x) /\ Length(y) = Length(x)
                     /\ \A n \in Indices(x) : Nth(y, n) = Lower(Nth(x, n))
  BY LowText
<1>3. \A n \in Indices(z) : Nth(z, n) = Nth(y, n)
  BY <1>1
<1>4. z = y
  BY <1>1, <1>3, SameSymbols
<1> QED
  BY <1>4

LEMMA DueFirst ==
  \A kind, x : \A d \in 1 .. 27 : Form(kind, x, d) => Due(kind, 1, x)
  BY DEF Due

\* Whichever way a symbol is written, it has a form when the rules begin.
LEMMA LoweredAt ==
  ASSUME NEW x \in AtNotations
  PROVE  x \in Sym /\ Due("at", 1, convert_to_lowercase(x))
<1>1. CASE x = Three(Blank, "AT", Blank)
  <2>1. Blank \in Symbols /\ "AT" \in Symbols
    BY TheLetters
  <2>2. x \in Sym
    BY <1>1, <2>1, ShortTexts
  <2>3. Lower(Blank) = Blank /\ Lower("AT") = "at"
    BY LowerIs, OtherThanThese
  <2>4. convert_to_lowercase(x) = Three(Blank, "at", Blank)
    BY <1>1, <2>1, <2>3, LowThree
  <2>5. AtForm(Three(Blank, "at", Blank), 8)
    BY DEF AtForm
  <2>6. Form("at", convert_to_lowercase(x), 8)
    BY <2>4, <2>5, KindIs
  <2> QED
    BY <2>2, <2>6, DueFirst
<1>2. CASE x # Three(Blank, "AT", Blank)
  <2>1. \E d : AtForm(x, d)
    BY <1>2, AtNotationsAre DEF AtForm
  <2> PICK d : AtForm(x, d)
    BY <2>1
  <2>2. x \in Sym /\ d \in 1 .. 27
    BY AtFacts
  <2>3. Without(x, "Email") /\ Without(x, "ID") /\ Without(x, "AT") /\ Without(x, "DOT")
    BY OtherThanThese, WithoutOne, WithoutTwo, WithoutThree, WithoutFive, WithoutSeven DEF AtForm
  <2>4. convert_to_lowercase(x) = x
    BY <2>2, <2>3, LowKeeps
  <2>5. Form("at", x, d)
    BY KindIs
  <2> QED
    BY <2>2, <2>4, <2>5, DueFirst
<1> QED
  BY <1>1, <1>2

LEMMA LoweredDot ==
  ASSUME NEW x \in DotNotations
  PROVE  x \in Sym /\ Due("dot", 1, convert_to_lowercase(x))
<1>1. CASE x = Three(Blank, "DOT", Blank)
  <2>1. Blank \in Symbols /\ "DOT" \in Symbols
    BY TheLetters
  <2>2. x \in Sym
    BY <1>1, <2>1, ShortTexts
  <2>3. Lower(Blank) = Blank /\ Lower("DOT") = "dot"
    BY LowerIs, OtherThanThese
  <2>4. convert_to_lowercase(x) = Three(Blank, "dot", Blank)
    BY <1>1, <2>1, <2>3, LowThree
  <2>5. DotForm(Three(Blank, "dot", Blank), 11)
    BY DEF DotForm
  <2>6. Form("dot", convert_to_lowercase(x), 11)
    BY <2>4, <2>5, KindIs
  <2> QED
    BY <2>2, <2>6, DueFirst
<1>2. CASE x # Three(Blank, "DOT", Blank)
  <2>1. \E d : DotForm(x, d)
    BY <1>2, DotNotationsAre DEF DotForm
  <2> PICK d : DotForm(x, d)
    BY <2>1
  <2>2. x \in Sym /\ d \in 1 .. 27
    BY DotFacts
  <2>3. Without(x, "Email") /\ Without(x, "ID") /\ Without(x, "AT") /\ Without(x, "DOT")
    BY OtherThanThese, WithoutOne, WithoutTwo, WithoutThree, WithoutFive DEF DotForm
  <2>4. convert_to_lowercase(x) = x
    BY <2>2, <2>3, LowKeeps
  <2>5. Form("dot", x, d)
    BY KindIs
  <2> QED
    BY <2>2, <2>4, <2>5, DueFirst
<1> QED
  BY <1>1, <1>2

LEMMA LoweredUnderscore ==
  ASSUME NEW x \in UnderscoreNotations
  PROVE  x \in Sym /\ Due("underscore", 1, convert_to_lowercase(x))
<1>1. \E d : UnderscoreForm(x, d)
  BY UnderscoreNotationsAre DEF UnderscoreForm
<1> PICK d : UnderscoreForm(x, d)
  BY <1>1
<1>2. x \in Sym /\ d \in 1 .. 27
  BY UnderscoreFacts
<1>3. Without(x, "Email") /\ Without(x, "ID") /\ Without(x, "AT") /\ Without(x, "DOT")
  BY OtherThanThese, WithoutOne, WithoutThree DEF UnderscoreForm
<1>4. convert_to_lowercase(x) = x
  BY <1>2, <1>3, LowKeeps
<1>5. Form("underscore", x, d)
  BY KindIs
<1> QED
  BY <1>2, <1>4, <1>5, DueFirst

-----------------------------------------------------------------------------
(* The e-mail program, step by step.                                       *)

LEMMA MailsAreTexts == Mails \subseteq Sym
<1> SUFFICES ASSUME NEW text \in Mails PROVE text \in Seq(Symbols)
  BY DEF Sym
<1>1. ToSet(text) \subseteq Symbols
  BY DEF Symbols
<1>2. text \in Seq(ToSet(text))
  BY EmailAssumption DEF AreTexts
<1> PICK S : S = ToSet(text)
  OBVIOUS
<1> QED
  BY <1>1, <1>2

LEMMA WrittenIs ==
  ASSUME NEW a \in Sym, NEW d \in Sym, NEW u \in Sym
  PROVE  Written(a, d, u) = Whole(u, d, a, d)
<1> PICK n \in Sym : n = <<>>
  BY NoSymbols
<1> PICK w1 \in Sym : w1 = <<"ann">>
  BY TheLetters, OneSymbol
<1> PICK w2 \in Sym : w2 = <<"lee">>
  BY TheLetters, OneSymbol
<1> PICK w3 \in Sym : w3 = <<"x">>
  BY TheLetters, OneSymbol
<1> PICK w4 \in Sym : w4 = <<"yahoo">>
  BY TheLetters, OneSymbol
<1> PICK w5 \in Sym : w5 = <<"com">>
  BY TheLetters, OneSymbol
<1> PICK p2 \in Sym : p2 = w1 \bullet u
  BY Concat
<1> PICK p3 \in Sym : p3 = p2 \bullet w2
  BY Concat
<1> PICK p4 \in Sym : p4 = p3 \bullet d
  BY Concat
<1> PICK p5 \in Sym : p5 = p4 \bullet w3
  BY Concat
<1> PICK p6 \in Sym : p6 = p5 \bullet a
  BY Concat
<1> PICK p7 \in Sym : p7 = p6 \bullet w4
  BY Concat
<1> PICK p8 \in Sym : p8 = p7 \bullet d
  BY Concat
<1>1. Written(a, d, u) = p8 \bullet w5
  BY Zenon DEF Written, \bullet
<1> PICK s8 \in Sym : s8 = d \bullet w5
  BY Concat
<1> PICK s7 \in Sym : s7 = w4 \bullet s8
  BY Concat
<1> PICK s6 \in Sym : s6 = a \bullet s7
  BY Concat
<1> PICK s5 \in Sym : s5 = w3 \bullet s6
  BY Concat
<1> PICK s4 \in Sym : s4 = d \bullet s5
  BY Concat
<1> PICK s3 \in Sym : s3 = w2 \bullet s4
  BY Concat
<1> PICK s2 \in Sym : s2 = u \bullet s3
  BY Concat
<1>2. p8 \bullet w5 = p7 \bullet s8
  BY ConcatAssoc
<1>3. p7 \bullet s8 = p6 \bullet s7
  BY ConcatAssoc
<1>4. p6 \bullet s7 = p5 \bullet s6
  BY ConcatAssoc
<1>5. p5 \bullet s6 = p4 \bullet s5
  BY ConcatAssoc
<1>6. p4 \bullet s5 = p3 \bullet s4
  BY ConcatAssoc
<1>7. p3 \bullet s4 = p2 \bullet s3
  BY ConcatAssoc
<1>8. p2 \bullet s3 = w1 \bullet s2
  BY ConcatAssoc
<1>9. Whole(u, d, a, d) = w1 \bullet s2
  <2>1. w5 \bullet n = w5 /\ w1 \bullet s2 \in Sym
    BY NoSymbols, Concat
  <2>2. n \bullet (w1 \bullet s2) = w1 \bullet s2
    BY <2>1, NoSymbols
  <2>3. Join(d, "com", n) = s8
    BY <2>1 DEF Join
  <2>4. Join(a, "yahoo", s8) = s6
    BY DEF Join
  <2>5. Join(d, "x", s6) = s4
    BY DEF Join
  <2>6. Join(u, "lee", s4) = s2
    BY DEF Join
  <2>7. Join(n, "ann", s2) = w1 \bullet s2
    BY <2>2 DEF Join
  <2> QED
    BY <2>3, <2>4, <2>5, <2>6, <2>7 DEF Whole
<1> QED
  BY <1>1, <1>2, <1>3, <1>4, <1>5, <1>6, <1>7, <1>8, <1>9

\* A line with the address in some notation.
Notated(x) ==
  \E at \in AtNotations, dot \in DotNotations, underscore \in UnderscoreNotations :
    \E heading \in Headings : x = heading \o Written(at, dot, underscore)

LEMMA LineIsRead ==
  ASSUME NEW x, Notated(x)
  PROVE  Left(1, convert_to_lowercase(clean_content(x)))
<1> PICK at \in AtNotations, dot \in DotNotations, underscore \in UnderscoreNotations,
         heading \in Headings : x = heading \o Written(at, dot, underscore)
  BY DEF Notated
<1> PICK a, d, u : a = at /\ d = dot /\ u = underscore
  OBVIOUS
<1>1. /\ a \in Sym /\ Due("at", 1, convert_to_lowercase(a))
      /\ d \in Sym /\ Due("dot", 1, convert_to_lowercase(d))
      /\ u \in Sym /\ Due("underscore", 1, convert_to_lowercase(u))
  BY LoweredAt, LoweredDot, LoweredUnderscore
<1> PICK y \in Sym : /\ y = Whole(u, d, a, d)
                     /\ convert_to_lowercase(y)
                          = Whole(convert_to_lowercase(u), convert_to_lowercase(d),
                                  convert_to_lowercase(a), convert_to_lowercase(d))
  BY <1>1, LowWhole
<1>2. Written(at, dot, underscore) = y
  BY <1>1, WrittenIs
<1>3. 1 \in Indices(y) /\ Nth(y, 1) = "ann"
  <2>1. "ann" \in Symbols /\ "lee" \in Symbols /\ "x" \in Symbols /\ "yahoo" \in Symbols
        /\ "com" \in Symbols
    BY TheLetters
  <2> PICK n \in Sym : n = <<>>
    BY NoSymbols
  <2> PICK x5 \in Sym : x5 = Join(d, "com", n)
    BY <1>1, <2>1, JoinIsText
  <2> PICK x4 \in Sym : x4 = Join(a, "yahoo", x5)
    BY <1>1, <2>1, JoinIsText
  <2> PICK x3 \in Sym : x3 = Join(d, "x", x4)
    BY <1>1, <2>1, JoinIsText
  <2> PICK x2 \in Sym : x2 = Join(u, "lee", x3)
    BY <1>1, <2>1, JoinIsText
  <2>2. y = Join(n, "ann", x2)
    BY DEF Whole
  <2> PICK w \in Symbols : w = "ann"
    BY <2>1
  <2> PICK z \in Sym : z = <<w>> \bullet x2 /\ 1 \in Indices(z) /\ Nth(z, 1) = w
    BY LedIsText
  <2>3. n \bullet z = z
    BY NoSymbols
  <2>4. y = z
    BY <2>2, <2>3 DEF Join
  <2> QED
    BY <2>4
<1>4. clean_content(heading \o y) = y
  BY <1>3, CleanLine
<1>5. clean_content(x) = y
  BY <1>2, <1>4
<1>6. Left(1, convert_to_lowercase(y))
  BY <1>1 DEF Left
<1> QED
  BY <1>5, <1>6

-----------------------------------------------------------------------------
\* What the rules before this one have left of the address, whichever way it
\* was written.
EmailState ==
  /\ mail \in {"read", "rules", "extracted"}
  /\ rule \in 1 .. 27
  /\ file_content \in Sym
  /\ mail = "rules" /\ Notated(written) => Left(rule, file_content)
  /\ AddressIsExtracted

LEMMA EmailStarts == EmailInit => EmailState
<1>1. EmailInit => <<>> \in Sym
  BY NoSymbols
<1> QED
  BY <1>1, NoSymbols DEF EmailInit, EmailState, AddressIsExtracted, NotationsAreUnderstood,
                         OnlyAddresses

LEMMA NothingExtracted == mail # "extracted" => AddressIsExtracted
  BY DEF AddressIsExtracted, NotationsAreUnderstood, OnlyAddresses
LEMMA NothingExtractedNext == mail' # "extracted" => AddressIsExtracted'
  BY DEF AddressIsExtracted, NotationsAreUnderstood, OnlyAddresses

LEMMA ReadKeeps == EmailState /\ ReadLine => EmailState'
<1> SUFFICES ASSUME EmailState, ReadLine PROVE EmailState'
  OBVIOUS
<1>1. mail' = "rules" /\ rule' = 1 /\ written' \in Mails
      /\ file_content' = convert_to_lowercase(clean_content(written'))
  BY DEF ReadLine
<1> PICK x \in Sym : x = written'
  BY <1>1, MailsAreTexts
<1>2. file_content' \in Sym
  BY <1>1, CleanIsText, LowText
<1>3. Notated(x) => Left(1, file_content')
  BY <1>1, LineIsRead
<1>4. Notated(written)' <=> Notated(x)
  BY DEF Notated
<1>5. Left(rule, file_content)' <=> Left(1, file_content')
  BY <1>1 DEF Left, Due, Form, AtForm, DotForm, UnderscoreForm
<1> QED
  BY <1>1, <1>2, <1>3, <1>4, <1>5, NothingExtractedNext DEF EmailState

LEMMA LeftFollows ==
  ASSUME NEW r, NEW x, rule' = r, file_content' = x, written' = written
  PROVE  /\ Left(rule, file_content)' <=> Left(r, x)
         /\ Notated(written)' <=> Notated(written)
<1>1. Left(rule, file_content)' <=> Left(r, x)
  BY DEF Left, Due, Form, AtForm, DotForm, UnderscoreForm
<1>2. Notated(written)' <=> Notated(written)
  BY DEF Notated
<1> QED
  BY <1>1, <1>2

LEMMA RulesCounted == Len(Rules) = 26
  BY RulesAre

LEMMA ReplaceKeeps == EmailState /\ replace_all => EmailState'
<1> SUFFICES ASSUME EmailState, replace_all PROVE EmailState'
  OBVIOUS
<1>1. /\ mail = "rules" /\ mail' = "rules" /\ written' = written
      /\ rule \in 1 .. 27 /\ rule <= 26 /\ file_content \in Sym
      /\ Notated(written) => Left(rule, file_content)
  BY RulesCounted DEF replace_all, EmailState
<1> PICK r \in 1 .. 26 : r = rule
  BY <1>1
<1> PICK text \in Sym : text = file_content
  BY <1>1
<1> PICK old \in Sym, new \in Sym : old = Rules[r].old /\ new = Rules[r].updated
  BY RuleTexts
<1> PICK found : found = Found(text, old)
  OBVIOUS
<1>2. CASE found # {}
  <2>1. found \subseteq Nat
    BY FoundAreNumbers
  <2>2. Min(found) \in found
    BY <1>2, <2>1, MinIn
  <2> PICK k \in Found(text, old) : k = Min(found)
    BY <2>2
  <2>3. /\ rule' = r
        /\ file_content' = SubSeq(text, 1, k - 1) \o new \o SubSeq(text, k + Len(old), Len(text))
    BY <1>2 DEF replace_all
  <2> PICK y : y = file_content'
    OBVIOUS
  <2>4. Replaced(text, old, new, y)
    BY <2>3, FoundIsThere
  <2>5. y \in Sym
    <3> PICK p \in Sym, s \in Sym : y = p \bullet (new \bullet s)
      BY <2>4 DEF Replaced
    <3>1. new \bullet s \in Sym
      BY Concat
    <3> QED
      BY <3>1, Concat
  <2>6. Notated(written) => Left(r, y)
    <3> SUFFICES ASSUME Notated(written) PROVE Left(r, y)
      OBVIOUS
    <3>1. Left(r, text)
      BY <1>1
    <3>2. CASE r \in 1 .. 25
      BY <2>4, <3>1, <3>2, WholeTurned
    <3>3. CASE r = 26
      <4>1. Has(text, old)
        BY <2>4, TurnedHas
      <4>2. ~Has(text, Rules[26].old)
        BY <3>1, <3>3, WholeInTheEnd
      <4> QED
        BY <3>3, <4>1, <4>2
    <3> QED
      BY <3>2, <3>3
  <2>7. Notated(written)' => Left(rule, file_content)'
    BY <1>1, <2>3, <2>6, LeftFollows
  <2>8. file_content' \in Sym /\ rule' \in 1 .. 27
    BY <2>3, <2>5
  <2> QED
    BY <1>1, <2>7, <2>8, NothingExtractedNext DEF EmailState
<1>3. CASE found = {}
  <2>1. rule' = r + 1 /\ file_content' = text
    BY <1>3 DEF replace_all
  <2>2. ~Has(text, old)
    BY <1>3, NotFoundIsNotThere
  <2> PICK n \in 1 .. 27 : n = r + 1
    OBVIOUS
  <2>3. Notated(written) => Left(n, text)
    <3> SUFFICES ASSUME Notated(written) PROVE Left(n, text)
      OBVIOUS
    <3>1. Left(r, text)
      BY <1>1
    <3>2. CASE r \in 1 .. 25
      BY <2>2, <3>1, <3>2, WholeTurned
    <3>3. CASE r = 26
      <4>1. Left(27, text)
        BY <3>1, <3>3, WholeInTheEnd
      <4> QED
        BY <3>3, <4>1
    <3> QED
      BY <3>2, <3>3
  <2>4. Notated(written)' => Left(rule, file_content)'
    BY <1>1, <2>1, <2>3, LeftFollows
  <2>5. file_content' \in Sym /\ rule' \in 1 .. 27
    BY <2>1
  <2> QED
    BY <1>1, <2>4, <2>5, NothingExtractedNext DEF EmailState
<1> QED
  BY <1>2, <1>3

LEMMA ExtractKeeps == EmailState /\ extract_email => EmailState'
<1> SUFFICES ASSUME EmailState, extract_email PROVE EmailState'
  OBVIOUS
<1>1. /\ mail = "rules" /\ mail' = "extracted" /\ written' = written
      /\ rule' = rule /\ rule = 27 /\ file_content' = file_content /\ file_content \in Sym
      /\ Notated(written) => Left(rule, file_content)
  BY RulesCounted DEF extract_email, EmailState
<1> PICK x \in Sym : x = file_content
  BY <1>1
<1> PICK y : y = email'
  OBVIOUS
<1>2. y = Extracted(x, Fitting(x))
  BY Zenon DEF extract_email, Extracted, Fitting
<1>3. Addresses(x, y)
  BY <1>2, ExtractedIsAddress
<1>4. Notated(written) => y = Address
  <2> SUFFICES ASSUME Notated(written) PROVE y = Address
    OBVIOUS
  <2>1. x = TheAddress
    BY <1>1, WholeInTheEnd
  <2> QED
    BY <1>2, <2>1, TheAddressIsFound, AddressIs
<1>5. NotationsAreUnderstood'
  BY <1>1, <1>4 DEF NotationsAreUnderstood, Notated
<1>6. OnlyAddresses'
  BY <1>1, <1>3 DEF OnlyAddresses, Addresses, HasAt
<1> QED
  BY <1>1, <1>5, <1>6 DEF EmailState, AddressIsExtracted

LEMMA NextLineKeeps == EmailState /\ NextLine => EmailState'
<1> SUFFICES ASSUME EmailState, NextLine PROVE EmailState'
  OBVIOUS
<1>1. mail' = "read" /\ rule' = 1 /\ file_content' \in Sym
  BY NoSymbols DEF NextLine
<1> QED
  BY <1>1, NothingExtractedNext DEF EmailState

LEMMA EmailKeeps == EmailState /\ [EmailNext]_emailVars => EmailState'
<1> SUFFICES ASSUME EmailState, [EmailNext]_emailVars PROVE EmailState'
  OBVIOUS
<1>1. CASE ReadLine
  BY <1>1, ReadKeeps
<1>2. CASE replace_all
  BY <1>2, ReplaceKeeps
<1>3. CASE extract_email
  BY <1>3, ExtractKeeps
<1>4. CASE NextLine
  BY <1>4, NextLineKeeps
<1>5. CASE UNCHANGED emailVars
  <2>1. /\ mail' = mail /\ written' = written /\ file_content' = file_content /\ rule' = rule
        /\ email' = email
    BY <1>5 DEF emailVars
  <2>2. /\ Left(rule, file_content)' <=> Left(rule, file_content)
        /\ Notated(written)' <=> Notated(written)
    BY <2>1, LeftFollows
  <2>3. AddressIsExtracted' <=> AddressIsExtracted
    BY <2>1 DEF AddressIsExtracted, NotationsAreUnderstood, OnlyAddresses
  <2> QED
    BY <2>1, <2>2, <2>3 DEF EmailState
<1> QED
  BY <1>1, <1>2, <1>3, <1>4, <1>5 DEF EmailNext, EmailCompute
=============================================================================
