------------------------------- MODULE Summary -------------------------------
(***************************************************************************)
(* file-processing/doc-summary: summarization.c counts the words of a      *)
(* file, takes the rarest, and prints the lines that hold one of them,     *)
(* which it reads again.  A step is one iteration of a loop.               *)
(***************************************************************************)
EXTENDS Tokenizer

CONSTANTS
  Docs,                \* the files: sequences of lines
  LINE_SIZE,           \* what fgets() reads at most: MAX_LINE - 1, 8191
  MAX_UNIQUE_WORDS,    \* 1000 in the code
  TOP                  \* how many of the rarest are taken: 5 in the code

ASSUME SummaryAssumption ==
  /\ LINE_SIZE \in Nat \ {0} /\ MAX_UNIQUE_WORDS \in Nat \ {0} /\ TOP \in Nat \ {0}
  /\ Docs \subseteq Seq(Seq(Nat \ {NUL}))

VARIABLES
  sum,                 \* where main() is
  doc, line, offset,   \* the file, and how far it has been read
  token,               \* the next token that fill_up_unqiue_words looks at
  unique_words,        \* the table: a word and its count each
  top,                 \* the words taken
  sentence_number, summary

sumVars == <<sum, doc, line, offset, token, unique_words, top, sentence_number, summary>>
summaryVars == <<tokVars, sumVars>>

SumInit ==
  /\ TokInit
  /\ sum = "open"
  /\ doc = <<>> /\ line = 1 /\ offset = 0 /\ token = 1
  /\ unique_words = <<>> /\ top = <<>>
  /\ sentence_number = 1 /\ summary = <<>>

OpenFile ==
  /\ sum = "open"
  /\ doc' \in Docs
  /\ sum' = "count"
  /\ UNCHANGED <<tokVars, line, offset, token, unique_words, top, sentence_number, summary>>

-----------------------------------------------------------------------------
(* fgets(): the rest of the line without its newline, or as much of it as  *)
(* the buffer holds; of a line that just fits, the newline comes alone.    *)

Rest == SubSeq(doc[line], offset + 1, Len(doc[line]))
FileContent == IF Len(Rest) < LINE_SIZE THEN Rest ELSE SubSeq(Rest, 1, LINE_SIZE)
ReadOn ==
  IF Len(Rest) < LINE_SIZE THEN line' = line + 1 /\ offset' = 0
                           ELSE offset' = offset + LINE_SIZE /\ UNCHANGED line
EndOfFile == line > Len(doc)

-----------------------------------------------------------------------------
(* The first pass: the words and their counts.                             *)

CountLine ==
  /\ sum = "count" /\ scan = "idle"
  /\ ~EndOfFile
  /\ BeginTokens(FileContent)
  /\ ReadOn
  /\ token' = 1
  /\ UNCHANGED <<sum, doc, unique_words, top, sentence_number, summary>>

Tokenize ==
  /\ sum = "count"
  /\ tokenize_by_space
  /\ UNCHANGED sumVars

\* Mutant: a word is looked up only while the table has room.
HasRoom     == Len(unique_words) < MAX_UNIQUE_WORDS
Known(word) == {w \in DOMAIN unique_words : unique_words[w].word = word}
FindUnlessFull(word) == IF HasRoom THEN Known(word) ELSE {}
Find(word) == Known(word)

fill_up_unqiue_words ==
  /\ sum = "count" /\ scan = "done"
  /\ token <= Len(tokens)
  /\ LET word == Tokens[token] IN
     unique_words' = IF Find(word) # {}
                       THEN [unique_words EXCEPT ![Min(Find(word))].count = @ + 1]
                     ELSE IF HasRoom
                       THEN Append(unique_words, [word |-> word, count |-> 1])
                     ELSE unique_words
  /\ token' = token + 1
  /\ UNCHANGED <<tokVars, sum, doc, line, offset, top, sentence_number, summary>>

\* The line's tokens are freed.
LineCounted ==
  /\ sum = "count" /\ scan = "done"
  /\ token > Len(tokens)
  /\ scan' = "idle"
  /\ UNCHANGED <<str, idx, start, buffer, tokens, sumVars>>

-----------------------------------------------------------------------------
(* The rarest words.                                                       *)

StringBefore(v, w) ==
  \E k \in DOMAIN w \cap (1 .. (Len(v) + 1)) :
    /\ k <= Len(v) => v[k] < w[k]
    /\ \A j \in 1 .. (k - 1) : v[j] = w[j]

compare_wordcount(a, b) ==
  a.count < b.count \/ (a.count = b.count /\ StringBefore(a.word, b.word))

\* Mutant: the file is not rewound.
NotRewound == UNCHANGED <<line, offset>>
Rewound == line' = 1 /\ offset' = 0

\* qsort(): none comes behind one that it is less than.
qsort(entries) ==
  LET order == CHOOSE p \in Bijection(DOMAIN entries, DOMAIN entries) :
                 \A i, j \in DOMAIN entries :
                   i < j => ~compare_wordcount(entries[p[j]], entries[p[i]])
  IN  [k \in DOMAIN entries |-> entries[order[k]]]

\* The sorting and the choice of the first; rewind().
SelectRarest ==
  /\ sum = "count" /\ scan = "idle"
  /\ EndOfFile
  /\ unique_words' = qsort(unique_words)
  /\ top' = [k \in 1 .. Min({TOP, Len(unique_words)}) |-> unique_words'[k].word]
  /\ Rewound
  /\ sum' = "extract"
  /\ UNCHANGED <<tokVars, doc, token, sentence_number, summary>>

-----------------------------------------------------------------------------
(* The second pass: the lines, compared with strstr().                     *)

strstr(text, word) ==
  \E k \in 0 .. (Len(text) - Len(word)) : SubSeq(text, k + 1, k + Len(word)) = word

ExtractLine ==
  /\ sum = "extract"
  /\ ~EndOfFile
  /\ summary' = IF \E k \in DOMAIN top : strstr(FileContent, top[k])
                THEN Append(summary, [number |-> sentence_number, text |-> FileContent])
                ELSE summary
  /\ sentence_number' = sentence_number + 1
  /\ ReadOn
  /\ UNCHANGED <<tokVars, sum, doc, token, unique_words, top>>

EndOfSummary ==
  /\ sum = "extract"
  /\ EndOfFile
  /\ sum' = "done"
  /\ UNCHANGED <<tokVars, doc, line, offset, token, unique_words, top,
                 sentence_number, summary>>

SumCompute ==
  CountLine \/ Tokenize \/ fill_up_unqiue_words \/ LineCounted \/ SelectRarest
    \/ ExtractLine \/ EndOfSummary
SumNext == OpenFile \/ SumCompute

-----------------------------------------------------------------------------
(* Properties.                                                             *)

SummaryTypeOK ==
  /\ scan \in {"idle", "scan", "done"}
  /\ idx \in 1 .. (Len(str) + 1) /\ start \in 1 .. (Len(str) + 2)
  /\ \A t \in DOMAIN tokens : tokens[t] \in DOMAIN buffer
  /\ sum \in {"open", "count", "extract", "done"}
  /\ line \in 1 .. (Len(doc) + 1) /\ token \in 1 .. (max_tokens_size + 1)
  /\ Len(unique_words) <= MAX_UNIQUE_WORDS
  /\ \A w \in DOMAIN unique_words : unique_words[w].count \in Nat \ {0}
  /\ Len(top) <= TOP

\* What fgets() makes of the file: the parts of each line, by line and part.
Chunks == UNION {{l} \X (1 .. (Len(doc[l]) \div LINE_SIZE + 1)) : l \in DOMAIN doc}
Chunk(c) == SubSeq(doc[c[1]], (c[2] - 1) * LINE_SIZE + 1,
                   Min({c[2] * LINE_SIZE, Len(doc[c[1]])}))
ChunksUpTo(c) == {b \in Chunks : b[1] < c[1] \/ (b[1] = c[1] /\ b[2] <= c[2])}

\* How often a word is in the file: as a field among the first max_tokens_size
\* of what was read at once.
WordsOf(c) == FirstOf(Fields(Chunk(c)))
Places == UNION {{c} \X DOMAIN WordsOf(c) : c \in Chunks}
WordAt(place) == WordsOf(place[1])[place[2]]
Occurs(word) == Cardinality({place \in Places : WordAt(place) = word})
DocWords == {WordAt(place) : place \in Places}
Counted == {unique_words[w].word : w \in DOMAIN unique_words}

\* The table has each word once with the number of its occurrences in the
\* whole file, those after the table was full included, and misses a word only
\* if it is full.
TableIsExact ==
  sum \in {"extract", "done"} =>
    /\ Cardinality(Counted) = Len(unique_words)
    /\ \A w \in DOMAIN unique_words : unique_words[w].count = Occurs(unique_words[w].word)
    /\ Counted \subseteq DocWords
    /\ Counted = DocWords \/ Len(unique_words) = MAX_UNIQUE_WORDS

\* No word that is counted and not taken is rarer in the file than one that is
\* taken, and as many are taken as there are, up to TOP.
RarestAreTaken ==
  sum \in {"extract", "done"} =>
    LET taken == {top[k] : k \in DOMAIN top} IN
    /\ Cardinality(taken) = Min({TOP, Cardinality(Counted)})
    /\ \A w \in taken, v \in Counted \ taken : Occurs(w) <= Occurs(v)

\* Each of the rarest words is shown in a sentence that it is a word of, under
\* the number of that sentence: the second pass sees what the first counted.
RareAreShown ==
  sum = "done" =>
    /\ \A s \in DOMAIN summary : \E c \in Chunks :
         /\ summary[s].text = Chunk(c)
         /\ summary[s].number = Cardinality(ChunksUpTo(c))
    /\ \A k \in DOMAIN top : \E s \in DOMAIN summary :
         \E f \in DOMAIN Fields(summary[s].text) : Fields(summary[s].text)[f] = top[k]

\* What is shown as the summary is about the rarest words of the file.
SummaryIsOfRarest == RarestAreTaken /\ RareAreShown
=============================================================================
