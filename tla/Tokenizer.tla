------------------------------ MODULE Tokenizer ------------------------------
(***************************************************************************)
(* file-processing/tokenization: tokenize_by_space(), of which             *)
(* doc-summary/summarization.c has a copy.  It copies the fields of a line *)
(* one behind the other into a buffer and returns pointers to them.  A     *)
(* step is one iteration of its loop; characters are numbers.              *)
(***************************************************************************)
EXTENDS Integers, Sequences, SequencesExt, FiniteSetsExt

CONSTANTS
  delim,               \* the delimiter: a space in the code
  NUL,                 \* ends a string, and is in none
  max_tokens_size      \* the length of tokens[]: 10, and 1000 in the summary

ASSUME TokenizerAssumption == delim # NUL /\ max_tokens_size \in Nat \ {0}

VARIABLES
  scan,                \* "idle", "scan" while the loop runs, "done"
  str, idx, start,     \* the line, and the loop's i and start, from 1
  buffer,              \* what has been written to it: buffer_index is its length
  tokens               \* where in the buffer each token starts

tokVars == <<scan, str, idx, start, buffer, tokens>>

TokInit ==
  /\ scan = "idle"
  /\ str = <<>> /\ idx = 1 /\ start = 1 /\ buffer = <<>> /\ tokens = <<>>

\* The call.
BeginTokens(line) ==
  /\ scan' = "scan"
  /\ str' = line
  /\ idx' = 1 /\ start' = 1 /\ buffer' = <<>> /\ tokens' = <<>>

\* Mutant: the delimiter is left at the head of the next token.
SameStart == idx
NextStart == idx + 1

AtEnd == idx > Len(str)

\* The end of the string ends a token as a delimiter does.
tokenize_by_space ==
  /\ scan = "scan"
  /\ IF AtEnd \/ str[idx] = delim
     THEN LET token == SubSeq(str, start, idx - 1) IN
          /\ IF token # <<>> /\ Len(tokens) < max_tokens_size
             THEN /\ tokens' = Append(tokens, Len(buffer) + 1)
                  /\ buffer' = buffer \o token \o <<NUL>>
             ELSE UNCHANGED <<buffer, tokens>>
          /\ start' = NextStart
     ELSE UNCHANGED <<buffer, tokens, start>>
  /\ IF AtEnd THEN scan' = "done" /\ UNCHANGED idx
              ELSE idx' = idx + 1 /\ UNCHANGED scan
  /\ UNCHANGED str

\* What a pointer into the buffer points to.
StringAt(k) ==
  LET end == Min({j \in k .. Len(buffer) : buffer[j] = NUL}) IN SubSeq(buffer, k, end - 1)
Tokens == [t \in DOMAIN tokens |-> StringAt(tokens[t])]

-----------------------------------------------------------------------------
(* Properties.                                                             *)

\* The buffer has one byte more than the line, for any number of fields and
\* delimiters: nothing is written behind it.
BufferFits == Len(buffer) <= Len(str) + 1

\* The fields of a line: from each character that is no delimiter and follows
\* one, or nothing, up to the next delimiter.
InFields(line) == {k \in DOMAIN line : line[k] # delim}
FieldStarts(line) == {k \in InFields(line) : k - 1 \notin InFields(line)}
FieldEnd(line, k) ==
  CHOOSE j \in InFields(line) : /\ k <= j /\ k .. j \subseteq InFields(line)
                                /\ j + 1 \notin InFields(line)
StartsUpTo(line, k) == {j \in FieldStarts(line) : j <= k}
Fields(line) ==
  [f \in 1 .. Cardinality(FieldStarts(line)) |->
     LET k == CHOOSE j \in FieldStarts(line) : Cardinality(StartsUpTo(line, j)) = f
     IN  SubSeq(line, k, FieldEnd(line, k))]
FirstOf(fields) == SubSeq(fields, 1, Min({Len(fields), max_tokens_size}))

\* The tokens that the pointers point to are the fields of the line, from the
\* first, as many as there is room for; no later one overwrites an earlier.
TokensAreFields == scan = "done" => Tokens = FirstOf(Fields(str))
=============================================================================
