-------------------------------- MODULE Email --------------------------------
(***************************************************************************)
(* file-processing/email-parsing: emailparser.c cleans each line of a      *)
(* file, rewrites it by a list of rules, and prints the first address in   *)
(* it.  A text is a sequence of symbols: words, parts of words that a rule *)
(* is about, and single characters.  A step is one replacement.            *)
(***************************************************************************)
EXTENDS Integers, Sequences, SequencesExt, FiniteSetsExt

CONSTANT Mails         \* the lines the file may have

\* Every line is a sequence, of whatever symbols.
AreTexts(lines) == \A text \in lines : text \in Seq(ToSet(text))
ASSUME EmailAssumption == AreTexts(Mails)

VARIABLES
  mail,                \* where main() is with a line
  written,             \* the line as it was read
  file_content,        \* what has become of it
  rule,                \* the rule that is applied
  email                \* what was extracted, <<>> if nothing was

emailVars == <<mail, written, file_content, rule, email>>

EmailInit ==
  /\ mail = "read"
  /\ written = <<>> /\ file_content = <<>> /\ rule = 1 /\ email = <<>>

-----------------------------------------------------------------------------
(* clean_content().                                                        *)

Digit == {"7", "10"}
Labels == {<<"Email", ":">>, <<"ID", ":">>}

\* The text without the symbols of a set at its head.
Skip(text, symbols) ==
  LET kept == {k \in DOMAIN text : \E j \in 1 .. k : text[j] \notin symbols}
  IN  IF kept = {} THEN <<>> ELSE SubSeq(text, Min(kept), Len(text))

StartsWith(text, symbols) == text # <<>> /\ Head(text) \in symbols

\* The numbering goes with one dot or bracket, and a label only right after it.
clean_content(text) ==
  LET t1 == Skip(text, {" "})
      t2 == Skip(t1, Digit)
      t3 == IF StartsWith(t1, Digit) /\ StartsWith(t2, {".", ")"}) THEN Tail(t2) ELSE t2
      t4 == IF \E label \in Labels : IsPrefix(label, t3) THEN SubSeq(t3, 3, Len(t3)) ELSE t3
  IN  Skip(t4, {"-", ":", " "})

-----------------------------------------------------------------------------
(* normalize().                                                            *)

Lower(symbol) ==
  CASE symbol = "Email" -> "email" [] symbol = "ID" -> "id" [] symbol = "AT" -> "at"
    [] symbol = "DOT" -> "dot" [] OTHER -> symbol
convert_to_lowercase(text) == [k \in DOMAIN text |-> Lower(text[k])]

Gmail == <<"gm", "ai", "l">>
Spaced(word) == <<" ">> \o word \o <<" ">>

AtRules ==
  << [old |-> <<"_", "at", "_", "the", "_", "rate", "_">>, updated |-> <<"@">>],
     [old |-> <<"-", "at", "-", "the", "-", "rate", "-">>, updated |-> <<"@">>],
     [old |-> <<" ", "at", " ", "the", " ", "rate", " ">>, updated |-> <<"@">>],
     [old |-> <<"at", "the", "rate">>,                     updated |-> <<"@">>],
     [old |-> <<"(", "at", "the", "rate", ")">>,           updated |-> <<"@">>],
     [old |-> <<"(", "at", ")">>,                          updated |-> <<"@">>],
     [old |-> <<"[", "at", "]">>,                          updated |-> <<"@">>],
     [old |-> <<" ", "at", " ">>,                          updated |-> <<"@">>],
     [old |-> <<"(", "@", ")">>,                           updated |-> <<"@">>] >>
DotRules ==
  << [old |-> <<"_", "dot", "_">>,    updated |-> <<".">>],
     [old |-> <<" ", "dot", " ">>,    updated |-> <<".">>],
     [old |-> <<"(", "dot", ")">>,    updated |-> <<".">>],
     [old |-> <<"[", "dot", "]">>,    updated |-> <<".">>],
     [old |-> <<" ", "period", " ">>, updated |-> <<".">>],
     [old |-> <<"period", " ">>,      updated |-> <<".">>],
     [old |-> <<"(", "period", ")">>, updated |-> <<".">>] >>
OtherRules ==
  << [old |-> <<" ", "underscore", " ">>, updated |-> <<"_">>],
     [old |-> <<"underscore">>,           updated |-> <<"_">>],
     [old |-> Spaced(<<"gm", "l">>),      updated |-> Spaced(Gmail)],
     [old |-> Spaced(<<"gm", "ai">>),     updated |-> Spaced(Gmail)],
     [old |-> Spaced(<<"google", " ", "mail">>), updated |-> Spaced(Gmail)],
     [old |-> Spaced(<<"gm">>),           updated |-> Spaced(Gmail)],
     [old |-> <<"gm", " ">>,              updated |-> Gmail],
     [old |-> <<" ", "@", " ">>,          updated |-> <<"@">>],
     [old |-> <<" ", ".", " ">>,          updated |-> <<".">>],
     [old |-> <<" ", ".", "com">>,        updated |-> <<".", "com">>] >>

\* Mutants: the right spelling listed among the wrong ones, so that a rule finds
\* its own result (as "gm", commented out in the code, would); the rules from
\* the last to the first.
WithGmail == AtRules \o DotRules \o <<[old |-> Gmail, updated |-> Gmail]>> \o OtherRules
Backwards == Reverse(AtRules) \o DotRules \o OtherRules
Rules == AtRules \o DotRules \o OtherRules

ReadLine ==
  /\ mail = "read"
  /\ written' \in Mails
  /\ file_content' = convert_to_lowercase(clean_content(written'))
  /\ rule' = 1
  /\ email' = <<>>
  /\ mail' = "rules"

\* strstr(): where the old text begins first.
Found(text, old) == {k \in 1 .. (Len(text) - Len(old) + 1) :
                       SubSeq(text, k, k + Len(old) - 1) = old}

\* One turn of the loop of replace_all().
replace_all ==
  /\ mail = "rules" /\ rule <= Len(Rules)
  /\ LET old == Rules[rule].old
         found == Found(file_content, old)
     IN  IF found # {}
         THEN /\ file_content' = SubSeq(file_content, 1, Min(found) - 1)
                                   \o Rules[rule].updated
                                   \o SubSeq(file_content, Min(found) + Len(old),
                                             Len(file_content))
              /\ UNCHANGED rule
         ELSE /\ rule' = rule + 1
              /\ UNCHANGED file_content
  /\ UNCHANGED <<mail, written, email>>

-----------------------------------------------------------------------------
(* extract_email(): the leftmost match of the pattern, the longest there.  *)

Others == {" ", "(", ")", "[", "]", ":", ",", "@"}
IsLocal(text)  == text # <<>> /\ ToSet(text) \cap Others = {}
IsDomain(text) == text # <<>> /\ ToSet(text) \cap (Others \cup {"_"}) = {}
IsTop(text)    == IsDomain(text) /\ ToSet(text) \cap (Digit \cup {".", "-"}) = {}

Matches(text) ==
  \E at \in DOMAIN text, dot \in DOMAIN text :
    /\ text[at] = "@" /\ text[dot] = "." /\ at < dot
    /\ IsLocal(SubSeq(text, 1, at - 1))
    /\ IsDomain(SubSeq(text, at + 1, dot - 1))
    /\ IsTop(SubSeq(text, dot + 1, Len(text)))

\* A line that is empty by now is skipped.
extract_email ==
  /\ mail = "rules" /\ rule > Len(Rules)
  /\ LET found == {k \in (DOMAIN file_content) \X (DOMAIN file_content) :
                     Matches(SubSeq(file_content, k[1], k[2]))}
         first == Min({k[1] : k \in found})
         last  == Max({k[2] : k \in {m \in found : m[1] = first}})
     IN  email' = IF found = {} THEN <<>> ELSE SubSeq(file_content, first, last)
  /\ mail' = "extracted"
  /\ UNCHANGED <<written, file_content, rule>>

\* Everything is overwritten by the next line.
NextLine ==
  /\ mail = "extracted"
  /\ mail' = "read"
  /\ written' = <<>> /\ file_content' = <<>> /\ rule' = 1 /\ email' = <<>>

EmailCompute == replace_all \/ extract_email
EmailNext == ReadLine \/ EmailCompute \/ NextLine

-----------------------------------------------------------------------------
(* Properties.                                                             *)

\* The ways to write the symbols of an address that the rules name, with and
\* without spaces around the bracketed ones, as email.txt has them.
Margins == {<<>>, <<" ">>}
InBrackets(word) ==
  {s \o <<b[1], word, b[2]>> \o s : s \in Margins, b \in {<<"(", ")">>, <<"[", "]">>}}
AtNotations ==
  {<<"@">>, <<" ", "@", " ">>, <<" ", "AT", " ">>,
   <<"_", "at", "_", "the", "_", "rate", "_">>, <<"-", "at", "-", "the", "-", "rate", "-">>,
   <<" ", "at", " ", "the", " ", "rate", " ">>}
    \cup InBrackets("at")
    \cup {<<"(", "at", "the", "rate", ")">>, <<"at", "the", "rate">>}
DotNotations ==
  {<<".">>, <<" ", "DOT", " ">>, <<"_", "dot", "_">>, <<" ", ".", " ">>,
   <<" ", "period", " ">>, <<"(", "period", ")">>}
    \cup InBrackets("dot")
UnderscoreNotations == {<<"_">>, <<"underscore">>, <<" ", "underscore", " ">>}
Headings == {<<>>, <<" ", "7", ".", " ">>, <<"10", ".", "Email", ":", "-">>, <<"ID", ":">>}

Written(at, dot, underscore) ==
  <<"ann">> \o underscore \o <<"lee">> \o dot \o <<"x">> \o at \o <<"yahoo">> \o dot
    \o <<"com">>
Address == <<"ann", "_", "lee", ".", "x", "@", "yahoo", ".", "com">>

\* Whatever notation an address is written in, the rules make one another no
\* trouble: at the end it is the address, and is found.
NotationsAreUnderstood ==
  mail = "extracted" =>
    \A at \in AtNotations, dot \in DotNotations, underscore \in UnderscoreNotations :
      \A heading \in Headings :
        written = heading \o Written(at, dot, underscore) => email = Address

\* The rewriting of a line comes to an end: no rule goes on finding what it
\* wrote itself.
RewritingEnds == mail = "rules" ~> mail = "extracted"

\* What is printed as an address is one: a part of the text with one @ and,
\* behind it, a dot.
OnlyAddresses ==
  mail = "extracted" /\ email # <<>> =>
    /\ \E k \in DOMAIN email : /\ email[k] = "@"
                               /\ \A j \in DOMAIN email : j # k => email[j] # "@"
                               /\ \E j \in k .. Len(email) : email[j] = "."
    /\ Found(file_content, email) # {}

\* An address in any notation is what is printed of its line, and nothing is
\* printed that is no address.
AddressIsExtracted == NotationsAreUnderstood /\ OnlyAddresses
=============================================================================
