------------------------------ MODULE Programs ------------------------------
(***************************************************************************)
(* The programs of the repository that talk to nobody, and parse_request() *)
(* of the HTTP server, side by side: each is a process of its own that     *)
(* shares nothing with the others, so that one is started and stays alone. *)
(***************************************************************************)
EXTENDS Rsa, Aes, Summary, Email, Sentences, HttpParser

VARIABLE program       \* the one that was started, or "none"

programVars == <<program, rsaVars, aesVars, summaryVars, emailVars, genVars, parseVars>>

ProgramsInit ==
  /\ program = "none"
  /\ RsaInit /\ AesInit /\ SumInit /\ EmailInit /\ GenInit /\ ParseInit

Start ==
  /\ program = "none"
  /\ program' \in {"rsa", "aes", "summary", "email", "sentences", "http"}
  /\ UNCHANGED <<rsaVars, aesVars, summaryVars, emailVars, genVars, parseVars>>

\* A program changes nothing of the others.
RsaAlone ==
  /\ program = "rsa"
  /\ UNCHANGED <<program, aesVars, summaryVars, emailVars, genVars, parseVars>>
AesAlone ==
  /\ program = "aes"
  /\ UNCHANGED <<program, rsaVars, summaryVars, emailVars, genVars, parseVars>>
SummaryAlone ==
  /\ program = "summary"
  /\ UNCHANGED <<program, rsaVars, aesVars, emailVars, genVars, parseVars>>
EmailAlone ==
  /\ program = "email"
  /\ UNCHANGED <<program, rsaVars, aesVars, summaryVars, genVars, parseVars>>
SentencesAlone ==
  /\ program = "sentences"
  /\ UNCHANGED <<program, rsaVars, aesVars, summaryVars, emailVars, parseVars>>
HttpAlone ==
  /\ program = "http"
  /\ UNCHANGED <<program, rsaVars, aesVars, summaryVars, emailVars, genVars>>

ProgramsNext ==
  \/ Start
  \/ RsaAlone /\ RsaNext
  \/ AesAlone /\ AesNext
  \/ SummaryAlone /\ SumNext
  \/ EmailAlone /\ EmailNext
  \/ SentencesAlone /\ GenNext
  \/ HttpAlone /\ ParseNext

ProgramsSpec == ProgramsInit /\ [][ProgramsNext]_programVars

\* The e-mail program goes on with a line it has read.
FairProgramsSpec == ProgramsSpec /\ WF_programVars(EmailAlone /\ EmailCompute)

-----------------------------------------------------------------------------
(* Properties of all of them.                                              *)

\* Every array of fixed size and every integer of fixed width holds what is
\* put into it: the products of RSA a long long, the bytes and the key
\* schedule of AES, the tokens their buffer, the words their table, a verb
\* with its ending the buffer of the conjugation.
WithinBounds ==
  /\ RsaTypeOK /\ NoOverflow
  /\ AesTypeOK
  /\ SummaryTypeOK /\ BufferFits
  /\ VerbFits
=============================================================================
