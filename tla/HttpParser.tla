----------------------------- MODULE HttpParser -----------------------------
(***************************************************************************)
(* http-setup/http-server.c: parse_request() takes a request apart, and a  *)
(* response is put together.  A request is a sequence of lines, which end  *)
(* in CR LF each; the empty one ends the headers.  A step is one line.     *)
(***************************************************************************)
EXTENDS Integers, Sequences, SequencesExt

CONSTANTS
  Requests,        \* the requests: each a sequence of lines
  EMPTY,           \* the empty line, and what is not set
  WithColon,       \* the lines with a colon, as a header has
  MAX_HEADERS      \* 20 in the code

Lines == UNION {ToSet(r) : r \in Requests}

ASSUME HttpParserAssumption ==
  /\ MAX_HEADERS \in Nat \ {0}
  /\ Requests \subseteq Seq(Lines)
  /\ EMPTY \notin WithColon
  /\ \A r \in Requests : r # <<>> /\ Head(r) # EMPTY

VARIABLES
  parse,           \* where parse_request() is
  buffer_left,     \* what strtok() has not returned yet
  request_line,
  headers,         \* request->headers: the line each was made of, or EMPTY
  body,            \* request->body, EMPTY for NULL
  sent_lines       \* history: the request as it came

parseVars == <<parse, buffer_left, request_line, headers, body, sent_lines>>

ParseInit ==
  /\ parse = "read"
  /\ buffer_left = <<>> /\ request_line = EMPTY
  /\ headers = <<>> /\ body = EMPTY /\ sent_lines = <<>>

\* strtok(): the next line, empty ones skipped, and what is behind it.
NextLines == {k \in DOMAIN buffer_left : buffer_left[k] # EMPTY}
FirstLine == CHOOSE k \in NextLines : \A j \in NextLines : k <= j
Behind(k) == SubSeq(buffer_left, k + 1, Len(buffer_left))

ReadRequest ==
  /\ parse = "read"
  /\ \E r \in Requests :
       /\ sent_lines' = r
       /\ request_line' = Head(r)
       /\ buffer_left' = Tail(r)
  /\ headers' = <<>> /\ body' = EMPTY
  /\ parse' = "headers"

\* An entry of a line without a colon is counted all the same.
parse_header(text) == IF text \in WithColon THEN text ELSE EMPTY

\* Mutant: later lines displace earlier ones.
Displace(entry) ==
  IF Len(headers) < MAX_HEADERS THEN Append(headers, entry)
                                ELSE [headers EXCEPT ![MAX_HEADERS] = entry]
Keep(entry) == IF Len(headers) < MAX_HEADERS THEN Append(headers, entry) ELSE headers

HeaderLine ==
  /\ parse = "headers"
  /\ NextLines # {}
  /\ headers' = Keep(parse_header(buffer_left[FirstLine]))
  /\ buffer_left' = Behind(FirstLine)
  /\ UNCHANGED <<parse, request_line, body, sent_lines>>

\* The loop ends when strtok() has no line left, and then has no body either.
BodyOfRequest ==
  /\ parse = "headers"
  /\ NextLines = {}
  /\ body' = EMPTY
  /\ buffer_left' = <<>>
  /\ parse' = "parsed"
  /\ UNCHANGED <<request_line, headers, sent_lines>>

\* The response is sent, and the next request read into a new buffer.
Respond ==
  /\ parse = "parsed"
  /\ parse' = "read"
  /\ request_line' = EMPTY /\ headers' = <<>> /\ sent_lines' = <<>>
  /\ UNCHANGED <<buffer_left, body>>

ParseCompute == HeaderLine \/ BodyOfRequest
ParseNext == ReadRequest \/ ParseCompute \/ Respond

-----------------------------------------------------------------------------
(* Properties.                                                             *)

\* The lines of a request between the first and the empty one.
RealHeaders ==
  LET ends == {k \in DOMAIN sent_lines : sent_lines[k] = EMPTY}
      end  == IF ends = {} THEN Len(sent_lines) + 1 ELSE CHOOSE k \in ends : \A j \in ends : k <= j
  IN  SubSeq(sent_lines, 2, end - 1)

\* The headers of a request are found, in order and from the first entry on, as
\* many as there is room for, although the lines of the body are taken for
\* headers too: those come after them and displace none.
HeadersComeFirst ==
  parse = "parsed" =>
    LET real == RealHeaders
        room == IF Len(real) < MAX_HEADERS THEN Len(real) ELSE MAX_HEADERS
    IN  /\ Len(headers) <= MAX_HEADERS
        /\ Len(headers) >= room
        /\ \A k \in 1 .. room : headers[k] = parse_header(real[k])
=============================================================================
