-------------------------- MODULE SumServersProofs --------------------------
(***************************************************************************)
(* Proofs about the two summing servers: MultiplexServer, for any number   *)
(* of clients, slots and descriptors; then BasicServer; then SumServers,   *)
(* whichever of them was started, whatever users type and when.            *)
(***************************************************************************)
EXTENDS SumServers, SequenceTheorems, DataLemmas, TLAPS

-----------------------------------------------------------------------------
(* Clients, sums and the socket, for both summing servers.                 *)

\* Integer addition with wrap-around gives an integer.
LEMMA IntAddType ==
  ASSUME NEW a \in Int, NEW b \in Int
  PROVE  IntAdd(a, b) \in Int
<1>1. 2 * INT_HALF \in Nat \ {0}
  BY SumClientAssumption
<1>2. (a + b + INT_HALF) \in Int
  BY SumClientAssumption
<1>3. \A x \in Int, y \in Nat \ {0} : x % y \in Int
  OBVIOUS
<1> QED
  BY <1>1, <1>2, <1>3, SumClientAssumption DEF IntAdd, Wrap

\* The sum of two ints is an int again.
LEMMA IntAddRange ==
  ASSUME NEW a \in Int, NEW b \in Int
  PROVE  IntAdd(a, b) \in -INT_HALF .. (INT_HALF - 1)
<1>1. 2 * INT_HALF \in Nat \ {0} /\ INT_HALF \in Nat
  BY SumClientAssumption
<1>2. (a + b + INT_HALF) \in Int
  BY <1>1
<1>3. \A x \in Int, y \in Nat \ {0} : x % y \in 0 .. (y - 1)
  OBVIOUS
<1>4. (a + b + INT_HALF) % (2 * INT_HALF) \in 0 .. (2 * INT_HALF - 1)
  BY <1>1, <1>2, <1>3
<1> QED
  BY <1>1, <1>4 DEF IntAdd, Wrap

\* SumOf(s) is the last value of a loop that starts from 0 and adds one number
\* of s after the other.
LEMMA SumOfLoop ==
  ASSUME NEW s \in Seq(Int)
  PROVE  \E f \in [0 .. Len(s) -> Int] :
           /\ SumOf(s) = f[Len(s)] /\ f[0] = 0
           /\ \A n \in 1 .. Len(s) : f[n] = IntAdd(f[n - 1], s[n])
<1> DEFINE N == Len(s)
           step == [n \in 1 .. N |-> [v \in Int |-> IntAdd(v, s[n])]]
           Is(f) == f = [n \in 0 .. N |-> IF n = 0 THEN 0 ELSE IntAdd(f[n - 1], s[n])]
           sum == CHOOSE f : Is(f)
<1>1. N \in Nat /\ \A n \in 1 .. N : s[n] \in Int
  OBVIOUS
<1>2. step \in [1 .. N -> [Int -> Int]]
  BY <1>1, IntAddType
<1>3. PICK f \in [0 .. N -> Int] :
        f[0] = 0 /\ \A n \in 1 .. N : f[n] = step[n][f[n - 1]]
  <2> DEFINE zero == 0
             T == Int
  <2>1. zero \in T /\ N \in Nat /\ step \in [1 .. N -> [T -> T]]
    BY <1>1, <1>2
  <2> HIDE DEF N, step, zero, T
  <2>2. PICK f : IsLoop(f, N, T, zero, step)
    BY <2>1, LoopExists
  <2> QED
    BY <2>2 DEF zero, T, IsLoop
<1>4. Is(f)
  <2>1. \A n \in 1 .. N : f[n - 1] \in Int
    BY <1>1
  <2>2. \A n \in 1 .. N : f[n] = IntAdd(f[n - 1], s[n])
    BY <1>3, <2>1
  <2>3. \A n \in 0 .. N : f[n] = IF n = 0 THEN 0 ELSE IntAdd(f[n - 1], s[n])
    BY <1>3, <2>2
  <2> DEFINE F == [n \in 0 .. N |-> IF n = 0 THEN 0 ELSE IntAdd(f[n - 1], s[n])]
  <2>4. f = [n \in 0 .. N |-> f[n]] /\ F = [n \in 0 .. N |-> F[n]]
    OBVIOUS
  <2>5. \A n \in 0 .. N : f[n] = F[n]
    BY <2>3
  <2> HIDE DEF F
  <2>6. f = F
    BY <2>4, <2>5, Zenon
  <2> QED
    BY <2>6 DEF F
<1>5. Is(sum)
  <2> HIDE DEF Is
  <2> QED
    BY <1>4
<1> HIDE DEF sum
<1>6. sum = [n \in 0 .. N |-> IF n = 0 THEN 0 ELSE IntAdd(sum[n - 1], s[n])]
  BY <1>5
<1>7. sum[0] = 0 /\ \A n \in 1 .. N : sum[n] = IntAdd(sum[n - 1], s[n])
  BY <1>6, <1>1
<1>8. \A n \in 0 .. N : sum[n] \in Int
  <2> DEFINE S == {n \in 0 .. N : sum[n] \in Int}
  <2>1. 0 \in S
    BY <1>1, <1>7
  <2>2. ASSUME NEW n \in 0 .. (N - 1), n \in S PROVE n + 1 \in S
    <3>1. n + 1 \in 1 .. N /\ (n + 1) - 1 = n /\ n + 1 \in 0 .. N
      BY <1>1
    <3>2. IntAdd(sum[n], s[n + 1]) \in Int
      BY <1>1, <2>2, <3>1, IntAddType
    <3> QED
      BY <1>7, <3>1, <3>2
  <2> HIDE DEF S
  <2>3. \A n \in 0 .. N : n \in S
    BY <1>1, <2>1, <2>2, UpTo
  <2> QED
    BY <2>3 DEF S
<1>9. sum \in [0 .. N -> Int]
  <2> DEFINE F == [n \in 0 .. N |-> IF n = 0 THEN 0 ELSE IntAdd(sum[n - 1], s[n])]
  <2>1. sum = F
    BY <1>6
  <2>2. \A n \in 0 .. N : F[n] \in Int
    BY <1>8, <2>1
  <2> QED
    BY <2>1, <2>2
<1>10. SumOf(s) = sum[N]
  BY DEF SumOf, sum
<1> QED
  BY <1>7, <1>9, <1>10

\* One number more adds that number: the two loops agree on the first Len(s)
\* rounds.
LEMMA SumOfAppend ==
  ASSUME NEW s \in Seq(Int), NEW x \in Int
  PROVE  SumOf(Append(s, x)) = IntAdd(SumOf(s), x)
<1> DEFINE t == Append(s, x)
           N == Len(s)
<1>1. /\ N \in Nat /\ t \in Seq(Int) /\ Len(t) = N + 1
      /\ t[N + 1] = x /\ \A n \in 1 .. N : t[n] = s[n]
  OBVIOUS
<1> HIDE DEF t
<1>2. PICK f \in [0 .. N -> Int] :
        /\ SumOf(s) = f[N] /\ f[0] = 0
        /\ \A n \in 1 .. N : f[n] = IntAdd(f[n - 1], s[n])
  BY SumOfLoop
<1>3. PICK g \in [0 .. Len(t) -> Int] :
        /\ SumOf(t) = g[Len(t)] /\ g[0] = 0
        /\ \A n \in 1 .. Len(t) : g[n] = IntAdd(g[n - 1], t[n])
  BY <1>1, SumOfLoop
<1> DEFINE S == {n \in 0 .. N : f[n] = g[n]}
<1>4. 0 \in S
  BY <1>1, <1>2, <1>3
<1>5. ASSUME NEW n \in 0 .. (N - 1), n \in S PROVE n + 1 \in S
  <2>1. n + 1 \in 1 .. N /\ (n + 1) - 1 = n /\ n + 1 \in 1 .. Len(t)
    BY <1>1
  <2>2. f[n] = g[n] /\ s[n + 1] = t[n + 1]
    BY <1>1, <1>5, <2>1
  <2>3. f[n + 1] = g[n + 1]
    BY <1>2, <1>3, <2>1, <2>2
  <2> QED
    BY <2>1, <2>3
<1> HIDE DEF S
<1>6. \A n \in 0 .. N : n \in S
  BY <1>1, <1>4, <1>5, UpTo
<1>7. f[N] = g[N]
  BY <1>1, <1>6 DEF S
<1>8. N + 1 \in 1 .. Len(t) /\ (N + 1) - 1 = N
  BY <1>1
<1>9. g[N + 1] = IntAdd(g[N], x)
  BY <1>1, <1>3, <1>8
<1> QED
  BY <1>1, <1>2, <1>3, <1>7, <1>9 DEF t

\* Of no numbers, the sum is 0.
LEMMA SumOfEmpty == SumOf(<<>>) = 0
<1>1. PICK f \in [0 .. Len(<<>>) -> Int] : SumOf(<<>>) = f[Len(<<>>)] /\ f[0] = 0
  <2>1. <<>> \in Seq(Int)
    OBVIOUS
  <2> QED
    BY <2>1, SumOfLoop
<1>2. <<>> \in Seq(Int) /\ Len(<<>>) = 0
  OBVIOUS
<1> QED
  BY <1>1, <1>2

\* Appending a unit keeps the others and puts the new one last.
LEMMA AppendUnit ==
  ASSUME NEW s \in Seq(Int), NEW n \in Int
  PROVE  /\ Append(s, n) # <<>>
         /\ Len(s) \in Nat
         /\ \A k \in 1 .. Len(Append(s, n)) :
              \/ k \in 1 .. Len(s) /\ Append(s, n)[k] = s[k]
              \/ Append(s, n)[k] = n
<1>1. /\ Append(s, n) \in Seq(Int) /\ Len(s) \in Nat
      /\ Len(Append(s, n)) = Len(s) + 1
  BY AppendProperties, LenProperties
<1>2. Append(s, n) # <<>>
  BY <1>1
<1>3. /\ \A k \in 1 .. Len(s) : Append(s, n)[k] = s[k]
      /\ Append(s, n)[Len(s) + 1] = n
  BY AppendProperties
<1>4. \A k \in 1 .. Len(Append(s, n)) : k \in 1 .. Len(s) \/ k = Len(s) + 1
  BY <1>1
<1> QED
  BY <1>1, <1>2, <1>3, <1>4

\* What a read leaves behind is a suffix of what was there.
LEMMA ConsumeSuffix ==
  ASSUME NEW c \in Clients, up \in [Clients -> Seq(Int)], Consume(c)
  PROVE  /\ up' \in [Clients -> Seq(Int)]
         /\ \A d \in Clients : d # c => up'[d] = up[d]
         /\ \A k \in 1 .. Len(up'[c]) :
              \E m \in 1 .. Len(up[c]) : up'[c][k] = up[c][m]
<1> DEFINE n == UnitsRead(c)
<1>1. Len(up[c]) \in Nat /\ n \in 0 .. Len(up[c])
  BY SumClientAssumption, LenProperties DEF UnitsRead
<1>2. up' = [up EXCEPT ![c] = SubSeq(up[c], n + 1, Len(up[c]))]
  BY DEF Consume
<1>3. /\ SubSeq(up[c], n + 1, Len(up[c])) \in Seq(Int)
      /\ \A k \in 1 .. Len(SubSeq(up[c], n + 1, Len(up[c]))) :
           /\ SubSeq(up[c], n + 1, Len(up[c]))[k] = up[c][n + k]
           /\ n + k \in 1 .. Len(up[c])
  <2> HIDE DEF n
  <2> QED
    BY <1>1
<1> HIDE DEF n
<1> QED
  BY <1>2, <1>3

-----------------------------------------------------------------------------
(* Types.                                                                  *)

\* Writing a unit keeps the types of what it changes.
LEMMA WriteType ==
  ASSUME SumClientTypeOK, NEW c \in Clients, NEW unit \in Int,
         NEW next \in Connected, Write(c, unit, next)
  PROVE  /\ client' \in [Clients -> ClientStates]
         /\ up' \in [Clients -> Seq(Int)]
<1>1. Append(up[c], unit) \in Seq(Int)
  BY DEF SumClientTypeOK
<1>2. next \in ClientStates /\ "killed" \in ClientStates
  BY DEF ClientStates
<1> HIDE DEF ClientStates
<1>3. CASE srvEnd[c] = "closed"
  BY <1>2, <1>3 DEF Write, SumClientTypeOK
<1>4. CASE srvEnd[c] # "closed"
  BY <1>1, <1>2, <1>4 DEF Write, SumClientTypeOK
<1> QED
  BY <1>3, <1>4

LEMMA ClientType ==
  ASSUME SumClientTypeOK, NEW c \in Clients, ClientStep(c)
  PROVE  SumClientTypeOK'
<1> USE DEF SumClientTypeOK, ClientStates, Connected
<1>1. CASE Connect(c)
  BY <1>1 DEF Connect
<1>2. CASE ConnectRefused(c)
  BY <1>2 DEF ConnectRefused, netVars
<1>3. CASE SendNumber(c)
  <2>1. PICK n \in Summands \cup {0} :
          /\ Write(c, n, IF n = 0 THEN "request" ELSE "sending")
          /\ typed' = IF n = 0 THEN typed ELSE [typed EXCEPT ![c] = Append(@, n)]
    BY <1>3 DEF SendNumber
  <2>2. n \in Int
    BY SumClientAssumption
  <2>3. /\ client' \in [Clients -> ClientStates]
        /\ up' \in [Clients -> Seq(Int)]
    BY <2>1, <2>2, WriteType DEF Connected
  <2>4. typed' \in [Clients -> Seq(Int)]
    <3>1. Append(typed[c], n) \in Seq(Int)
      BY <2>2
    <3> QED
      BY <2>1, <3>1
  <2> QED
    BY <1>3, <2>3, <2>4 DEF SendNumber
<1>4. CASE SendRES(c)
  <2>1. /\ client' \in [Clients -> ClientStates]
        /\ up' \in [Clients -> Seq(Int)]
    BY <1>4, WriteType, SumClientAssumption DEF SendRES, Connected
  <2> QED
    BY <1>4, <2>1 DEF SendRES
<1>5. CASE ReadAnswer(c)
  BY <1>5 DEF ReadAnswer
<1>6. CASE Crash(c)
  BY <1>6 DEF Crash, netVars
<1> QED
  BY <1>1, <1>2, <1>3, <1>4, <1>5, <1>6 DEF ClientStep

LEMMA ServerGoneType ==
  ASSUME SumClientTypeOK, ServerGone
  PROVE  /\ listening' \in BOOLEAN
         /\ backlog' \in Seq(Clients)
         /\ srvEnd' \in [Clients -> {"none", "open", "closed"}]
<1>1. backlog' \in Seq(Clients)
  BY DEF ServerGone
<1>2. srvEnd' \in [Clients -> {"none", "open", "closed"}]
  BY DEF ServerGone, SumClientTypeOK
<1> QED
  BY <1>1, <1>2 DEF ServerGone

-----------------------------------------------------------------------------
(* The service.                                                            *)

\* What a client's step needs to be seen by the service as a new connection
\* or not at all.
ServiceInv ==
  /\ \A c \in Clients : client[c] = "start" => srvEnd[c] = "none"
  /\ \A c \in Clients : answer[c] # <<>> => client[c] = "done"

LEMMA ClientImplements ==
  ASSUME SumClientTypeOK, ServiceInv, NEW c \in Clients, ClientStep(c),
         UNCHANGED credited
  PROVE  ServiceInv' /\ (Service!Join(c) \/ UNCHANGED Service!serviceVars)
<1> USE DEF SumClientTypeOK, Service!serviceVars, Told
<1>1. CASE Connect(c)
  BY <1>1 DEF Connect, Service!Join, ServiceInv
<1>2. CASE ReadAnswer(c)
  <2>1. /\ client[c] = "waiting" /\ answer[c] = <<>>
        /\ client' = [client EXCEPT ![c] = "done"]
        /\ answer' = [answer EXCEPT ![c] = down[c]]
        /\ down' = [down EXCEPT ![c] = <<>>]
        /\ UNCHANGED srvEnd
    BY <1>2 DEF ReadAnswer, ServiceInv
  <2>2. \A d \in Clients : Told(d)' = Told(d)
    BY <2>1
  <2> QED
    BY <2>1, <2>2 DEF ServiceInv
<1>3. CASE ConnectRefused(c) \/ SendNumber(c) \/ SendRES(c) \/ Crash(c)
  <2>1. UNCHANGED <<srvEnd, down, answer>>
    BY <1>3 DEF ConnectRefused, SendNumber, SendRES, Crash, netVars
  <2>2. /\ \A d \in Clients : d # c => client'[d] = client[d]
        /\ client[c] # "done" /\ client'[c] # "start"
    BY <1>3 DEF ConnectRefused, SendNumber, SendRES, Crash, Write, Connected
  <2> QED
    BY <2>1, <2>2 DEF ServiceInv
<1> QED
  BY <1>1, <1>2, <1>3 DEF ClientStep

\* The end of the server process stops the service.
LEMMA GoneImplements ==
  ASSUME ServerGone, UNCHANGED <<credited, down, answer>>
  PROVE  Service!Stop
  BY DEF ServerGone, Service!Stop, Told

-----------------------------------------------------------------------------
(* Paced users.                                                            *)

\* What a client's step needs to know of connections that are not made yet,
\* and of answers.
BeforeInv ==
  /\ \A c \in Clients : client[c] = "start" =>
       srvEnd[c] = "none" /\ credited[c] = 0 /\ down[c] = <<>>
  /\ \A c \in Clients : srvEnd[c] = "none" => client[c] \in {"start", "refused"}
  /\ \A c \in Clients : answer[c] # <<>> => client[c] = "done"

LEMMA InitPaced ==
  ASSUME SumClientInit
  PROVE  PacedInv /\ \A c \in Clients : ~ZeroWasRead(c)
  BY DEF SumClientInit, PacedInv, ZeroWasRead, Told

\* The units of a stream after one more was written to it.
LEMMA FirstUnit ==
  ASSUME NEW s \in Seq(Int), NEW n \in Int
  PROVE  /\ Append(s, n) # <<>>
         /\ Append(s, n)[1] = IF s = <<>> THEN n ELSE s[1]
         /\ s = <<>> => Append(s, n) = <<n>>
<1>1. Append(s, n) # <<>>
  BY AppendUnit
<1>2. CASE s = <<>>
  BY <1>1, <1>2
<1>3. CASE s # <<>>
  <2>1. 1 \in 1 .. Len(s) /\ Append(s, n)[1] = s[1]
    BY <1>3
  <2> QED
    BY <1>1, <1>3, <2>1
<1> QED
  BY <1>2, <1>3

\* What a client that sends does to the facts about paced users.
LEMMA SendPaced ==
  ASSUME SumClientTypeOK, credited \in [Clients -> Int], Paced, PacedInv, BeforeInv,
         NEW c \in Clients, SendNumber(c), UNCHANGED credited
  PROVE  PacedInv' /\ \A d \in Clients : ZeroWasRead(d)' => ZeroWasRead(d)
<1>1. PICK n \in Summands \cup {0} :
        /\ Write(c, n, IF n = 0 THEN "request" ELSE "sending")
        /\ typed' = IF n = 0 THEN typed ELSE [typed EXCEPT ![c] = Append(@, n)]
  BY DEF SendNumber
<1>2. /\ client[c] = "sending" /\ up[c] = <<>> /\ n \in Int
      /\ UNCHANGED <<srvEnd, down, answer, credited>>
  BY SumClientAssumption DEF SendNumber
<1>3. /\ \A d \in Clients : d # c =>
           client'[d] = client[d] /\ up'[d] = up[d] /\ typed'[d] = typed[d]
      /\ \A d \in Clients : Told(d)' = Told(d)
  BY <1>1, <1>2 DEF Write, SumClientTypeOK, Told
<1>4. CASE srvEnd[c] = "closed"
  <2>1. client'[c] = "killed"
    BY <1>1, <1>4 DEF Write, SumClientTypeOK
  <2> QED
    BY <1>2, <1>3, <2>1 DEF PacedInv, ZeroWasRead
<1>5. CASE srvEnd[c] # "closed"
  <2>1. /\ srvEnd[c] = "open"
        /\ up'[c] = Append(<<>>, n) /\ client'[c] = IF n = 0 THEN "request" ELSE "sending"
        /\ typed'[c] = IF n = 0 THEN typed[c] ELSE Append(typed[c], n)
    BY <1>1, <1>2, <1>5 DEF Write, SumClientTypeOK, BeforeInv
  <2>2. up'[c] = <<n>> /\ up'[c] # <<>> /\ up'[c][1] = n
    BY <2>1
  <2>3. credited[c] = SumOf(typed[c])
    <3>1. \/ credited[c] = SumOf(typed[c])
          \/ \E k \in Summands : up[c] = <<k>>
      BY <1>2, <2>1 DEF PacedInv
    <3>2. \A k \in Summands : <<k>> # <<>>
      OBVIOUS
    <3> QED
      BY <1>2, <3>1, <3>2
  <2>4. CASE n = 0
    BY <1>2, <1>3, <2>1, <2>2, <2>3, <2>4 DEF PacedInv, ZeroWasRead
  <2>5. CASE n # 0
    <3>1. n \in Summands /\ IntAdd(credited'[c], n) = SumOf(typed'[c])
      BY <1>2, <2>1, <2>3, <2>5, SumOfAppend DEF SumClientTypeOK
    <3>2. client'[c] = "sending"
      BY <2>1, <2>5
    <3> QED
      BY <1>2, <1>3, <2>1, <2>2, <3>1, <3>2 DEF PacedInv, ZeroWasRead
  <2> QED
    BY <2>4, <2>5
<1> QED
  BY <1>4, <1>5

\* A client's step keeps them: a number is sent when nothing is unread, and
\* nothing is sent before a 0 that is unread.
LEMMA ClientPaced ==
  ASSUME SumClientTypeOK, credited \in [Clients -> Int], Paced, PacedInv, BeforeInv,
         NEW c \in Clients, ClientStep(c), UNCHANGED credited
  PROVE  PacedInv' /\ \A d \in Clients : ZeroWasRead(d)' => ZeroWasRead(d)
<1>1. CASE Connect(c)
  <2>1. /\ client[c] = "start" /\ client' = [client EXCEPT ![c] = "sending"]
        /\ srvEnd' = [srvEnd EXCEPT ![c] = "open"]
        /\ UNCHANGED <<up, typed, down, answer, credited>>
    BY <1>1 DEF Connect
  <2>2. up[c] = <<>> /\ typed[c] = <<>> /\ credited[c] = SumOf(typed[c])
    BY <2>1, SumOfEmpty DEF PacedInv, BeforeInv
  <2>3. \A d \in Clients : Told(d)' = Told(d)
    BY <2>1 DEF Told
  <2> QED
    BY <2>1, <2>2, <2>3 DEF PacedInv, ZeroWasRead, SumClientTypeOK
<1>2. CASE SendNumber(c)
  BY <1>2, SendPaced
<1>3. CASE SendRES(c)
  <2>1. /\ client[c] = "request" /\ Write(c, RES_DATA, "waiting")
        /\ UNCHANGED <<srvEnd, down, typed, answer>>
    BY <1>3 DEF SendRES
  <2>2. /\ \A d \in Clients : d # c => client'[d] = client[d] /\ up'[d] = up[d]
        /\ \A d \in Clients : Told(d)' = Told(d)
    BY <2>1 DEF Write, SumClientTypeOK, Told
  <2>3. \/ client'[c] = "killed"
        \/ client'[c] = "waiting" /\ up'[c] = Append(up[c], RES_DATA)
    BY <2>1 DEF Write, SumClientTypeOK
  <2>4. up[c] # <<>> =>
          Append(up[c], RES_DATA) # <<>> /\ Append(up[c], RES_DATA)[1] = up[c][1]
    BY FirstUnit, SumClientAssumption DEF SumClientTypeOK
  <2>5. \A d \in Clients : ZeroWasRead(d)' => ZeroWasRead(d)
    BY <2>1, <2>2, <2>3, <2>4 DEF ZeroWasRead
  <2>6. PacedInv'
    BY <2>1, <2>2, <2>3 DEF PacedInv
  <2> QED
    BY <2>5, <2>6
<1>4. CASE ReadAnswer(c)
  <2>1. /\ client[c] = "waiting" /\ client' = [client EXCEPT ![c] = "done"]
        /\ answer' = [answer EXCEPT ![c] = down[c]]
        /\ down' = [down EXCEPT ![c] = <<>>]
        /\ UNCHANGED <<srvEnd, up, typed>>
    BY <1>4 DEF ReadAnswer
  <2>2. answer[c] = <<>> /\ \A d \in Clients : Told(d)' = Told(d)
    BY <2>1 DEF BeforeInv, Told, SumClientTypeOK
  <2> QED
    BY <2>1, <2>2 DEF PacedInv, ZeroWasRead, SumClientTypeOK
<1>5. CASE ConnectRefused(c) \/ Crash(c)
  <2>1. /\ client' = [client EXCEPT ![c] = client'[c]]
        /\ client'[c] \in {"refused", "killed"}
        /\ UNCHANGED <<srvEnd, up, typed, down, answer>>
    BY <1>5 DEF ConnectRefused, Crash, netVars, SumClientTypeOK
  <2>2. \A d \in Clients : Told(d)' = Told(d)
    BY <2>1 DEF Told
  <2> QED
    BY <2>1, <2>2 DEF PacedInv, ZeroWasRead, SumClientTypeOK
<1> QED
  BY <1>1, <1>2, <1>3, <1>4, <1>5 DEF ClientStep

\* A server's read of an open connection that was told nothing, and whose 0
\* was not read before, adds the one number that is unread, or reads the 0.
LEMMA ReadPaced ==
  ASSUME SumClientTypeOK, credited \in [Clients -> Int], Paced, PacedInv,
         NEW c \in Clients, srvEnd[c] = "open", client[c] # "start",
         Told(c) = <<>>, Readable(c), ~ZeroWasRead(c),
         Consume(c), UNCHANGED <<client, typed, answer, srvEnd, down>>,
         \/ DataRead(c) = 0 /\ UNCHANGED credited
         \/ /\ DataRead(c) # 0
            /\ credited' = [credited EXCEPT ![c] = IntAdd(@, DataRead(c))]
  PROVE  /\ PacedInv'
         /\ \A d \in Clients : ZeroWasRead(d)' => ZeroWasRead(d) \/ d = c
         /\ DataRead(c) = 0 => client[c] # "sending"
         /\ DataRead(c) # 0 => ~ZeroWasRead(c)'
<1>1. /\ \A d \in Clients : d # c => up'[d] = up[d] /\ credited'[d] = credited[d]
      /\ \A d \in Clients : Told(d)' = Told(d)
  BY ConsumeSuffix DEF SumClientTypeOK, Told
<1>2. CASE client[c] = "sending"
  <2>1. up[c] # <<>>
    BY <1>2 DEF Readable, Hungup
  <2>2. PICK n \in Summands :
          up[c] = <<n>> /\ IntAdd(credited[c], n) = SumOf(typed[c])
    BY <1>2, <2>1 DEF PacedInv
  <2>3. DataRead(c) = n /\ n # 0
    BY <2>1, <2>2, SumClientAssumption DEF DataRead
  <2>4. up'[c] = <<>>
    <3>1. UnitsRead(c) = 1 /\ Len(up[c]) = 1
      BY <2>2, SumClientAssumption DEF UnitsRead
    <3>2. up'[c] = SubSeq(up[c], 2, 1)
      BY <3>1 DEF Consume, SumClientTypeOK
    <3> QED
      BY <3>2 DEF SumClientTypeOK
  <2>5. credited'[c] = SumOf(typed'[c])
    BY <2>2, <2>3
  <2> QED
    BY <1>1, <1>2, <2>3, <2>4, <2>5 DEF PacedInv, ZeroWasRead
<1>3. CASE client[c] \in {"request", "waiting"}
  <2>1. DataRead(c) = 0
    BY <1>3 DEF ZeroWasRead, DataRead
  <2>2. UNCHANGED credited
    BY <2>1
  <2> QED
    BY <1>1, <1>3, <2>1, <2>2 DEF PacedInv, ZeroWasRead
<1>4. CASE client[c] \notin {"sending", "request", "waiting"}
  BY <1>1, <1>4 DEF PacedInv, ZeroWasRead
<1> QED
  BY <1>2, <1>3, <1>4

\* A server tells a client that has asked the sum it has credited to it.
LEMMA TellPaced ==
  ASSUME SumClientTypeOK, Paced, PacedInv,
         NEW c \in Clients, srvEnd[c] = "open", client[c] \notin {"start", "sending"},
         ~Hungup(c), NEW x, down' = [down EXCEPT ![c] = x],
         UNCHANGED <<client, typed, answer, srvEnd, up, credited>>
  PROVE  PacedInv' /\ \A d \in Clients : ZeroWasRead(d)' => ZeroWasRead(d)
<1>1. client[c] \in {"request", "waiting"}
  BY DEF Hungup, SumClientTypeOK, ClientStates, Connected
<1>2. credited[c] = SumOf(typed[c])
  BY <1>1 DEF PacedInv
<1>3. \A d \in Clients : d # c => Told(d)' = Told(d)
  BY DEF Told, SumClientTypeOK
<1> QED
  BY <1>1, <1>2, <1>3 DEF PacedInv, ZeroWasRead

\* The end of one connection, or of all of them, takes conditions away.
LEMMA EndPaced ==
  ASSUME Paced, PacedInv,
         \A d \in Clients : srvEnd'[d] = "open" => srvEnd[d] = "open",
         UNCHANGED <<client, typed, answer, up, down, credited>>
  PROVE  PacedInv' /\ \A d \in Clients : ZeroWasRead(d)' => ZeroWasRead(d)
<1>1. \A d \in Clients : Told(d)' = Told(d)
  BY DEF Told
<1> QED
  BY <1>1 DEF PacedInv, ZeroWasRead

\* What was told is then the sum.
LEMMA PacedAnswers ==
  ASSUME PacedInv, \A c \in Clients : answer[c] \in {<<>>, <<credited[c]>>},
         \A c \in Clients : answer[c] # <<>> => client[c] = "done"
  PROVE  PacedAnswerIsSum
<1>1. ASSUME Paced, NEW c \in Clients, answer[c] # <<>>
      PROVE  answer[c] = <<SumOf(typed[c])>>
  <2>1. client[c] = "done" /\ Told(c) # <<>> /\ answer[c] = <<credited[c]>>
    BY <1>1 DEF Told
  <2> QED
    BY <1>1, <2>1 DEF PacedInv
<1> QED
  BY <1>1 DEF PacedAnswerIsSum

-----------------------------------------------------------------------------
(* The array of descriptors.                                               *)

\* Overwriting changes at most one slot, and one that held the old value.
LEMMA OverwriteCases ==
  ASSUME NEW monitor, NEW old, NEW fd
  PROVE  \/ Overwrite(monitor, old, fd) = monitor
         \/ \E slot \in Slots :
              /\ monitor[slot] = old
              /\ Overwrite(monitor, old, fd) = [monitor EXCEPT ![slot] = fd]
  BY DEF Overwrite, IsFirst

\* A descriptor that is in one slot only is removed from that slot.
LEMMA RemoveOnly ==
  ASSUME NEW monitor, NEW fd, NEW slot \in Slots,
         monitor[slot] = fd,
         \A other \in Slots : other # slot => monitor[other] # fd
  PROVE  remove_monitor_fd_set(monitor, fd) = [monitor EXCEPT ![slot] = Free]
<1>1. \A s \in Slots : IsFirst(monitor, fd, s) <=> s = slot
  BY DEF IsFirst, Slots
<1> QED
  BY <1>1 DEF remove_monitor_fd_set, Overwrite

-----------------------------------------------------------------------------
(* Type correctness.                                                       *)

LEMMA InitType == Init => TypeOK
<1> SUFFICES ASSUME Init PROVE TypeOK
  OBVIOUS
<1>1. SumClientTypeOK
  BY DEF Init, SumClientInit, SumClientTypeOK, ClientStates
<1>2. {CONSOLE, LISTEN} \subseteq Fds /\ 0 .. LISTEN \subseteq Fds
  BY MultiplexServerAssumption DEF Fds, CONSOLE, LISTEN
<1>3. init_monitor_fd_set \in [Slots -> Fds \cup {Free}]
  BY DEF init_monitor_fd_set
<1>4. \A fd \in Fds, m \in [Slots -> Fds \cup {Free}] :
        add_monitor_fd_set(m, fd) \in [Slots -> Fds \cup {Free}]
  BY OverwriteCases DEF add_monitor_fd_set
<1>5. monitor_fd_set \in [Slots -> Fds \cup {Free}]
  BY <1>2, <1>3, <1>4 DEF Init
<1>6. 0 \in Slots
  BY MonitorSetAssumption DEF Slots
<1> QED
  BY <1>1, <1>2, <1>5, <1>6 DEF Init, TypeOK

LEMMA NextType == TypeOK /\ [Next]_vars => TypeOK'
<1> SUFFICES ASSUME TypeOK, [Next]_vars PROVE TypeOK'
  OBVIOUS
<1> USE DEF TypeOK
<1>1. CASE Select
  <2>1. \A fd \in refresh_fd_set(monitor_fd_set) : fd \in Fds
    BY DEF refresh_fd_set
  <2>2. readfds' \subseteq Fds
    BY <1>1, <2>1 DEF Select, Watched
  <2> QED
    BY <1>1, <2>2 DEF Select, SumClientTypeOK, fdVars, clientVars, netVars
<1>2. CASE AcceptConnection
  <2>1. CASE \E fd \in Fds \ opened : Accept(fd)
    <3>1. PICK fd \in Fds \ opened : Accept(fd)
      BY <2>1
    <3>2. Head(backlog) \in Clients /\ Tail(backlog) \in Seq(Clients)
      BY <1>2 DEF AcceptConnection, SumClientTypeOK
    <3>3. monitor_fd_set' \in [Slots -> Fds \cup {Free}]
      BY <3>1, OverwriteCases DEF Accept, add_monitor_fd_set
    <3> QED
      BY <1>2, <3>1, <3>2, <3>3 DEF AcceptConnection, Accept, SumClientTypeOK,
         clientVars
  <2>2. CASE Die /\ UNCHANGED <<monitor_fd_set, owner>>
    BY <1>2, <2>2, ServerGoneType DEF AcceptConnection, Die, SumClientTypeOK,
       clientVars
  <2> QED
    BY <1>2, <2>1, <2>2 DEF AcceptConnection
<1>3. CASE ReadConsole
  BY <1>3 DEF ReadConsole, SumClientTypeOK, fdVars, clientVars, netVars
<1>4. CASE BeginScan
  BY <1>4, MonitorSetAssumption
     DEF BeginScan, SumClientTypeOK, fdVars, clientVars, netVars, Slots
<1>5. CASE ReadClient
  <2> DEFINE c(slot) == owner[monitor_fd_set[slot]]
  <2>1. PICK slot \in ReadySlots :
          /\ c(slot) # NoClient /\ Readable(c(slot))
          /\ Consume(c(slot))
          /\ IF DataRead(c(slot)) = 0
               THEN /\ pc' = "result"
                    /\ i' = slot
                    /\ UNCHANGED <<client_result, credited>>
               ELSE /\ client_result' = [client_result EXCEPT
                         ![slot] = IntAdd(@, DataRead(c(slot)))]
                    /\ credited' = [credited EXCEPT
                         ![c(slot)] = IntAdd(@, DataRead(c(slot)))]
                    /\ i' = slot + 1
                    /\ UNCHANGED pc
    BY <1>5 DEF ReadClient
  <2>2. slot \in Slots /\ monitor_fd_set[slot] \in Fds
    BY DEF ReadySlots, IsReady
  <2>3. c(slot) \in Clients
    BY <2>1, <2>2
  <2>4. DataRead(c(slot)) \in Int
    BY <2>3 DEF DataRead, SumClientTypeOK
  <2>5. up' \in [Clients -> Seq(Int)]
    BY <2>1, <2>3, ConsumeSuffix DEF SumClientTypeOK
  <2>6. /\ IntAdd(client_result[slot], DataRead(c(slot))) \in Int
        /\ IntAdd(credited[c(slot)], DataRead(c(slot))) \in Int
    BY <2>2, <2>3, <2>4, IntAddType
  <2>7. slot + 1 \in Slots \cup {MAX_CLIENT_SUPPORTED}
    BY <2>2, MonitorSetAssumption DEF Slots
  <2>8. SumClientTypeOK'
    BY <1>5, <2>5 DEF ReadClient, SumClientTypeOK, clientVars
  <2> HIDE DEF c
  <2>9. /\ client_result' \in [Slots -> Int]
        /\ credited' \in [Clients -> Int]
        /\ i' \in Slots \cup {MAX_CLIENT_SUPPORTED}
        /\ \/ pc' = "result" /\ i' \in Slots
           \/ pc' = "scan"
    BY <1>5, <2>1, <2>2, <2>3, <2>6, <2>7 DEF ReadClient
  <2> QED
    BY <1>5, <2>8, <2>9 DEF ReadClient, fdVars
<1>6. CASE SendResult
  <2>1. CASE Die /\ UNCHANGED down
    BY <1>6, <2>1, ServerGoneType DEF SendResult, Die, SumClientTypeOK, clientVars
  <2>2. CASE /\ down' = [down EXCEPT ![owner[comm_socket_fd]] =
                            Append(@, client_result[i])]
             /\ pc' = "close"
             /\ UNCHANGED <<opened, listening, backlog, srvEnd>>
    <3>1. i \in Slots /\ client_result[i] \in Int
      BY <1>6 DEF SendResult
    <3>2. \A c \in Clients : Append(down[c], client_result[i]) \in Seq(Int)
      BY <3>1 DEF SumClientTypeOK
    <3>3. down' \in [Clients -> Seq(Int)]
      BY <2>2, <3>2 DEF SumClientTypeOK
    <3> QED
      BY <1>6, <2>2, <3>1, <3>3 DEF SendResult, SumClientTypeOK, clientVars
  <2> QED
    BY <1>6, <2>1, <2>2 DEF SendResult
<1>7. CASE CloseClient
  <2>1. i \in Slots
    BY <1>7 DEF CloseClient
  <2>2. monitor_fd_set' \in [Slots -> Fds \cup {Free}]
    BY <1>7, OverwriteCases DEF CloseClient, remove_monitor_fd_set
  <2>3. SumClientTypeOK'
    BY <1>7 DEF CloseClient, SumClientTypeOK, clientVars, comm_socket_fd
  <2>4. i' \in Slots \cup {MAX_CLIENT_SUPPORTED}
    BY <1>7, <2>1, MonitorSetAssumption DEF CloseClient, Slots
  <2>5. /\ client_result' \in [Slots -> Int]
        /\ owner' \in [Fds -> Clients \cup {NoClient}]
        /\ opened' \subseteq Fds
    <3>1. owner' = [owner EXCEPT ![comm_socket_fd] = NoClient]
      BY <1>7 DEF CloseClient
    <3>2. owner' \in [Fds -> Clients \cup {NoClient}]
      BY <3>1
    <3> QED
      BY <1>7, <2>1, <3>2 DEF CloseClient, ClearSum
  <2>6. pc' = "scan" /\ UNCHANGED <<readfds, console, credited>>
    BY <1>7 DEF CloseClient
  <2> QED
    BY <2>2, <2>3, <2>4, <2>5, <2>6
<1>8. CASE EndScan
  BY <1>8 DEF EndScan, SumClientTypeOK, fdVars, clientVars, netVars
<1>9. CASE TypeAtConsole
  BY <1>9, MultiplexServerAssumption
     DEF TypeAtConsole, SumClientTypeOK, serverVars, clientVars, netVars
<1>10. CASE \E c \in Clients : ClientNext(c)
  BY <1>10, ClientType DEF ClientNext, serverVars
<1>11. CASE UNCHANGED vars
  BY <1>11 DEF vars, serverVars, SumClientTypeOK, clientVars, netVars
<1> QED
  BY <1>1, <1>2, <1>3, <1>4, <1>5, <1>6, <1>7, <1>8, <1>9, <1>10, <1>11
     DEF Next, ServerStep

\* Every variable keeps to its type: in particular main() never indexes its
\* arrays outside their MAX_CLIENT_SUPPORTED slots.
THEOREM TypeCorrect == Spec => []TypeOK
<1>1. Init => TypeOK
  BY InitType
<1>2. TypeOK /\ [Next]_vars => TypeOK'
  BY NextType
<1> QED
  BY <1>1, <1>2, PTL DEF Spec

-----------------------------------------------------------------------------
(* The inductive invariant.                                                *)

LEMMA InitIInv == Init => IInv
<1> SUFFICES ASSUME Init PROVE IInv
  OBVIOUS
<1> USE DEF CONSOLE, LISTEN, Free
<1>1. \A slot \in Slots : init_monitor_fd_set[slot] = Free
  BY DEF init_monitor_fd_set
<1> DEFINE m1 == add_monitor_fd_set(init_monitor_fd_set, CONSOLE)
<1>2. /\ m1 \in [Slots -> {Free, CONSOLE}]
      /\ \A s, t \in Slots : m1[s] = CONSOLE /\ m1[t] = CONSOLE => s = t
  <2>1. init_monitor_fd_set \in [Slots -> {Free}]
    BY DEF init_monitor_fd_set
  <2> QED
    BY <1>1, <2>1, OverwriteCases DEF add_monitor_fd_set
<1>3. monitor_fd_set = add_monitor_fd_set(m1, LISTEN)
  BY DEF Init
<1> HIDE DEF m1
<1>4. /\ \A slot \in Slots : monitor_fd_set[slot] \in {Free, CONSOLE, LISTEN}
      /\ \A s, t \in Slots :
           monitor_fd_set[s] = monitor_fd_set[t] /\ s # t => monitor_fd_set[s] = Free
  BY <1>2, <1>3, OverwriteCases DEF add_monitor_fd_set
<1>5. ConnectionsInv
  BY DEF Init, SumClientInit, ConnectionsInv
<1>6. MonitorInv /\ FreeSlotsAreClean
  BY <1>4 DEF Init, MonitorInv, FreeSlotsAreClean
<1>7. MonitoredAreOpen
  BY <1>4 DEF Init, MonitoredAreOpen
<1>8. OwnSumOnly
  BY <1>4 DEF Init, SumClientInit, OwnSumOnly
<1>9. NotYet /\ ZeroEndsSending /\ NotCutOff
  BY DEF Init, SumClientInit, NotYet, ZeroEndsSending, NotCutOff
<1>10. ScanInv
  BY DEF Init, ScanInv
<1> QED
  BY <1>5, <1>6, <1>7, <1>8, <1>9, <1>10 DEF IInv

\* A slot that holds a connection while the server runs.
LEMMA OwnedSlot ==
  ASSUME TypeOK, IInv, pc # "dead", NEW slot \in Slots,
         monitor_fd_set[slot] > LISTEN
  PROVE  /\ monitor_fd_set[slot] \in Fds /\ monitor_fd_set[slot] \in opened
         /\ owner[monitor_fd_set[slot]] \in Clients
         /\ owner[monitor_fd_set[slot]] # NoClient
         /\ srvEnd[owner[monitor_fd_set[slot]]] = "open"
         /\ \A other \in Slots : other # slot =>
              /\ monitor_fd_set[other] # monitor_fd_set[slot]
              /\ monitor_fd_set[other] > LISTEN =>
                   owner[monitor_fd_set[other]] # owner[monitor_fd_set[slot]]
  BY DEF TypeOK, IInv, MonitoredAreOpen, ConnectionsInv, LISTEN, Free

LEMMA SelectIInv ==
  ASSUME TypeOK, IInv, Select
  PROVE  IInv'
<1> USE DEF IInv
<1>1. ConnectionsInv' /\ MonitorInv' /\ MonitoredAreOpen' /\ FreeSlotsAreClean'
  BY DEF Select, ConnectionsInv, MonitorInv, MonitoredAreOpen, FreeSlotsAreClean,
         fdVars, netVars
<1>2. OwnSumOnly' /\ NotYet' /\ ZeroEndsSending' /\ NotCutOff'
  BY DEF Select, OwnSumOnly, NotYet, ZeroEndsSending, NotCutOff,
         comm_socket_fd, fdVars, clientVars, netVars
<1>3. ScanInv'
  <2>1. Watched(monitor_fd_set) \subseteq opened
    BY DEF Select, Watched, refresh_fd_set, MonitoredAreOpen
  <2>2. \A fd \in readfds' : FdReadable(fd)
    BY <2>1 DEF Select
  <2>3. \A slot \in Slots : monitor_fd_set[slot] \in readfds'
             /\ monitor_fd_set[slot] > LISTEN =>
          Readable(owner[monitor_fd_set[slot]])
    BY <2>2 DEF FdReadable, LISTEN, CONSOLE
  <2>4. pc' = "dispatch" /\ UNCHANGED <<monitor_fd_set, owner, up, client>>
    BY DEF Select, fdVars, clientVars, netVars
  <2>5. \A slot \in ToCome' : Readable(owner[monitor_fd_set[slot]])'
    BY <2>3, <2>4 DEF ToCome, IsReady, Readable, Hungup
  <2> QED
    BY <2>4, <2>5 DEF ScanInv
<1> QED
  BY <1>1, <1>2, <1>3

LEMMA ReadConsoleIInv ==
  ASSUME TypeOK, IInv, ReadConsole \/ EndScan
  PROVE  IInv'
<1> USE DEF IInv, ReadConsole, EndScan, fdVars, clientVars, netVars
<1>1. ConnectionsInv' /\ MonitorInv' /\ MonitoredAreOpen' /\ FreeSlotsAreClean'
  BY DEF ConnectionsInv, MonitorInv, MonitoredAreOpen, FreeSlotsAreClean
<1>2. OwnSumOnly' /\ NotYet' /\ ZeroEndsSending' /\ NotCutOff'
  BY DEF OwnSumOnly, NotYet, ZeroEndsSending, NotCutOff, comm_socket_fd
<1>3. ScanInv'
  BY DEF ScanInv
<1> QED
  BY <1>1, <1>2, <1>3

LEMMA BeginScanIInv ==
  ASSUME TypeOK, IInv, BeginScan
  PROVE  IInv'
<1> USE DEF IInv, BeginScan, fdVars, clientVars, netVars
<1>1. ConnectionsInv' /\ MonitorInv' /\ MonitoredAreOpen' /\ FreeSlotsAreClean'
  BY DEF ConnectionsInv, MonitorInv, MonitoredAreOpen, FreeSlotsAreClean
<1>2. OwnSumOnly' /\ NotYet' /\ ZeroEndsSending' /\ NotCutOff'
  BY DEF OwnSumOnly, NotYet, ZeroEndsSending, NotCutOff, comm_socket_fd
<1>3. ScanInv'
  BY DEF ScanInv, ToCome, IsReady, Readable, Hungup
<1> QED
  BY <1>1, <1>2, <1>3

\* Once the process is dead the invariant says little.
LEMMA DieIInv ==
  ASSUME TypeOK, IInv, Die,
         UNCHANGED <<monitor_fd_set, client_result, readfds, i, owner, credited,
                     client, answer, up, down>>,
         pc \in {"dispatch", "result"}
  PROVE  IInv'
<1> USE DEF IInv, Die
<1>1. ConnectionsInv' /\ MonitorInv' /\ MonitoredAreOpen' /\ FreeSlotsAreClean'
  BY DEF ConnectionsInv, MonitorInv, MonitoredAreOpen, FreeSlotsAreClean
<1>2. OwnSumOnly' /\ ZeroEndsSending' /\ NotCutOff'
  BY DEF OwnSumOnly, ZeroEndsSending, NotCutOff
<1>3. NotYet'
  BY DEF NotYet, ServerGone, TypeOK, SumClientTypeOK
<1>4. ScanInv'
  BY DEF ScanInv
<1> QED
  BY <1>1, <1>2, <1>3, <1>4

LEMMA AcceptIInv ==
  ASSUME TypeOK, IInv, AcceptConnection
  PROVE  IInv'
<1>1. CASE Die /\ UNCHANGED <<monitor_fd_set, owner>>
  BY <1>1, DieIInv DEF AcceptConnection, clientVars
<1>2. CASE \E fd \in Fds \ opened : Accept(fd)
  <2> DEFINE c == Head(backlog)
  <2>1. PICK fd \in Fds \ opened : Accept(fd)
    BY <1>2
  <2>2. /\ pc # "dead" /\ pc' = "select" /\ backlog # <<>>
        /\ opened' = opened \cup {fd}
        /\ owner' = [owner EXCEPT ![fd] = c]
        /\ backlog' = Tail(backlog)
        /\ monitor_fd_set' = add_monitor_fd_set(monitor_fd_set, fd)
        /\ UNCHANGED <<srvEnd, client_result, credited, client, answer, up, down>>
    BY <2>1 DEF AcceptConnection, Accept, clientVars
  <2>3. /\ c \in Clients /\ c = backlog[1] /\ 1 \in 1 .. Len(backlog)
        /\ Len(Tail(backlog)) \in Nat
        /\ \A k \in 1 .. Len(Tail(backlog)) :
             /\ Tail(backlog)[k] = backlog[k + 1]
             /\ k + 1 \in 1 .. Len(backlog)
    BY <2>2 DEF TypeOK, SumClientTypeOK
  <2> HIDE DEF c
  <2>4. /\ fd > LISTEN /\ fd \in Fds /\ fd \notin opened /\ owner[fd] = NoClient
        /\ c # NoClient
    BY <2>2, <2>3, SumClientAssumption
       DEF IInv, ConnectionsInv, LISTEN, Fds, TypeOK
  <2>5. /\ srvEnd[c] = "open" /\ credited[c] = 0
        /\ \A g \in Fds : owner[g] # c
        /\ \A k \in 1 .. Len(backlog) : backlog[k] = c => k = 1
    BY <2>2, <2>3 DEF IInv, ConnectionsInv
  <2>6. \/ monitor_fd_set' = monitor_fd_set
        \/ \E slot \in Slots :
             /\ monitor_fd_set[slot] = Free
             /\ monitor_fd_set' = [monitor_fd_set EXCEPT ![slot] = fd]
    BY <2>2, OverwriteCases DEF add_monitor_fd_set
  <2>7. owner' \in [Fds -> Clients \cup {NoClient}]
        /\ owner'[fd] = c /\ \A g \in Fds : g # fd => owner'[g] = owner[g]
    BY <2>2, <2>3, <2>4 DEF TypeOK
  <2>8. ConnectionsInv'
    <3>1. 0 .. LISTEN \subseteq opened'
      BY <2>2 DEF IInv, ConnectionsInv
    <3>2. ASSUME NEW g \in Fds, owner'[g] # NoClient
          PROVE  /\ g \in opened' /\ g > LISTEN
                 /\ srvEnd'[owner'[g]] = "open"
                 /\ \A other \in Fds : owner'[other] = owner'[g] => other = g
      BY <3>2, <2>2, <2>4, <2>5, <2>7 DEF IInv, ConnectionsInv
    <3>3. ASSUME NEW k \in 1 .. Len(backlog')
          PROVE  /\ srvEnd'[backlog'[k]] = "open"
                 /\ credited'[backlog'[k]] = 0
                 /\ \A g \in Fds : owner'[g] # backlog'[k]
                 /\ \A m \in 1 .. Len(backlog') : backlog'[m] = backlog'[k] => m = k
      <4>1. backlog'[k] = backlog[k + 1] /\ k + 1 \in 1 .. Len(backlog)
        BY <2>2, <2>3
      <4>2. \A m \in 1 .. Len(backlog') :
              backlog'[m] = backlog[m + 1] /\ m + 1 \in 1 .. Len(backlog)
        BY <2>2, <2>3
      <4>3. backlog[k + 1] # c
        BY <4>1, <2>5
      <4> QED
        BY <4>1, <4>2, <4>3, <2>2, <2>7 DEF IInv, ConnectionsInv
    <3> QED
      BY <3>1, <3>2, <3>3 DEF ConnectionsInv
  <2>9. MonitorInv' /\ FreeSlotsAreClean'
    BY <2>2, <2>4, <2>6 DEF IInv, MonitorInv, FreeSlotsAreClean, TypeOK,
       LISTEN, CONSOLE, Free
  <2>10. MonitoredAreOpen'
    <3>1. \A slot \in Slots : monitor_fd_set[slot] # fd
      BY <2>2, <2>4 DEF IInv, MonitoredAreOpen, Free, LISTEN
    <3>2. ASSUME NEW slot \in Slots, monitor_fd_set'[slot] # Free
          PROVE  /\ monitor_fd_set'[slot] \in opened'
                 /\ monitor_fd_set'[slot] > LISTEN =>
                      owner'[monitor_fd_set'[slot]] # NoClient
      <4>1. CASE monitor_fd_set'[slot] = fd
        BY <4>1, <2>2, <2>4, <2>7
      <4>2. CASE monitor_fd_set'[slot] # fd
        <5>1. monitor_fd_set'[slot] = monitor_fd_set[slot]
          BY <4>2, <2>6 DEF TypeOK
        <5>2. /\ monitor_fd_set[slot] \in opened
              /\ monitor_fd_set[slot] > LISTEN =>
                   owner[monitor_fd_set[slot]] # NoClient
          BY <3>2, <5>1, <2>2 DEF IInv, MonitoredAreOpen
        <5> QED
          BY <4>2, <5>1, <5>2, <2>2, <2>7 DEF TypeOK
      <4> QED
        BY <4>1, <4>2
    <3>3. \A s, t \in Slots :
            monitor_fd_set'[s] = monitor_fd_set'[t] /\ s # t =>
              monitor_fd_set'[s] = Free
      BY <2>2, <2>6, <3>1 DEF IInv, MonitoredAreOpen, TypeOK
    <3> QED
      BY <3>2, <3>3 DEF MonitoredAreOpen
  <2>11. OwnSumOnly'
    <3>1. \A slot \in Slots : monitor_fd_set[slot] # fd
      BY <2>2, <2>4 DEF IInv, MonitoredAreOpen, Free, LISTEN
    <3>2. ASSUME NEW slot \in Slots, monitor_fd_set'[slot] > LISTEN
          PROVE  client_result'[slot] = credited'[owner'[monitor_fd_set'[slot]]]
      <4>1. CASE monitor_fd_set'[slot] = monitor_fd_set[slot]
        <5>1. monitor_fd_set[slot] \in Fds
          BY <3>2, <4>1, <2>2, OwnedSlot
        <5> QED
          BY <3>1, <3>2, <4>1, <5>1, <2>2, <2>7 DEF IInv, OwnSumOnly
      <4>2. CASE monitor_fd_set'[slot] # monitor_fd_set[slot]
        <5>1. monitor_fd_set[slot] = Free /\ monitor_fd_set'[slot] = fd
          BY <4>2, <2>6 DEF TypeOK
        <5>2. client_result[slot] = 0
          BY <5>1 DEF IInv, FreeSlotsAreClean
        <5> QED
          BY <5>1, <5>2, <2>2, <2>5, <2>7
      <4> QED
        BY <4>1, <4>2
    <3> QED
      BY <3>2, <2>2 DEF IInv, OwnSumOnly
  <2>12. NotYet'
    BY <2>2 DEF AcceptConnection, IInv, NotYet
  <2>13. ZeroEndsSending' /\ NotCutOff' /\ ScanInv'
    BY <2>2 DEF IInv, ZeroEndsSending, NotCutOff, ScanInv
  <2> QED
    BY <2>8, <2>9, <2>10, <2>11, <2>12, <2>13 DEF IInv
<1> QED
  BY <1>1, <1>2 DEF AcceptConnection

LEMMA SendResultIInv ==
  ASSUME TypeOK, IInv, SendResult
  PROVE  IInv'
<1> DEFINE c == owner[comm_socket_fd]
<1>1. CASE Die /\ UNCHANGED down
  BY <1>1, DieIInv DEF SendResult, clientVars
<1>2. CASE /\ down' = [down EXCEPT ![c] = Append(@, client_result[i])]
           /\ pc' = "close"
           /\ UNCHANGED <<opened, listening, backlog, srvEnd>>
  <2>1. /\ pc = "result" /\ i \in Slots
        /\ UNCHANGED <<monitor_fd_set, client_result, readfds, i, owner,
                       credited, client, answer, up>>
    BY DEF SendResult, TypeOK, clientVars
  <2>2. comm_socket_fd > LISTEN
    BY <2>1 DEF IInv, ScanInv
  <2>3. c \in Clients /\ srvEnd[c] = "open" /\ client_result[i] = credited[c]
    BY <2>1, <2>2, OwnedSlot DEF comm_socket_fd, IInv, OwnSumOnly
  <2>4. down[c] = <<>> /\ answer[c] = <<>>
    BY <2>1, <2>3 DEF IInv, NotYet
  <2>5. down' = [down EXCEPT ![c] = <<credited[c]>>]
    BY <1>2, <2>3, <2>4
  <2>6. comm_socket_fd' = comm_socket_fd /\ owner'[comm_socket_fd'] = c
    BY <2>1 DEF comm_socket_fd
  <2> HIDE DEF c
  <2>7. \A d \in Clients : down'[d] = IF d = c THEN <<credited[c]>> ELSE down[d]
    BY <2>3, <2>5 DEF TypeOK, SumClientTypeOK
  <2>8. ConnectionsInv' /\ MonitorInv' /\ MonitoredAreOpen' /\ FreeSlotsAreClean'
    BY <1>2, <2>1 DEF IInv, ConnectionsInv, MonitorInv, MonitoredAreOpen,
       FreeSlotsAreClean
  <2>9. OwnSumOnly'
    BY <2>1, <2>4, <2>7 DEF IInv, OwnSumOnly
  <2>10. NotYet'
    BY <1>2, <2>1, <2>3, <2>6, <2>7 DEF IInv, NotYet
  <2>11. ZeroEndsSending' /\ NotCutOff'
    BY <1>2, <2>1 DEF IInv, ZeroEndsSending, NotCutOff
  <2>12. ScanInv'
    <3>1. UNCHANGED ToCome \/ ToCome' \subseteq ToCome
      BY <1>2, <2>1 DEF ToCome, IsReady
    <3>2. client[owner[comm_socket_fd]] \notin {"start", "sending"}
      BY <2>1 DEF IInv, ScanInv
    <3> QED
      BY <1>2, <2>1, <2>2, <2>6, <3>1, <3>2
         DEF IInv, ScanInv, Readable, Hungup, c
  <2> QED
    BY <2>8, <2>9, <2>10, <2>11, <2>12 DEF IInv
<1> QED
  BY <1>1, <1>2 DEF SendResult

LEMMA CloseClientIInv ==
  ASSUME TypeOK, IInv, CloseClient
  PROVE  IInv'
<1> DEFINE fd == comm_socket_fd
           c  == owner[fd]
<1>1. /\ pc = "close" /\ pc' = "scan" /\ i \in Slots /\ i' = i + 1
      /\ fd = monitor_fd_set[i] /\ fd > LISTEN
      /\ UNCHANGED <<readfds, credited, client, answer, up, down, backlog>>
  BY DEF CloseClient, TypeOK, IInv, ScanInv, clientVars, comm_socket_fd
<1>2. /\ fd \in Fds /\ c \in Clients /\ c # NoClient /\ srvEnd[c] = "open"
      /\ \A other \in Slots : other # i =>
           /\ monitor_fd_set[other] # fd
           /\ monitor_fd_set[other] > LISTEN => owner[monitor_fd_set[other]] # c
  BY <1>1, OwnedSlot
<1>3. /\ opened' = opened \ {fd}
      /\ owner' = [owner EXCEPT ![fd] = NoClient]
      /\ srvEnd' = [srvEnd EXCEPT ![c] = "closed"]
      /\ client_result' = [client_result EXCEPT ![i] = 0]
      /\ monitor_fd_set' = [monitor_fd_set EXCEPT ![i] = Free]
  BY <1>1, <1>2, RemoveOnly DEF CloseClient, ClearSum
<1>4. client[c] \notin {"start", "sending"}
  BY <1>1 DEF IInv, ScanInv
<1> HIDE DEF fd, c
<1>5. /\ \A g \in Fds : owner'[g] = IF g = fd THEN NoClient ELSE owner[g]
      /\ \A d \in Clients : srvEnd'[d] = IF d = c THEN "closed" ELSE srvEnd[d]
      /\ \A s \in Slots :
           /\ client_result'[s] = IF s = i THEN 0 ELSE client_result[s]
           /\ monitor_fd_set'[s] = IF s = i THEN Free ELSE monitor_fd_set[s]
  BY <1>3 DEF TypeOK, SumClientTypeOK
<1>6. /\ owner[fd] = c
      /\ \A g \in Fds : g # fd => owner[g] # c
      /\ \A k \in 1 .. Len(backlog) : backlog[k] # c
  BY <1>1, <1>2 DEF IInv, ConnectionsInv, c, TypeOK
<1>7. ConnectionsInv'
  <2>1. 0 .. LISTEN \subseteq opened'
    BY <1>1, <1>3 DEF IInv, ConnectionsInv, LISTEN
  <2>2. ASSUME NEW g \in Fds, owner'[g] # NoClient
        PROVE  /\ g \in opened' /\ g > LISTEN
               /\ srvEnd'[owner'[g]] = "open"
               /\ \A other \in Fds : owner'[other] = owner'[g] => other = g
    <3>1. g # fd /\ owner'[g] = owner[g] /\ owner[g] # c /\ owner[g] \in Clients
      BY <2>2, <1>5, <1>6 DEF TypeOK
    <3>2. /\ g \in opened /\ g > LISTEN /\ srvEnd[owner[g]] = "open"
          /\ \A other \in Fds : owner[other] = owner[g] => other = g
      BY <3>1, <2>2, <1>1 DEF IInv, ConnectionsInv
    <3> QED
      BY <3>1, <3>2, <2>2, <1>3, <1>5
  <2>3. ASSUME NEW k \in 1 .. Len(backlog)
        PROVE  /\ srvEnd'[backlog[k]] = "open"
               /\ credited[backlog[k]] = 0
               /\ \A g \in Fds : owner'[g] # backlog[k]
               /\ \A m \in 1 .. Len(backlog) : backlog[m] = backlog[k] => m = k
    <3>1. backlog[k] \in Clients /\ backlog[k] # c
      BY <1>6 DEF TypeOK, SumClientTypeOK
    <3> QED
      BY <3>1, <1>1, <1>5, SumClientAssumption DEF IInv, ConnectionsInv
  <2> QED
    BY <1>1, <2>1, <2>2, <2>3 DEF ConnectionsInv
<1>8. MonitorInv' /\ FreeSlotsAreClean'
  BY <1>5 DEF IInv, MonitorInv, FreeSlotsAreClean
<1>9. MonitoredAreOpen'
  <2>1. ASSUME NEW s \in Slots, monitor_fd_set'[s] # Free
        PROVE  /\ monitor_fd_set'[s] \in opened'
               /\ monitor_fd_set'[s] > LISTEN =>
                    owner'[monitor_fd_set'[s]] # NoClient
    <3>1. s # i /\ monitor_fd_set'[s] = monitor_fd_set[s] /\ monitor_fd_set[s] # fd
      BY <2>1, <1>2, <1>5
    <3>2. monitor_fd_set[s] \in Fds
      BY <3>1, <2>1 DEF TypeOK
    <3> QED
      BY <3>1, <3>2, <2>1, <1>1, <1>3, <1>5 DEF IInv, MonitoredAreOpen
  <2>2. \A s, t \in Slots :
          monitor_fd_set'[s] = monitor_fd_set'[t] /\ s # t => monitor_fd_set'[s] = Free
    BY <1>1, <1>5 DEF IInv, MonitoredAreOpen
  <2> QED
    BY <2>1, <2>2 DEF MonitoredAreOpen
<1>10. OwnSumOnly'
  <2>1. ASSUME NEW s \in Slots, monitor_fd_set'[s] > LISTEN
        PROVE  client_result'[s] = credited'[owner'[monitor_fd_set'[s]]]
    <3>1. s # i /\ monitor_fd_set'[s] = monitor_fd_set[s] /\ monitor_fd_set[s] # fd
      BY <2>1, <1>2, <1>5 DEF Free, LISTEN
    <3>2. monitor_fd_set[s] \in Fds
      BY <3>1, <2>1, <1>1, OwnedSlot
    <3> QED
      BY <3>1, <3>2, <2>1, <1>1, <1>5 DEF IInv, OwnSumOnly
  <2> QED
    BY <2>1, <1>1 DEF IInv, OwnSumOnly
<1>11. NotYet'
  BY <1>1, <1>5, <1>4, <1>2 DEF IInv, NotYet, c, fd
<1>12. ZeroEndsSending' /\ NotCutOff'
  BY <1>1, <1>4, <1>5 DEF IInv, ZeroEndsSending, NotCutOff
<1>13. ScanInv'
  <2>1. ASSUME NEW s \in ToCome'
        PROVE  Readable(owner[monitor_fd_set[s]])'
    <3>1. /\ s \in Slots /\ s >= i + 1
          /\ monitor_fd_set'[s] # Free /\ monitor_fd_set'[s] \in readfds
          /\ monitor_fd_set'[s] > LISTEN
      BY <1>1 DEF ToCome, IsReady, Slots
    <3>2. s # i /\ s > i
      BY <1>1, <3>1 DEF Slots
    <3>3. /\ monitor_fd_set'[s] = monitor_fd_set[s] /\ monitor_fd_set[s] # fd
          /\ monitor_fd_set[s] \in Fds
      BY <3>1, <3>2, <1>2, <1>5, <1>1 DEF TypeOK
    <3>4. s \in ToCome
      BY <3>1, <3>2, <3>3 DEF ToCome, IsReady
    <3>5. Readable(owner[monitor_fd_set[s]])
      BY <3>4, <1>1 DEF IInv, ScanInv
    <3> QED
      BY <3>3, <3>5, <1>1, <1>5 DEF Readable, Hungup
  <2> QED
    BY <2>1, <1>1 DEF IInv, ScanInv
<1> QED
  BY <1>7, <1>8, <1>9, <1>10, <1>11, <1>12, <1>13 DEF IInv

LEMMA ReadClientIInv ==
  ASSUME TypeOK, IInv, ReadClient
  PROVE  IInv'
<1>1. PICK slot \in ReadySlots :
        LET c == owner[monitor_fd_set[slot]] IN
        /\ \A other \in ReadySlots : slot <= other
        /\ c # NoClient /\ Readable(c)
        /\ Consume(c)
        /\ IF DataRead(c) = 0
             THEN /\ pc' = "result"
                  /\ i' = slot
                  /\ UNCHANGED <<client_result, credited>>
             ELSE /\ client_result' =
                       [client_result EXCEPT ![slot] = IntAdd(@, DataRead(c))]
                  /\ credited' = [credited EXCEPT ![c] = IntAdd(@, DataRead(c))]
                  /\ i' = slot + 1
                  /\ UNCHANGED pc
  BY DEF ReadClient
<1> DEFINE fd == monitor_fd_set[slot]
           c  == owner[fd]
           x  == IntAdd(credited[c], DataRead(c))
<1>2. /\ pc = "scan" /\ pc' \in {"scan", "result"}
      /\ UNCHANGED <<monitor_fd_set, readfds, opened, owner, client, answer,
                     backlog, srvEnd, down>>
  BY <1>1 DEF ReadClient, fdVars, clientVars
<1>3. /\ slot \in Slots /\ slot >= i /\ IsReady(slot)
      /\ fd \in Fds /\ fd # Free /\ fd \in readfds
  BY DEF ReadySlots, IsReady, TypeOK, Free, Fds
<1>4. fd > LISTEN
  BY <1>2, <1>3 DEF IInv, ScanInv, MonitorInv
<1>5. /\ c \in Clients /\ srvEnd[c] = "open"
      /\ \A other \in Slots : other # slot =>
           /\ monitor_fd_set[other] # fd
           /\ monitor_fd_set[other] > LISTEN => owner[monitor_fd_set[other]] # c
  BY <1>2, <1>3, <1>4, OwnedSlot
<1>6. client_result[slot] = credited[c] /\ down[c] = <<>> /\ answer[c] = <<>>
  BY <1>2, <1>3, <1>4, <1>5 DEF IInv, OwnSumOnly, NotYet
<1>7. /\ \A d \in Clients : d # c => up'[d] = up[d]
      /\ \A k \in 1 .. Len(up'[c]) :
           \E m \in 1 .. Len(up[c]) : up'[c][k] = up[c][m]
  BY <1>1, <1>5, ConsumeSuffix DEF TypeOK, SumClientTypeOK
<1>8. \/ /\ DataRead(c) = 0 /\ pc' = "result" /\ i' = slot
         /\ UNCHANGED <<client_result, credited>>
      \/ /\ pc' = "scan" /\ i' = slot + 1
         /\ \A d \in Clients : credited'[d] = IF d = c THEN x ELSE credited[d]
         /\ \A s \in Slots :
              client_result'[s] = IF s = slot THEN x ELSE client_result[s]
  <2>1. CASE DataRead(c) = 0
    BY <1>1, <2>1
  <2>2. CASE DataRead(c) # 0
    <3>1. /\ client_result' =
               [client_result EXCEPT ![slot] = IntAdd(@, DataRead(c))]
          /\ credited' = [credited EXCEPT ![c] = IntAdd(@, DataRead(c))]
          /\ i' = slot + 1 /\ pc' = pc
      BY <1>1, <2>2
    <3> QED
      BY <3>1, <1>2, <1>3, <1>5, <1>6 DEF TypeOK
  <2> QED
    BY <2>1, <2>2
<1>9. DataRead(c) = 0 => client[c] \notin {"start", "sending"}
  <2>1. CASE up[c] = <<>>
    BY <1>1, <2>1 DEF Readable, Hungup
  <2>2. CASE up[c] # <<>>
    <3>1. 1 \in 1 .. Len(up[c]) /\ DataRead(c) = up[c][1]
      BY <2>2, <1>5 DEF TypeOK, SumClientTypeOK, DataRead
    <3> QED
      BY <3>1, <1>5 DEF IInv, ZeroEndsSending
  <2> QED
    BY <2>1, <2>2
<1>10. \A s \in Slots : s # slot /\ monitor_fd_set[s] > LISTEN =>
         owner[monitor_fd_set[s]] \in Clients \ {c}
  BY <1>2, <1>5, OwnedSlot
<1> HIDE DEF fd, c, x
<1>11. ConnectionsInv'
  <2>1. \A k \in 1 .. Len(backlog) : backlog[k] # c /\ backlog[k] \in Clients
    BY <1>2, <1>3 DEF IInv, ConnectionsInv, c, TypeOK, SumClientTypeOK
  <2>2. \A k \in 1 .. Len(backlog) : credited'[backlog[k]] = credited[backlog[k]]
    BY <1>8, <2>1
  <2> QED
    BY <1>2, <2>2 DEF IInv, ConnectionsInv
<1>12. MonitorInv' /\ MonitoredAreOpen'
  BY <1>2 DEF IInv, MonitorInv, MonitoredAreOpen
<1>13. FreeSlotsAreClean'
  <2>1. fd \notin {Free, CONSOLE, LISTEN}
    BY <1>3, <1>4 DEF CONSOLE, LISTEN, Free
  <2> QED
    BY <1>2, <1>8, <2>1 DEF IInv, FreeSlotsAreClean, fd
<1>14. OwnSumOnly'
  <2>1. ASSUME NEW s \in Slots, monitor_fd_set[s] > LISTEN
        PROVE  client_result'[s] = credited'[owner[monitor_fd_set[s]]]
    <3>1. CASE s = slot
      BY <3>1, <1>5, <1>6, <1>3, <1>8 DEF c, fd
    <3>2. CASE s # slot
      BY <3>2, <2>1, <1>8, <1>10 DEF IInv, OwnSumOnly
    <3> QED
      BY <3>1, <3>2
  <2>2. ASSUME NEW d \in Clients
        PROVE  /\ down[d]   \in {<<>>, <<credited'[d]>>}
               /\ answer[d] \in {<<>>, <<credited'[d]>>}
    BY <1>6, <1>8 DEF IInv, OwnSumOnly
  <2> QED
    BY <1>2, <2>1, <2>2 DEF OwnSumOnly
<1>15. NotYet'
  <2>1. \A d \in Clients : srvEnd[d] = "none" => d # c
    BY <1>5
  <2>2. \A d \in Clients : srvEnd[d] = "none" =>
          credited'[d] = credited[d] /\ up'[d] = up[d]
    BY <2>1, <1>7, <1>8
  <2> QED
    BY <1>2, <2>2 DEF IInv, NotYet
<1>16. ZeroEndsSending'
  BY <1>2, <1>5, <1>7 DEF IInv, ZeroEndsSending
<1>17. NotCutOff'
  BY <1>2 DEF IInv, NotCutOff
<1>18. ScanInv'
  <2>1. ASSUME NEW s \in ToCome'
        PROVE  Readable(owner[monitor_fd_set[s]])'
    <3>1. /\ s \in Slots /\ IsReady(s) /\ monitor_fd_set[s] > LISTEN
          /\ s > slot
      BY <1>2, <1>3, <1>8 DEF ToCome, IsReady, Slots
    <3>2. s \in ToCome /\ s # slot
      BY <3>1, <1>2, <1>3 DEF ToCome, Slots, TypeOK
    <3>3. Readable(owner[monitor_fd_set[s]])
      BY <3>2, <1>2 DEF IInv, ScanInv
    <3>4. owner[monitor_fd_set[s]] \in Clients \ {c}
      BY <3>1, <3>2, <1>10
    <3> QED
      BY <3>3, <3>4, <1>2, <1>7 DEF Readable, Hungup
  <2>2. pc' = "result" =>
          /\ comm_socket_fd' > LISTEN
          /\ client'[owner'[comm_socket_fd']] \notin {"start", "sending"}
    BY <1>2, <1>4, <1>8, <1>9 DEF comm_socket_fd, fd, c
  <2> QED
    BY <1>2, <2>1, <2>2 DEF IInv, ScanInv
<1> QED
  BY <1>11, <1>12, <1>13, <1>14, <1>15, <1>16, <1>17, <1>18 DEF IInv

\* What the steps of a client that change neither its connection nor what it
\* has been answered do to the rest of the state.
LEMMA ClientWrites ==
  ASSUME TypeOK, ZeroEndsSending, NEW c \in Clients,
         SendNumber(c) \/ SendRES(c) \/ Crash(c) \/ ConnectRefused(c)
  PROVE  /\ UNCHANGED <<listening, backlog, srvEnd, down, answer>>
         /\ \A d \in Clients : d # c => client'[d] = client[d] /\ up'[d] = up[d]
         /\ client'[c] # "start"
         /\ client'[c] = "sending" => client[c] = "sending"
         /\ Readable(c) => Readable(c)'
         /\ srvEnd[c] = "none" => up'[c] = up[c] \/ client[c] \in Connected
         /\ client'[c] = "sending" => \A k \in 1 .. Len(up'[c]) : up'[c][k] # 0
<1> USE DEF TypeOK, SumClientTypeOK
<1>1. CASE SendNumber(c)
  <2>1. PICK n \in Summands \cup {0} :
          Write(c, n, IF n = 0 THEN "request" ELSE "sending")
    BY <1>1 DEF SendNumber
  <2>2. n \in Int
    BY SumClientAssumption
  <2>3. client[c] = "sending" /\ UNCHANGED <<listening, backlog, srvEnd, down, answer>>
    BY <1>1 DEF SendNumber
  <2>4. CASE srvEnd[c] = "closed"
    BY <2>1, <2>3, <2>4 DEF Write, Readable, Hungup
  <2>5. CASE srvEnd[c] # "closed"
    <3>1. /\ client' = [client EXCEPT ![c] = IF n = 0 THEN "request" ELSE "sending"]
          /\ up' = [up EXCEPT ![c] = Append(up[c], n)]
      BY <2>1, <2>5 DEF Write
    <3>2. /\ up'[c] = Append(up[c], n) /\ Append(up[c], n) # <<>>
          /\ \A k \in 1 .. Len(Append(up[c], n)) :
               \/ k \in 1 .. Len(up[c]) /\ Append(up[c], n)[k] = up[c][k]
               \/ Append(up[c], n)[k] = n
      BY <2>2, <3>1, AppendUnit
    <3>3. ASSUME client'[c] = "sending", NEW k \in 1 .. Len(up'[c])
          PROVE  up'[c][k] # 0
      <4>1. n # 0
        BY <3>1, <3>3
      <4>2. \A m \in 1 .. Len(up[c]) : up[c][m] # 0
        BY <2>3 DEF ZeroEndsSending
      <4> QED
        BY <3>2, <3>3, <4>1, <4>2
    <3> QED
      BY <2>3, <3>1, <3>2, <3>3 DEF Readable, Connected
  <2> QED
    BY <2>4, <2>5
<1>2. CASE SendRES(c)
  <2>1. /\ client[c] = "request" /\ Write(c, RES_DATA, "waiting")
        /\ UNCHANGED <<listening, backlog, srvEnd, down, answer>>
    BY <1>2 DEF SendRES
  <2>2. Append(up[c], RES_DATA) # <<>>
    BY SumClientAssumption, AppendUnit
  <2> QED
    BY <2>1, <2>2 DEF Write, Readable, Hungup, Connected
<1>3. CASE Crash(c)
  BY <1>3 DEF Crash, netVars, Readable, Hungup
<1>4. CASE ConnectRefused(c)
  BY <1>4 DEF ConnectRefused, netVars, Readable, Hungup
<1> QED
  BY <1>1, <1>2, <1>3, <1>4

LEMMA WritesIInv ==
  ASSUME TypeOK, IInv, NEW c \in Clients,
         SendNumber(c) \/ SendRES(c) \/ Crash(c) \/ ConnectRefused(c),
         UNCHANGED <<serverVars, console>>
  PROVE  IInv'
<1> USE DEF IInv
<1>1. UNCHANGED <<monitor_fd_set, client_result, readfds, pc, i, opened, owner,
                  credited, listening, backlog, srvEnd, down, answer>>
  BY ClientWrites DEF serverVars
<1>2. \A d \in Clients : d # c => client'[d] = client[d] /\ up'[d] = up[d]
  BY ClientWrites
<1>3. ConnectionsInv' /\ MonitorInv' /\ MonitoredAreOpen' /\ FreeSlotsAreClean'
  BY <1>1 DEF ConnectionsInv, MonitorInv, MonitoredAreOpen, FreeSlotsAreClean
<1>4. OwnSumOnly'
  BY <1>1 DEF OwnSumOnly
<1>5. NotYet'
  <2>1. srvEnd[c] = "none" => up'[c] = up[c]
    BY ClientWrites DEF NotYet, Connected
  <2>2. srvEnd[c] = "none" => client'[c] \in {"start", "refused"}
    BY DEF NotYet, SendNumber, SendRES, Crash, ConnectRefused, Connected,
       TypeOK, SumClientTypeOK
  <2> QED
    BY <1>1, <1>2, <2>1, <2>2, ClientWrites DEF NotYet, comm_socket_fd
<1>6. ZeroEndsSending'
  BY <1>2, ClientWrites DEF ZeroEndsSending
<1>7. NotCutOff'
  BY <1>1, <1>2, ClientWrites DEF NotCutOff
<1>8. ScanInv'
  <2>1. ASSUME NEW d, Readable(d), d \in Clients
        PROVE  Readable(d)'
    BY <2>1, <1>2, ClientWrites DEF Readable, Hungup
  <2>2. ToCome' = ToCome
    BY <1>1 DEF ToCome, IsReady
  <2>3. ASSUME pc # "dead", NEW slot \in ToCome
        PROVE  owner[monitor_fd_set[slot]] \in Clients
    BY <2>3, OwnedSlot DEF ToCome
  <2>4. pc \in {"result", "close"} => owner[comm_socket_fd] \in Clients
    BY OwnedSlot DEF ScanInv, TypeOK, comm_socket_fd
  <2>5. \A d \in Clients : client[d] \notin {"start", "sending"} =>
          client'[d] \notin {"start", "sending"}
    BY <1>2, ClientWrites
  <2> QED
    BY <1>1, <2>1, <2>2, <2>3, <2>4, <2>5 DEF ScanInv, comm_socket_fd
<1> QED
  BY <1>3, <1>4, <1>5, <1>6, <1>7, <1>8

LEMMA ConnectIInv ==
  ASSUME TypeOK, IInv, NEW c \in Clients, Connect(c), UNCHANGED <<serverVars, console>>
  PROVE  IInv'
<1> USE DEF IInv
<1>1. /\ client[c] = "start" /\ client' = [client EXCEPT ![c] = "sending"]
      /\ backlog' = Append(backlog, c)
      /\ srvEnd' = [srvEnd EXCEPT ![c] = "open"]
      /\ UNCHANGED <<monitor_fd_set, client_result, readfds, pc, i, opened, owner,
                     credited, up, down, answer>>
  BY DEF Connect, serverVars
<1>2. /\ srvEnd[c] = "none" /\ credited[c] = 0
      /\ down[c] = <<>> /\ answer[c] = <<>> /\ up[c] = <<>>
  BY <1>1 DEF NotYet
<1>3. /\ \A d \in Clients : srvEnd'[d] = IF d = c THEN "open" ELSE srvEnd[d]
      /\ \A d \in Clients : client'[d] = IF d = c THEN "sending" ELSE client[d]
  BY <1>1 DEF TypeOK, SumClientTypeOK
<1>4. /\ Len(backlog) \in Nat /\ Len(backlog') = Len(backlog) + 1
      /\ \A k \in 1 .. Len(backlog) :
           backlog'[k] = backlog[k] /\ backlog[k] \in Clients
      /\ backlog'[Len(backlog) + 1] = c
  BY <1>1 DEF TypeOK, SumClientTypeOK
<1>5. ConnectionsInv'
  <2> SUFFICES ASSUME pc # "dead" PROVE ConnectionsInv'
    BY <1>1 DEF ConnectionsInv
  <2>1. \A fd \in Fds : owner[fd] # NoClient =>
          owner[fd] \in Clients /\ owner[fd] # c /\ srvEnd'[owner[fd]] = "open"
    BY <1>2, <1>3 DEF ConnectionsInv, TypeOK
  <2>2. \A fd \in Fds : owner[fd] # c
    BY <2>1, SumClientAssumption
  <2>3. \A k \in 1 .. Len(backlog) : backlog[k] # c
    BY <1>2 DEF ConnectionsInv
  <2>4. ASSUME NEW k \in 1 .. Len(backlog')
        PROVE  /\ srvEnd'[backlog'[k]] = "open"
               /\ credited[backlog'[k]] = 0
               /\ \A fd \in Fds : owner[fd] # backlog'[k]
               /\ \A m \in 1 .. Len(backlog') : backlog'[m] = backlog'[k] => m = k
    <3>1. \A m \in 1 .. Len(backlog') :
            m \in 1 .. Len(backlog) \/ m = Len(backlog) + 1
      BY <1>4
    <3>2. CASE k \in 1 .. Len(backlog)
      BY <3>1, <3>2, <1>3, <1>4, <2>3 DEF ConnectionsInv
    <3>3. CASE k = Len(backlog) + 1
      BY <3>1, <3>3, <1>2, <1>3, <1>4, <2>2, <2>3
    <3> QED
      BY <3>1, <3>2, <3>3
  <2> QED
    BY <1>1, <2>1, <2>4 DEF ConnectionsInv
<1>6. MonitorInv' /\ MonitoredAreOpen' /\ FreeSlotsAreClean' /\ OwnSumOnly'
  BY <1>1 DEF MonitorInv, MonitoredAreOpen, FreeSlotsAreClean, OwnSumOnly
<1>7. NotYet'
  BY <1>1, <1>2, <1>3 DEF NotYet, comm_socket_fd
<1>8. ZeroEndsSending' /\ NotCutOff'
  BY <1>1, <1>3 DEF ZeroEndsSending, NotCutOff
<1>9. ScanInv'
  <2>1. \A d : Readable(d) /\ d \in Clients => Readable(d)'
    BY <1>1, <1>3 DEF Readable, Hungup
  <2>2. ToCome' = ToCome
    BY <1>1 DEF ToCome, IsReady
  <2>3. ASSUME pc # "dead", NEW slot \in ToCome
        PROVE  owner[monitor_fd_set[slot]] \in Clients
    BY <2>3, OwnedSlot DEF ToCome
  <2>4. pc \in {"result", "close"} => owner[comm_socket_fd] \in Clients
    BY OwnedSlot DEF ScanInv, TypeOK, comm_socket_fd
  <2>5. client[c] = "start"
    BY <1>1
  <2> QED
    BY <1>1, <1>3, <2>1, <2>2, <2>3, <2>4, <2>5 DEF ScanInv, comm_socket_fd
<1> QED
  BY <1>5, <1>6, <1>7, <1>8, <1>9

LEMMA ReadAnswerIInv ==
  ASSUME TypeOK, IInv, NEW c \in Clients, ReadAnswer(c),
         UNCHANGED <<serverVars, console>>
  PROVE  IInv'
<1> USE DEF IInv
<1>1. /\ client[c] = "waiting" /\ client' = [client EXCEPT ![c] = "done"]
      /\ answer' = [answer EXCEPT ![c] = down[c]]
      /\ down' = [down EXCEPT ![c] = <<>>]
      /\ UNCHANGED <<monitor_fd_set, client_result, readfds, pc, i, opened, owner,
                     credited, up, backlog, srvEnd>>
  BY DEF ReadAnswer, serverVars
<1>2. \A d \in Clients :
        /\ client'[d] = IF d = c THEN "done" ELSE client[d]
        /\ answer'[d] = IF d = c THEN down[c] ELSE answer[d]
        /\ down'[d] = IF d = c THEN <<>> ELSE down[d]
  BY <1>1 DEF TypeOK, SumClientTypeOK
<1>3. ConnectionsInv' /\ MonitorInv' /\ MonitoredAreOpen' /\ FreeSlotsAreClean'
  BY <1>1 DEF ConnectionsInv, MonitorInv, MonitoredAreOpen, FreeSlotsAreClean
<1>4. OwnSumOnly'
  BY <1>1, <1>2 DEF OwnSumOnly
<1>5. NotYet'
  BY <1>1, <1>2 DEF NotYet, comm_socket_fd
<1>6. ZeroEndsSending' /\ NotCutOff'
  BY <1>1, <1>2 DEF ZeroEndsSending, NotCutOff
<1>7. ScanInv'
  <2>1. \A d \in Clients : Readable(d) => Readable(d)'
    BY <1>1, <1>2 DEF Readable, Hungup
  <2>2. ToCome' = ToCome
    BY <1>1 DEF ToCome, IsReady
  <2>3. ASSUME pc # "dead", NEW slot \in ToCome
        PROVE  owner[monitor_fd_set[slot]] \in Clients
    BY <2>3, OwnedSlot DEF ToCome
  <2>4. pc \in {"result", "close"} => owner[comm_socket_fd] \in Clients
    BY OwnedSlot DEF ScanInv, TypeOK, comm_socket_fd
  <2> QED
    BY <1>1, <1>2, <2>1, <2>2, <2>3, <2>4 DEF ScanInv, comm_socket_fd
<1> QED
  BY <1>3, <1>4, <1>5, <1>6, <1>7

LEMMA NextIInv == TypeOK /\ IInv /\ [Next]_vars => IInv'
<1> SUFFICES ASSUME TypeOK, IInv, [Next]_vars PROVE IInv'
  OBVIOUS
<1>1. CASE ServerStep
  BY <1>1, SelectIInv, AcceptIInv, ReadConsoleIInv, BeginScanIInv, ReadClientIInv,
     SendResultIInv, CloseClientIInv DEF ServerStep
<1>2. CASE \E c \in Clients : ClientNext(c)
  BY <1>2, WritesIInv, ConnectIInv, ReadAnswerIInv DEF ClientNext, ClientStep
<1>3. CASE TypeAtConsole \/ UNCHANGED vars
  <2>1. UNCHANGED <<serverVars, clientVars, netVars>>
    BY <1>3 DEF TypeAtConsole, vars
  <2>2. ConnectionsInv' /\ MonitorInv' /\ MonitoredAreOpen' /\ FreeSlotsAreClean'
    BY <2>1 DEF IInv, ConnectionsInv, MonitorInv, MonitoredAreOpen,
       FreeSlotsAreClean, serverVars, netVars
  <2>3. OwnSumOnly' /\ NotYet' /\ ZeroEndsSending' /\ NotCutOff'
    BY <2>1 DEF IInv, OwnSumOnly, NotYet, ZeroEndsSending, NotCutOff,
       comm_socket_fd, serverVars, clientVars, netVars
  <2>4. ScanInv'
    BY <2>1 DEF IInv, ScanInv, ToCome, IsReady, Readable, Hungup, comm_socket_fd,
       serverVars, clientVars, netVars
  <2> QED
    BY <2>2, <2>3, <2>4 DEF IInv
<1> QED
  BY <1>1, <1>2, <1>3 DEF Next

-----------------------------------------------------------------------------
(* The safety properties.                                                  *)

\* The inductive invariant holds in every reachable state: it is what makes
\* each of the properties below follow from the code's guards alone.
THEOREM Invariance == Spec => []IInv
<1>1. Init => IInv
  BY InitIInv
<1>2. TypeOK /\ IInv /\ [Next]_vars => IInv'
  BY NextIInv
<1> QED
  BY <1>1, <1>2, TypeCorrect, PTL DEF Spec

\* The array of monitored descriptors only ever names open descriptors, each
\* once.
THEOREM MonitoredStayOpen == Spec => []MonitoredAreOpen
<1>1. IInv => MonitoredAreOpen
  BY DEF IInv
<1> QED
  BY <1>1, Invariance, PTL

\* A slot that holds no client has no sum left in it.
THEOREM SlotsAreClean == Spec => []FreeSlotsAreClean
<1>1. IInv => FreeSlotsAreClean
  BY DEF IInv
<1> QED
  BY <1>1, Invariance, PTL

\* However slots and descriptors are reused, a client's result is made of the
\* ints taken from its own connection.
THEOREM ResultsAreIsolated == Spec => []OwnSumOnly
<1>1. IInv => OwnSumOnly
  BY DEF IInv
<1> QED
  BY <1>1, Invariance, PTL

\* No connection is closed under a client that is still sending.
THEOREM NobodyIsCutOff == Spec => []NotCutOff
<1>1. IInv => NotCutOff
  BY DEF IInv
<1> QED
  BY <1>1, Invariance, PTL

\* The server never blocks in the read() of one client while others wait.
THEOREM ReadsDoNotBlock == Spec => []ScanNeverBlocks
<1>1. TypeOK /\ IInv => ScanNeverBlocks
  <2> SUFFICES ASSUME TypeOK, IInv, pc = "scan", NEW slot \in ReadySlots
               PROVE  /\ owner[monitor_fd_set[slot]] # NoClient
                      /\ Readable(owner[monitor_fd_set[slot]])
    BY DEF ScanNeverBlocks
  <2>1. /\ slot \in Slots /\ slot >= i /\ IsReady(slot)
        /\ monitor_fd_set[slot] > LISTEN
    BY DEF ReadySlots, IsReady, IInv, ScanInv, MonitorInv
  <2>2. slot \in ToCome
    BY <2>1 DEF ToCome, Slots, TypeOK
  <2> QED
    BY <2>1, <2>2, OwnedSlot DEF IInv, ScanInv
<1> QED
  BY <1>1, Invariance, TypeCorrect, PTL

-----------------------------------------------------------------------------
(* The server implements the service.                                      *)

\* A result is written before the close, to a client that had none.
ToldBeforeClose ==
  /\ ServiceInv
  /\ pc = "close" => Told(owner[comm_socket_fd]) # <<>>

LEMMA InitService == Init => ToldBeforeClose /\ Service!ServiceInit
  BY DEF Init, SumClientInit, ToldBeforeClose, ServiceInv, Service!ServiceInit, Told

\* Steps that touch neither the connections nor what was added or told.
LEMMA QuietImplements ==
  ASSUME ToldBeforeClose, pc' # "close",
         UNCHANGED <<srvEnd, credited, client, down, answer>>
  PROVE  ToldBeforeClose' /\ UNCHANGED Service!serviceVars
  BY DEF ToldBeforeClose, ServiceInv, Service!serviceVars, Told

LEMMA ReadImplements ==
  ASSUME TypeOK, IInv, ToldBeforeClose, ReadClient
  PROVE  ToldBeforeClose' /\ [Service!ServiceNext]_(Service!serviceVars)
<1> DEFINE c(slot) == owner[monitor_fd_set[slot]]
<1>1. PICK slot \in ReadySlots :
        /\ c(slot) # NoClient
        /\ IF DataRead(c(slot)) = 0
             THEN pc' = "result" /\ UNCHANGED credited
             ELSE /\ credited' = [credited EXCEPT
                        ![c(slot)] = IntAdd(@, DataRead(c(slot)))]
                  /\ UNCHANGED pc
  BY DEF ReadClient
<1>2. /\ pc = "scan" /\ slot \in Slots /\ monitor_fd_set[slot] > LISTEN
      /\ UNCHANGED <<srvEnd, client, down, answer>>
  BY DEF ReadClient, ReadySlots, IsReady, IInv, MonitorInv, ScanInv, clientVars
<1>3. c(slot) \in Clients /\ srvEnd[c(slot)] = "open"
  BY <1>2, OwnedSlot
<1>4. down[c(slot)] = <<>> /\ answer[c(slot)] = <<>>
  BY <1>2, <1>3 DEF IInv, NotYet
<1> DEFINE d == c(slot)
<1>5. ToldBeforeClose'
  BY <1>1, <1>2 DEF ToldBeforeClose, ServiceInv
<1>6. CASE UNCHANGED credited
  BY <1>2, <1>5, <1>6 DEF Service!serviceVars, Told
<1>7. CASE credited' = [credited EXCEPT ![d] = IntAdd(@, DataRead(d))]
  <2>1. credited[d] \in Int /\ DataRead(d) \in Int
    BY <1>3 DEF TypeOK, SumClientTypeOK, DataRead
  <2>2. IntAdd(credited[d], DataRead(d)) \in -INT_HALF .. (INT_HALF - 1)
    BY <2>1, IntAddRange
  <2> HIDE DEF c
  <2>3. Service!Add(d)
    BY <1>2, <1>3, <1>4, <1>7, <2>2 DEF Service!Add, Told
  <2> QED
    BY <1>3, <1>5, <2>3 DEF Service!ServiceNext
<1> QED
  BY <1>1, <1>6, <1>7

LEMMA ResultImplements ==
  ASSUME TypeOK, IInv, ToldBeforeClose, SendResult
  PROVE  ToldBeforeClose' /\ [Service!ServiceNext]_(Service!serviceVars)
<1> DEFINE c == owner[comm_socket_fd]
<1>1. /\ pc = "result" /\ i \in Slots
      /\ UNCHANGED <<monitor_fd_set, i, owner, credited, client, answer>>
  BY DEF SendResult, TypeOK, clientVars
<1>2. CASE Die /\ UNCHANGED down
  <2>1. Service!Stop
    BY <1>1, <1>2, GoneImplements DEF Die
  <2>2. ToldBeforeClose'
    BY <1>1, <1>2 DEF Die, ServerGone, ToldBeforeClose, ServiceInv, TypeOK,
       SumClientTypeOK
  <2> QED
    BY <2>1, <2>2 DEF Service!ServiceNext
<1>3. CASE /\ down' = [down EXCEPT ![c] = Append(@, client_result[i])]
           /\ pc' = "close"
           /\ UNCHANGED srvEnd
  <2>1. comm_socket_fd > LISTEN
    BY <1>1 DEF IInv, ScanInv
  <2>2. c \in Clients /\ srvEnd[c] = "open" /\ client_result[i] = credited[c]
    BY <1>1, <2>1, OwnedSlot DEF comm_socket_fd, IInv, OwnSumOnly
  <2>3. down[c] = <<>> /\ answer[c] = <<>>
    BY <1>1, <2>2 DEF IInv, NotYet
  <2>4. down' = [down EXCEPT ![c] = <<credited[c]>>]
    BY <1>3, <2>2, <2>3
  <2>5. owner'[comm_socket_fd'] = c
    BY <1>1 DEF comm_socket_fd
  <2> HIDE DEF c
  <2>6. down'[c] = <<credited[c]>> /\ answer'[c] = <<>> /\ down'[c] # <<>>
    BY <1>1, <2>2, <2>3, <2>4 DEF TypeOK, SumClientTypeOK
  <2>7. ToldBeforeClose'
    BY <1>1, <1>3, <2>5, <2>6 DEF ToldBeforeClose, ServiceInv, Told
  <2>8. Service!Tell(c)
    BY <1>1, <1>3, <2>2, <2>3, <2>4 DEF Service!Tell, Told, TypeOK, SumClientTypeOK
  <2> QED
    BY <2>2, <2>7, <2>8 DEF Service!ServiceNext
<1> QED
  BY <1>2, <1>3 DEF SendResult

LEMMA CloseImplements ==
  ASSUME TypeOK, IInv, ToldBeforeClose, CloseClient
  PROVE  ToldBeforeClose' /\ [Service!ServiceNext]_(Service!serviceVars)
<1> DEFINE c == owner[comm_socket_fd]
<1>1. /\ pc = "close" /\ pc' = "scan" /\ i \in Slots
      /\ srvEnd' = [srvEnd EXCEPT ![c] = "closed"]
      /\ UNCHANGED <<credited, client, answer, down>>
  BY DEF CloseClient, TypeOK, clientVars
<1>2. comm_socket_fd > LISTEN /\ client[c] \notin {"start", "sending"}
  BY <1>1 DEF IInv, ScanInv
<1>3. c \in Clients /\ srvEnd[c] = "open" /\ Told(c) # <<>>
  BY <1>1, <1>2, OwnedSlot DEF comm_socket_fd, ToldBeforeClose
<1> HIDE DEF c
<1>4. ToldBeforeClose'
  BY <1>1, <1>2 DEF ToldBeforeClose, ServiceInv, TypeOK, SumClientTypeOK
<1>5. Service!Part(c)
  BY <1>1, <1>3 DEF Service!Part, Told
<1> QED
  BY <1>3, <1>4, <1>5 DEF Service!ServiceNext

LEMMA AcceptImplements ==
  ASSUME TypeOK, IInv, ToldBeforeClose, AcceptConnection
  PROVE  ToldBeforeClose' /\ [Service!ServiceNext]_(Service!serviceVars)
<1>1. UNCHANGED <<credited, client, answer, down>>
  BY DEF AcceptConnection, clientVars
<1>2. CASE Die
  <2>1. Service!Stop
    BY <1>1, <1>2, GoneImplements DEF Die
  <2>2. ToldBeforeClose'
    BY <1>1, <1>2 DEF Die, ServerGone, ToldBeforeClose, ServiceInv, TypeOK,
       SumClientTypeOK
  <2> QED
    BY <2>1, <2>2 DEF Service!ServiceNext
<1>3. CASE \E fd \in Fds \ opened : Accept(fd)
  BY <1>1, <1>3, QuietImplements DEF Accept
<1> QED
  BY <1>2, <1>3 DEF AcceptConnection

\* Every step of the server and its clients is one step of the service, or
\* none.
LEMMA NextImplements ==
  ASSUME TypeOK, IInv, ToldBeforeClose, [Next]_vars
  PROVE  ToldBeforeClose' /\ [Service!ServiceNext]_(Service!serviceVars)
<1>1. CASE Select \/ ReadConsole \/ BeginScan \/ EndScan
  BY <1>1, QuietImplements
     DEF Select, ReadConsole, BeginScan, EndScan, clientVars, netVars
<1>2. CASE \E c \in Clients : ClientNext(c)
  <2>1. PICK c \in Clients :
          ClientStep(c) /\ UNCHANGED <<pc, owner, monitor_fd_set, i, credited>>
    BY <1>2 DEF ClientNext, serverVars
  <2>2. ServiceInv' /\ (Service!Join(c) \/ UNCHANGED Service!serviceVars)
    BY <2>1, ClientImplements DEF ToldBeforeClose, TypeOK
  <2>3. pc = "close" => /\ owner[comm_socket_fd] \in Clients
                        /\ srvEnd[owner[comm_socket_fd]] = "open"
    BY OwnedSlot DEF IInv, ScanInv, TypeOK, comm_socket_fd
  <2>4. \A d \in Clients : srvEnd[d] = "open" => Told(d)' = Told(d)
    BY <2>2 DEF Service!Join, Service!serviceVars
  <2>5. ToldBeforeClose'
    BY <2>1, <2>2, <2>3, <2>4 DEF ToldBeforeClose, comm_socket_fd
  <2> QED
    BY <2>2, <2>5 DEF Service!ServiceNext
<1>3. CASE TypeAtConsole \/ UNCHANGED vars
  <2>1. UNCHANGED <<serverVars, clientVars, netVars>>
    BY <1>3 DEF TypeAtConsole, vars
  <2> QED
    BY <2>1 DEF serverVars, clientVars, netVars, ToldBeforeClose, ServiceInv,
       Service!serviceVars, Told, comm_socket_fd
<1> QED
  BY <1>1, <1>2, <1>3, ReadImplements, ResultImplements, CloseImplements,
     AcceptImplements DEF Next, ServerStep

\* The multiplexing server is a summing service, whatever the interleaving of
\* its scan with its clients: it adds to a connection's own total only, tells
\* it once, adds no more after that, and closes only what it has told.
THEOREM MultiplexIsService == Spec => ImplementsService
<1>1. Init => ToldBeforeClose /\ Service!ServiceInit
  BY InitService
<1>2. TypeOK /\ IInv /\ ToldBeforeClose /\ [Next]_vars
        => ToldBeforeClose' /\ [Service!ServiceNext]_(Service!serviceVars)
  BY NextImplements
<1> QED
  BY <1>1, <1>2, TypeCorrect, Invariance, PTL
     DEF Spec, ImplementsService, Service!ServiceSpec

-----------------------------------------------------------------------------
(* Paced users of the multiplexing server.                                 *)

LEMMA BeforeMultiplex ==
  ASSUME IInv, ToldBeforeClose
  PROVE  BeforeInv
  BY DEF IInv, NotYet, ToldBeforeClose, ServiceInv, BeforeInv

\* Steps that change no connection and leave the server where it is not
\* answering, or where it was.
LEMMA QuietPaced ==
  ASSUME Paced, PacedInv, ZeroIsAnswered, pc \notin {"result", "close"},
         \A d \in Clients : srvEnd'[d] = "open" => srvEnd[d] = "open",
         UNCHANGED <<client, typed, answer, up, down, credited>>
  PROVE  PacedInv' /\ ZeroIsAnswered'
  BY EndPaced DEF ZeroIsAnswered

LEMMA ReadClientPaced ==
  ASSUME TypeOK, IInv, Paced, PacedInv, ZeroIsAnswered, ReadClient
  PROVE  PacedInv' /\ ZeroIsAnswered'
<1> DEFINE c(slot) == owner[monitor_fd_set[slot]]
<1>1. PICK slot \in ReadySlots :
        /\ c(slot) # NoClient /\ Readable(c(slot)) /\ Consume(c(slot))
        /\ \/ /\ DataRead(c(slot)) = 0 /\ pc' = "result" /\ i' = slot
              /\ UNCHANGED credited
           \/ /\ DataRead(c(slot)) # 0 /\ UNCHANGED pc
              /\ credited' = [credited EXCEPT
                        ![c(slot)] = IntAdd(@, DataRead(c(slot)))]
  BY DEF ReadClient
<1>2. /\ pc = "scan" /\ slot \in Slots /\ monitor_fd_set[slot] > LISTEN
      /\ UNCHANGED <<srvEnd, client, typed, down, answer, owner, monitor_fd_set>>
  BY DEF ReadClient, ReadySlots, IsReady, IInv, MonitorInv, ScanInv, clientVars,
     fdVars
<1> PICK d : d = c(slot)
  OBVIOUS
<1>3. d \in Clients /\ srvEnd[d] = "open"
  BY <1>2, OwnedSlot
<1>4. Told(d) = <<>> /\ client[d] # "start"
  BY <1>2, <1>3 DEF IInv, NotYet, Told
<1>5. \A e \in Clients : ~ZeroWasRead(e)
  BY <1>2 DEF ZeroIsAnswered
<1>6. pc' = "result" => owner'[monitor_fd_set'[i']] = d
  BY <1>1, <1>2
<1>7. /\ Readable(d) /\ Consume(d)
      /\ \/ DataRead(d) = 0 /\ UNCHANGED credited
         \/ /\ DataRead(d) # 0
            /\ credited' = [credited EXCEPT ![d] = IntAdd(@, DataRead(d))]
      /\ DataRead(d) = 0 => pc' = "result"
  BY <1>1
<1> HIDE DEF c
<1>8. /\ PacedInv'
      /\ \A e \in Clients : ZeroWasRead(e)' => ZeroWasRead(e) \/ e = d
      /\ DataRead(d) # 0 => ~ZeroWasRead(d)'
  BY <1>2, <1>3, <1>4, <1>5, <1>7, ReadPaced DEF TypeOK
<1>9. ASSUME NEW e \in Clients, ZeroWasRead(e)'
      PROVE  pc' \in {"result", "close"} /\ owner'[comm_socket_fd'] = e
  BY <1>5, <1>6, <1>7, <1>8, <1>9 DEF comm_socket_fd
<1> QED
  BY <1>8, <1>9 DEF ZeroIsAnswered

LEMMA SendResultPaced ==
  ASSUME TypeOK, IInv, Paced, PacedInv, ZeroIsAnswered, SendResult
  PROVE  PacedInv' /\ ZeroIsAnswered'
<1> DEFINE c == owner[comm_socket_fd]
<1>1. /\ pc = "result" /\ i \in Slots
      /\ UNCHANGED <<monitor_fd_set, i, owner, credited, client, typed, answer, up>>
  BY DEF SendResult, TypeOK, clientVars
<1>2. comm_socket_fd > LISTEN /\ client[c] \notin {"start", "sending"}
  BY <1>1 DEF IInv, ScanInv
<1>3. c \in Clients /\ srvEnd[c] = "open"
  BY <1>1, <1>2, OwnedSlot DEF comm_socket_fd
<1>4. UNCHANGED comm_socket_fd
  BY <1>1 DEF comm_socket_fd
<1>5. CASE Die /\ UNCHANGED down
  <2>1. \A d \in Clients : srvEnd'[d] = "open" => FALSE
    BY <1>5 DEF Die, ServerGone
  <2>2. PacedInv'
    BY <1>1, <1>5, <2>1, EndPaced
  <2>3. ZeroIsAnswered'
    BY <2>1 DEF ZeroIsAnswered, ZeroWasRead
  <2> QED
    BY <2>2, <2>3
<1>6. CASE /\ ~Hungup(c) /\ UNCHANGED srvEnd /\ pc' = "close"
           /\ down' = [down EXCEPT ![c] = Append(@, client_result[i])]
  <2> DEFINE x == Append(down[c], client_result[i])
  <2>1. down' = [down EXCEPT ![c] = x]
    BY <1>6
  <2> HIDE DEF c, x
  <2>2. PacedInv' /\ \A d \in Clients : ZeroWasRead(d)' => ZeroWasRead(d)
    BY <1>1, <1>2, <1>3, <1>6, <2>1, TellPaced DEF TypeOK
  <2>3. ZeroIsAnswered'
    BY <1>1, <1>4, <1>6, <2>2 DEF ZeroIsAnswered
  <2> QED
    BY <2>2, <2>3
<1> QED
  BY <1>5, <1>6 DEF SendResult

LEMMA CloseClientPaced ==
  ASSUME TypeOK, IInv, Paced, PacedInv, ZeroIsAnswered, CloseClient
  PROVE  PacedInv' /\ ZeroIsAnswered'
<1> DEFINE c == owner[comm_socket_fd]
<1>1. /\ pc = "close" /\ i \in Slots
      /\ srvEnd' = [srvEnd EXCEPT ![c] = "closed"]
      /\ UNCHANGED <<credited, client, typed, answer, up, down>>
  BY DEF CloseClient, TypeOK, clientVars
<1>2. comm_socket_fd > LISTEN
  BY <1>1 DEF IInv, ScanInv
<1>3. c \in Clients
  BY <1>1, <1>2, OwnedSlot DEF comm_socket_fd
<1>4. /\ srvEnd'[c] # "open"
      /\ \A d \in Clients : srvEnd'[d] = "open" => srvEnd[d] = "open"
  BY <1>1, <1>3 DEF TypeOK, SumClientTypeOK
<1>5. PacedInv' /\ \A d \in Clients : ZeroWasRead(d)' => ZeroWasRead(d)
  BY <1>1, <1>4, EndPaced
<1>6. \A d \in Clients : ~ZeroWasRead(d)'
  BY <1>4, <1>5 DEF ZeroIsAnswered, ZeroWasRead
<1> QED
  BY <1>5, <1>6 DEF ZeroIsAnswered

LEMMA NextPaced ==
  ASSUME TypeOK, IInv, ToldBeforeClose, PacedInv, ZeroIsAnswered, [Next]_vars
  PROVE  PacedInv' /\ ZeroIsAnswered'
<1>1. CASE ~Paced
  BY <1>1 DEF PacedInv, ZeroIsAnswered
<1>2. SUFFICES ASSUME Paced PROVE PacedInv' /\ ZeroIsAnswered'
  BY <1>1
<1>3. CASE Select \/ ReadConsole \/ BeginScan \/ EndScan
  BY <1>2, <1>3, QuietPaced
     DEF Select, ReadConsole, BeginScan, EndScan, clientVars, netVars
<1>4. CASE AcceptConnection
  <2>1. UNCHANGED <<client, typed, answer, up, down, credited>> /\ pc = "dispatch"
    BY <1>4 DEF AcceptConnection, clientVars
  <2>2. \A d \in Clients : srvEnd'[d] = "open" => srvEnd[d] = "open"
    BY <1>4 DEF AcceptConnection, Accept, Die, ServerGone
  <2> QED
    BY <1>2, <2>1, <2>2, QuietPaced
<1>5. CASE \E c \in Clients : ClientNext(c)
  <2>1. PICK c \in Clients :
          ClientStep(c) /\ UNCHANGED <<pc, owner, monitor_fd_set, i, credited>>
    BY <1>5 DEF ClientNext, serverVars
  <2>2. PacedInv' /\ \A d \in Clients : ZeroWasRead(d)' => ZeroWasRead(d)
    BY <1>2, <2>1, BeforeMultiplex, ClientPaced DEF TypeOK
  <2> QED
    BY <2>1, <2>2 DEF ZeroIsAnswered, comm_socket_fd
<1>6. CASE TypeAtConsole \/ UNCHANGED vars
  <2>1. UNCHANGED <<serverVars, clientVars, netVars>>
    BY <1>6 DEF TypeAtConsole, vars
  <2> QED
    BY <2>1 DEF serverVars, clientVars, netVars, PacedInv, ZeroIsAnswered,
       ZeroWasRead, Told, comm_socket_fd
<1> QED
  BY <1>2, <1>3, <1>4, <1>5, <1>6, ReadClientPaced, SendResultPaced,
     CloseClientPaced DEF Next, ServerStep

\* A client of the multiplexing server whose user types no faster than the
\* server reads is told the sum of all the numbers typed.
THEOREM MultiplexAnswersSum == Spec => []PacedAnswerIsSum
<1>1. Init => ToldBeforeClose /\ PacedInv /\ ZeroIsAnswered
  BY InitService, InitPaced DEF Init, ZeroIsAnswered
<1>2. TypeOK /\ IInv /\ ToldBeforeClose /\ PacedInv /\ ZeroIsAnswered /\ [Next]_vars
        => (ToldBeforeClose /\ PacedInv /\ ZeroIsAnswered)'
  BY NextImplements, NextPaced
<1>3. IInv /\ ToldBeforeClose /\ PacedInv => PacedAnswerIsSum
  BY PacedAnswers DEF IInv, OwnSumOnly, ToldBeforeClose, ServiceInv
<1> QED
  BY <1>1, <1>2, <1>3, TypeCorrect, Invariance, PTL DEF Spec

-----------------------------------------------------------------------------
(* Type correctness.                                                       *)

LEMMA BasicInitType == BasicInit => BasicTypeOK
  BY DEF BasicInit, BasicIdle, SumClientInit, BasicTypeOK, SumClientTypeOK,
     ClientStates

LEMMA BasicNextType == BasicTypeOK /\ OpenInv /\ [BasicNext]_bvars => BasicTypeOK'
<1> SUFFICES ASSUME BasicTypeOK, OpenInv, [BasicNext]_bvars PROVE BasicTypeOK'
  OBVIOUS
<1> USE DEF BasicTypeOK
<1>1. CASE BasicAccept
  <2>1. Head(backlog) \in Clients /\ Tail(backlog) \in Seq(Clients)
    BY <1>1 DEF BasicAccept, SumClientTypeOK
  <2>2. /\ data_socket' \in Clients /\ backlog' \in Seq(Clients)
        /\ bpc' = "read" /\ result' = 0 /\ UNCHANGED credited
        /\ UNCHANGED <<client, typed, answer, listening, srvEnd, up, down>>
    BY <1>1, <2>1 DEF BasicAccept, ClearResult, clientVars
  <2>3. SumClientTypeOK'
    BY <2>2 DEF SumClientTypeOK
  <2> QED
    BY <2>2, <2>3
<1>2. CASE BasicRead
  <2>1. /\ data_socket \in Clients /\ Consume(data_socket)
        /\ DataRead(data_socket) \in Int
    BY <1>2 DEF BasicRead, OpenInv, DataRead, SumClientTypeOK
  <2>2. up' \in [Clients -> Seq(Int)]
    BY <2>1, ConsumeSuffix DEF SumClientTypeOK
  <2>3. /\ IntAdd(result, DataRead(data_socket)) \in Int
        /\ IntAdd(credited[data_socket], DataRead(data_socket)) \in Int
    BY <2>1, IntAddType
  <2>4. SumClientTypeOK'
    BY <1>2, <2>2 DEF BasicRead, SumClientTypeOK, clientVars
  <2> QED
    BY <1>2, <2>3, <2>4 DEF BasicRead
<1>3. CASE BasicWrite
  <2>1. data_socket \in Clients /\ Append(down[data_socket], result) \in Seq(Int)
    BY <1>3 DEF BasicWrite, OpenInv, SumClientTypeOK
  <2> QED
    BY <1>3, <2>1, ServerGoneType DEF BasicWrite, SumClientTypeOK, clientVars
<1>4. CASE BasicClose
  BY <1>4 DEF BasicClose, Closed, SumClientTypeOK, clientVars
<1>5. CASE \E c \in Clients : ClientStep(c) /\ UNCHANGED <<basicVars, credited>>
  BY <1>5, ClientType DEF basicVars
<1>6. CASE UNCHANGED bvars
  BY <1>6 DEF bvars, basicVars, clientVars, netVars, SumClientTypeOK
<1> QED
  BY <1>1, <1>2, <1>3, <1>4, <1>5, <1>6 DEF BasicNext, BasicStep

-----------------------------------------------------------------------------
(* The inductive invariant.                                                *)

LEMMA InitBInv == BasicInit => BInv
  BY DEF BasicInit, BasicIdle, SumClientInit, BInv, OneAtATime, BasicOwnSum,
     OpenInv, ToldInv, Told

LEMMA AcceptBInv ==
  ASSUME BasicTypeOK, BInv, BasicAccept
  PROVE  BInv'
<1> DEFINE c == Head(backlog)
<1>1. /\ bpc = "accept" /\ bpc' = "read" /\ backlog # <<>>
      /\ data_socket' = c /\ backlog' = Tail(backlog) /\ result' = 0
      /\ UNCHANGED <<credited, client, typed, answer, srvEnd, up, down>>
  BY DEF BasicAccept, ClearResult, clientVars
<1>2. /\ c \in Clients /\ c = backlog[1] /\ 1 \in 1 .. Len(backlog)
      /\ Len(Tail(backlog)) \in Nat
      /\ \A k \in 1 .. Len(Tail(backlog)) :
           /\ Tail(backlog)[k] = backlog[k + 1]
           /\ k + 1 \in 1 .. Len(backlog)
      /\ \A k \in 1 .. Len(backlog) : k = 1 \/ k - 1 \in 1 .. Len(Tail(backlog))
  BY <1>1 DEF BasicTypeOK, SumClientTypeOK
<1> HIDE DEF c
<1>3. data_socket = NoClient /\ c # NoClient
  BY <1>1, <1>2, SumClientAssumption DEF BInv, OneAtATime
<1>4. /\ srvEnd[c] = "open"
      /\ \A k \in 1 .. Len(backlog) : backlog[k] = c => k = 1
  BY <1>1, <1>2 DEF BInv, OpenInv
<1>5. credited[c] = 0 /\ down[c] = <<>> /\ answer[c] = <<>>
  BY <1>1, <1>2, <1>3, <1>4 DEF BInv, OneAtATime
<1>6. OneAtATime'
  <2>1. ASSUME NEW d \in Clients, srvEnd[d] = "open", d # c
        PROVE  /\ \E k \in 1 .. Len(backlog') : backlog'[k] = d
               /\ credited[d] = 0 /\ down[d] = <<>> /\ answer[d] = <<>>
    <3>1. d # data_socket
      BY <1>3, SumClientAssumption
    <3>2. PICK k \in 1 .. Len(backlog) : backlog[k] = d
      BY <2>1, <3>1, <1>1 DEF BInv, OneAtATime
    <3>3. k - 1 \in 1 .. Len(backlog') /\ backlog'[k - 1] = d
      <4>1. k # 1 /\ k - 1 \in 1 .. Len(Tail(backlog)) /\ (k - 1) + 1 = k
        BY <2>1, <3>2, <1>2
      <4> QED
        BY <4>1, <3>2, <1>1, <1>2
    <3>4. /\ credited[d] = 0 /\ down[d] = <<>> /\ answer[d] = <<>>
      BY <2>1, <3>1, <1>1 DEF BInv, OneAtATime
    <3> QED
      BY <3>3, <3>4
  <2> QED
    BY <2>1, <1>1, <1>3 DEF OneAtATime
<1>7. BasicOwnSum'
  BY <1>1, <1>5 DEF BInv, BasicOwnSum, Told
<1>8. OpenInv'
  <2>1. ASSUME NEW k \in 1 .. Len(backlog')
        PROVE  /\ srvEnd[backlog'[k]] = "open" /\ backlog'[k] # c
               /\ \A m \in 1 .. Len(backlog') : backlog'[m] = backlog'[k] => m = k
    <3>1. backlog'[k] = backlog[k + 1] /\ k + 1 \in 1 .. Len(backlog)
      BY <1>1, <1>2
    <3>2. \A m \in 1 .. Len(backlog') :
            backlog'[m] = backlog[m + 1] /\ m + 1 \in 1 .. Len(backlog)
      BY <1>1, <1>2
    <3>3. backlog[k + 1] # c
      BY <3>1, <1>4
    <3> QED
      BY <3>1, <3>2, <3>3, <1>1 DEF BInv, OpenInv
  <2> QED
    BY <2>1, <1>1, <1>2, <1>4 DEF OpenInv
<1>9. ToldInv'
  BY <1>1, <1>5 DEF BInv, ToldInv
<1> QED
  BY <1>6, <1>7, <1>8, <1>9 DEF BInv

LEMMA ReadBInv ==
  ASSUME BasicTypeOK, BInv, BasicRead
  PROVE  BInv'
<1> DEFINE c == data_socket
           x == DataRead(c)
<1>1. /\ bpc = "read" /\ bpc' \in {"read", "write"}
      /\ UNCHANGED <<data_socket, client, answer, backlog, srvEnd, down>>
      /\ \/ UNCHANGED <<result, credited>>
         \/ /\ result' = IntAdd(result, x)
            /\ credited' = [credited EXCEPT ![c] = IntAdd(@, x)]
  BY DEF BasicRead, clientVars
<1>2. /\ c \in Clients /\ srvEnd[c] = "open" /\ result = credited[c]
      /\ down[c] = <<>> /\ answer[c] = <<>>
  BY <1>1 DEF BInv, OpenInv, BasicOwnSum, ToldInv
<1> HIDE DEF c, x
<1>3. /\ result' = credited'[c]
      /\ \A d \in Clients : d # c => credited'[d] = credited[d]
  BY <1>1, <1>2 DEF BasicTypeOK
<1>4. OneAtATime'
  BY <1>1, <1>3 DEF BInv, OneAtATime, c
<1>5. BasicOwnSum'
  BY <1>1, <1>2, <1>3 DEF BInv, BasicOwnSum, Told, c
<1>6. OpenInv'
  BY <1>1 DEF BInv, OpenInv
<1>7. ToldInv'
  BY <1>1, <1>2, <1>3 DEF BInv, ToldInv, c
<1> QED
  BY <1>4, <1>5, <1>6, <1>7 DEF BInv

LEMMA WriteBInv ==
  ASSUME BasicTypeOK, BInv, BasicWrite
  PROVE  BInv'
<1> DEFINE c == data_socket
<1>1. /\ bpc = "write"
      /\ UNCHANGED <<data_socket, result, credited, client, answer>>
  BY DEF BasicWrite, clientVars
<1>2. /\ c \in Clients /\ srvEnd[c] = "open" /\ result = credited[c]
      /\ down[c] = <<>> /\ answer[c] = <<>>
  BY <1>1 DEF BInv, OpenInv, BasicOwnSum, ToldInv
<1>3. CASE bpc' = "dead" /\ ServerGone /\ UNCHANGED down
  <2>1. \A d \in Clients : srvEnd'[d] = "none" <=> srvEnd[d] = "none"
    BY <1>3 DEF ServerGone
  <2>2. OneAtATime' /\ BasicOwnSum' /\ OpenInv'
    BY <1>1, <1>3 DEF BInv, OneAtATime, BasicOwnSum, OpenInv, Told
  <2>3. ToldInv'
    BY <1>1, <1>3, <2>1 DEF BInv, ToldInv
  <2> QED
    BY <2>2, <2>3 DEF BInv
<1>4. CASE /\ down' = [down EXCEPT ![c] = Append(@, result)]
           /\ bpc' = "close"
           /\ UNCHANGED <<listening, backlog, srvEnd>>
  <2>1. /\ down'[c] = <<credited[c]>> /\ down'[c] # <<>>
        /\ \A d \in Clients : d # c => down'[d] = down[d]
    BY <1>2, <1>4 DEF BasicTypeOK, SumClientTypeOK
  <2>2. OneAtATime' /\ OpenInv'
    BY <1>1, <1>4, <2>1 DEF BInv, OneAtATime, OpenInv
  <2>3. BasicOwnSum'
    BY <1>1, <1>2, <1>4, <2>1 DEF BInv, BasicOwnSum, Told
  <2>4. ToldInv'
    BY <1>1, <1>2, <1>4, <2>1 DEF BInv, ToldInv, Told
  <2> QED
    BY <2>2, <2>3, <2>4 DEF BInv
<1> QED
  BY <1>3, <1>4 DEF BasicWrite

LEMMA CloseBInv ==
  ASSUME BasicTypeOK, BInv, BasicClose
  PROVE  BInv'
<1>1. /\ bpc = "close" /\ bpc' = "accept" /\ data_socket' = NoClient
      /\ srvEnd' = [srvEnd EXCEPT ![data_socket] = "closed"]
      /\ UNCHANGED <<result, credited, client, answer, backlog, down>>
  BY DEF BasicClose, Closed, clientVars
<1>2. data_socket \in Clients /\ srvEnd[data_socket] = "open"
  BY <1>1 DEF BInv, OpenInv
<1>3. \A d \in Clients :
        srvEnd'[d] = IF d = data_socket THEN "closed" ELSE srvEnd[d]
  BY <1>1 DEF BasicTypeOK, SumClientTypeOK
<1>4. OneAtATime'
  BY <1>1, <1>3 DEF BInv, OneAtATime
<1>5. BasicOwnSum'
  BY <1>1 DEF BInv, BasicOwnSum, Told
<1>6. OpenInv'
  <2>1. \A k \in 1 .. Len(backlog) : backlog[k] \in Clients /\ backlog[k] # NoClient
    <3>1. \A k \in 1 .. Len(backlog) : backlog[k] \in Clients
      BY DEF BasicTypeOK, SumClientTypeOK
    <3> QED
      BY <3>1, SumClientAssumption
  <2>2. \A k \in 1 .. Len(backlog) :
          /\ srvEnd[backlog[k]] = "open" /\ backlog[k] # data_socket
          /\ \A m \in 1 .. Len(backlog) : backlog[m] = backlog[k] => m = k
    BY <1>1 DEF BInv, OpenInv
  <2>3. \A k \in 1 .. Len(backlog) : srvEnd'[backlog[k]] = "open"
    BY <1>3, <2>1, <2>2
  <2> QED
    BY <1>1, <2>1, <2>2, <2>3 DEF OpenInv
<1>7. ToldInv'
  BY <1>1, <1>2, <1>3 DEF BInv, ToldInv
<1> QED
  BY <1>4, <1>5, <1>6, <1>7 DEF BInv

LEMMA ConnectBInv ==
  ASSUME BasicTypeOK, BInv, NEW c \in Clients, Connect(c),
         UNCHANGED <<basicVars, credited>>
  PROVE  BInv'
<1>1. /\ client[c] = "start" /\ client' = [client EXCEPT ![c] = "sending"]
      /\ backlog' = Append(backlog, c)
      /\ srvEnd' = [srvEnd EXCEPT ![c] = "open"]
      /\ UNCHANGED <<bpc, data_socket, result, credited, down, answer>>
  BY DEF Connect, basicVars
<1>2. /\ srvEnd[c] = "none" /\ credited[c] = 0
      /\ down[c] = <<>> /\ answer[c] = <<>>
  BY <1>1 DEF BInv, ToldInv
<1>3. /\ \A d \in Clients : srvEnd'[d] = IF d = c THEN "open" ELSE srvEnd[d]
      /\ \A d \in Clients : client'[d] = IF d = c THEN "sending" ELSE client[d]
  BY <1>1 DEF BasicTypeOK, SumClientTypeOK
<1>4. /\ Len(backlog) \in Nat /\ Len(backlog') = Len(backlog) + 1
      /\ \A k \in 1 .. Len(backlog) :
           backlog'[k] = backlog[k] /\ backlog[k] \in Clients
      /\ backlog'[Len(backlog) + 1] = c
  BY <1>1 DEF BasicTypeOK, SumClientTypeOK
<1>5. OneAtATime'
  <2>1. ASSUME NEW d \in Clients, \E k \in 1 .. Len(backlog) : backlog[k] = d
        PROVE  \E k \in 1 .. Len(backlog') : backlog'[k] = d
    BY <2>1, <1>4
  <2>2. \E k \in 1 .. Len(backlog') : backlog'[k] = c
    BY <1>4
  <2> QED
    BY <1>1, <1>2, <1>3, <2>1, <2>2 DEF BInv, OneAtATime
<1>6. BasicOwnSum'
  BY <1>1 DEF BInv, BasicOwnSum, Told
<1>7. OpenInv'
  <2>1. bpc \in {"read", "write", "close"} => srvEnd'[data_socket] = "open"
    BY <1>3 DEF BInv, OpenInv
  <2>2. c # data_socket \/ bpc = "dead"
    BY <1>2, SumClientAssumption
       DEF BInv, OpenInv, OneAtATime, BasicTypeOK
  <2>3. ASSUME bpc # "dead", NEW k \in 1 .. Len(backlog')
        PROVE  /\ srvEnd'[backlog'[k]] = "open" /\ backlog'[k] # data_socket
               /\ \A m \in 1 .. Len(backlog') : backlog'[m] = backlog'[k] => m = k
    <3>1. \A m \in 1 .. Len(backlog') :
            m \in 1 .. Len(backlog) \/ m = Len(backlog) + 1
      BY <1>4
    <3>2. \A m \in 1 .. Len(backlog) : backlog[m] # c
      BY <2>3, <1>2 DEF BInv, OpenInv
    <3>3. CASE k \in 1 .. Len(backlog)
      BY <2>3, <3>1, <3>2, <3>3, <1>3, <1>4 DEF BInv, OpenInv
    <3>4. CASE k = Len(backlog) + 1
      BY <2>2, <2>3, <3>1, <3>2, <3>4, <1>3, <1>4
    <3> QED
      BY <3>1, <3>3, <3>4
  <2> QED
    BY <1>1, <2>1, <2>3 DEF BInv, OpenInv
<1>8. ToldInv'
  BY <1>1, <1>2, <1>3 DEF BInv, ToldInv, Told
<1> QED
  BY <1>5, <1>6, <1>7, <1>8 DEF BInv

LEMMA ReadAnswerBInv ==
  ASSUME BasicTypeOK, BInv, NEW c \in Clients, ReadAnswer(c),
         UNCHANGED <<basicVars, credited>>
  PROVE  BInv'
<1>1. /\ client[c] = "waiting" /\ client' = [client EXCEPT ![c] = "done"]
      /\ answer' = [answer EXCEPT ![c] = down[c]]
      /\ down' = [down EXCEPT ![c] = <<>>]
      /\ UNCHANGED <<bpc, data_socket, result, credited, backlog, srvEnd>>
  BY DEF ReadAnswer, basicVars
<1>2. \A d \in Clients :
        /\ client'[d] = IF d = c THEN "done" ELSE client[d]
        /\ answer'[d] = IF d = c THEN down[c] ELSE answer[d]
        /\ down'[d] = IF d = c THEN <<>> ELSE down[d]
  BY <1>1 DEF BasicTypeOK, SumClientTypeOK
<1>3. answer[c] = <<>> /\ \A d \in Clients : Told(d)' = Told(d)
  BY <1>1, <1>2 DEF BInv, ToldInv, Told
<1>4. OneAtATime'
  BY <1>1, <1>2 DEF BInv, OneAtATime
<1>5. BasicOwnSum'
  BY <1>1, <1>3 DEF BInv, BasicOwnSum
<1>6. OpenInv'
  BY <1>1 DEF BInv, OpenInv
<1>7. ToldInv'
  BY <1>1, <1>2, <1>3 DEF BInv, ToldInv, OpenInv
<1> QED
  BY <1>4, <1>5, <1>6, <1>7 DEF BInv

LEMMA OtherClientBInv ==
  ASSUME BasicTypeOK, BInv, NEW c \in Clients,
         ConnectRefused(c) \/ SendNumber(c) \/ SendRES(c) \/ Crash(c),
         UNCHANGED <<basicVars, credited>>
  PROVE  BInv'
<1>1. UNCHANGED <<bpc, data_socket, result, credited, backlog, srvEnd, down,
                  answer>>
  BY DEF ConnectRefused, SendNumber, SendRES, Crash, netVars, basicVars
<1>2. /\ \A d \in Clients : d # c => client'[d] = client[d]
      /\ client[c] # "done" /\ client'[c] # "start"
      /\ client[c] = "start" => client'[c] = "refused"
  BY DEF ConnectRefused, SendNumber, SendRES, Crash, Write, Connected,
     BasicTypeOK, SumClientTypeOK
<1>3. srvEnd[c] = "none" => client[c] = "start"
  BY DEF BInv, ToldInv, ConnectRefused, SendNumber, SendRES, Crash, Connected
<1>4. OneAtATime' /\ BasicOwnSum' /\ OpenInv'
  BY <1>1 DEF BInv, OneAtATime, BasicOwnSum, OpenInv, Told
<1>5. ToldInv'
  BY <1>1, <1>2, <1>3 DEF BInv, ToldInv, Told
<1> QED
  BY <1>4, <1>5 DEF BInv

LEMMA NextBInv == BasicTypeOK /\ BInv /\ [BasicNext]_bvars => BInv'
<1> SUFFICES ASSUME BasicTypeOK, BInv, [BasicNext]_bvars PROVE BInv'
  OBVIOUS
<1>1. CASE BasicStep
  BY <1>1, AcceptBInv, ReadBInv, WriteBInv, CloseBInv DEF BasicStep
<1>2. CASE \E c \in Clients : ClientStep(c) /\ UNCHANGED <<basicVars, credited>>
  BY <1>2, ConnectBInv, ReadAnswerBInv, OtherClientBInv DEF ClientStep
<1>3. CASE UNCHANGED bvars
  BY <1>3 DEF bvars, basicVars, clientVars, netVars, BInv, OneAtATime,
     BasicOwnSum, OpenInv, ToldInv, Told
<1> QED
  BY <1>1, <1>2, <1>3 DEF BasicNext

-----------------------------------------------------------------------------
(* The theorems.                                                           *)

\* The types and the inductive invariant hold together: main() reads from,
\* writes to and closes an open connection only.
THEOREM BasicInvariance == BasicSpec => [](BasicTypeOK /\ BInv)
<1>1. BasicInit => BasicTypeOK /\ BInv
  BY BasicInitType, InitBInv
<1>2. BasicTypeOK /\ BInv /\ [BasicNext]_bvars => (BasicTypeOK /\ BInv)'
  BY BasicNextType, NextBInv DEF BInv
<1> QED
  BY <1>1, <1>2, PTL DEF BasicSpec

\* Nobody who waits is touched while another is served.
THEOREM ServesOneAtATime == BasicSpec => []OneAtATime
<1>1. BInv => OneAtATime
  BY DEF BInv
<1> QED
  BY <1>1, BasicInvariance, PTL

\* The sum that main() keeps in one variable for all its clients never holds
\* ints of two of them.
THEOREM BasicResultsAreIsolated == BasicSpec => []BasicOwnSum
<1>1. BInv => BasicOwnSum
  BY DEF BInv
<1> QED
  BY <1>1, BasicInvariance, PTL

LEMMA BasicNextImplements ==
  BasicTypeOK /\ BInv /\ [BasicNext]_bvars => [Service!ServiceNext]_(Service!serviceVars)
<1> SUFFICES ASSUME BasicTypeOK, BInv, [BasicNext]_bvars
             PROVE  [Service!ServiceNext]_(Service!serviceVars)
  OBVIOUS
<1>1. CASE BasicAccept
  BY <1>1 DEF BasicAccept, clientVars, Service!serviceVars, Told
<1>2. CASE BasicRead
  <2> DEFINE c == data_socket
  <2>1. /\ c \in Clients /\ srvEnd[c] = "open"
        /\ down[c] = <<>> /\ answer[c] = <<>>
    BY <1>2 DEF BasicRead, BInv, OpenInv, ToldInv
  <2>2. UNCHANGED <<srvEnd, down, answer>>
    BY <1>2 DEF BasicRead, clientVars
  <2>3. credited[c] \in Int /\ DataRead(c) \in Int
    BY <2>1 DEF BasicTypeOK, SumClientTypeOK, DataRead
  <2>4. IntAdd(credited[c], DataRead(c)) \in -INT_HALF .. (INT_HALF - 1)
    BY <2>3, IntAddRange
  <2>5. CASE credited' = [credited EXCEPT ![c] = IntAdd(@, DataRead(c))]
    <3>1. Service!Add(c)
      BY <2>1, <2>2, <2>4, <2>5 DEF Service!Add, Told
    <3> HIDE DEF c
    <3> QED
      BY <2>1, <3>1 DEF Service!ServiceNext
  <2>6. CASE UNCHANGED credited
    BY <2>2, <2>6 DEF Service!serviceVars, Told
  <2> QED
    BY <1>2, <2>5, <2>6 DEF BasicRead
<1>3. CASE BasicWrite
  <2> DEFINE c == data_socket
  <2>1. /\ c \in Clients /\ srvEnd[c] = "open" /\ result = credited[c]
        /\ down[c] = <<>> /\ answer[c] = <<>>
        /\ UNCHANGED <<credited, answer>>
    BY <1>3 DEF BasicWrite, BInv, OpenInv, BasicOwnSum, ToldInv, clientVars
  <2>2. CASE ServerGone /\ UNCHANGED down
    BY <2>1, <2>2, GoneImplements DEF Service!ServiceNext
  <2>3. CASE down' = [down EXCEPT ![c] = Append(@, result)] /\ UNCHANGED srvEnd
    <3>1. down' = [down EXCEPT ![c] = <<credited[c]>>]
      BY <2>1, <2>3
    <3>2. Service!Tell(c)
      BY <2>1, <2>3, <3>1 DEF Service!Tell, Told, BasicTypeOK, SumClientTypeOK
    <3> HIDE DEF c
    <3> QED
      BY <2>1, <3>2 DEF Service!ServiceNext
  <2> QED
    BY <1>3, <2>2, <2>3 DEF BasicWrite
<1>4. CASE BasicClose
  <2>1. /\ data_socket \in Clients /\ srvEnd[data_socket] = "open"
        /\ Told(data_socket) # <<>>
    BY <1>4 DEF BasicClose, Closed, BInv, OpenInv, ToldInv
  <2>2. Service!Part(data_socket)
    BY <1>4, <2>1 DEF BasicClose, Closed, Service!Part, Told, clientVars
  <2> QED
    BY <2>1, <2>2 DEF Service!ServiceNext
<1>5. CASE \E c \in Clients : ClientStep(c) /\ UNCHANGED <<basicVars, credited>>
  <2>1. ServiceInv
    BY DEF BInv, ToldInv, ServiceInv
  <2> QED
    BY <1>5, <2>1, ClientImplements DEF BasicTypeOK, Service!ServiceNext
<1>6. CASE UNCHANGED bvars
  BY <1>6 DEF bvars, clientVars, netVars, Service!serviceVars, Told
<1> QED
  BY <1>1, <1>2, <1>3, <1>4, <1>5, <1>6 DEF BasicNext, BasicStep

\* The iterative server is a summing service.
THEOREM BasicIsService == BasicSpec => ImplementsService
<1>1. BasicInit => Service!ServiceInit
  BY DEF BasicInit, SumClientInit, Service!ServiceInit, Told
<1>2. BasicTypeOK /\ BInv /\ [BasicNext]_bvars
        => [Service!ServiceNext]_(Service!serviceVars)
  BY BasicNextImplements
<1> QED
  BY <1>1, <1>2, BasicInvariance, PTL
     DEF BasicSpec, ImplementsService, Service!ServiceSpec

-----------------------------------------------------------------------------
(* Paced users of the iterative server.                                    *)

LEMMA BeforeBasic ==
  ASSUME BInv
  PROVE  BeforeInv
  BY DEF BInv, ToldInv, BeforeInv

LEMMA BasicReadPaced ==
  ASSUME BasicTypeOK, BInv, Paced, PacedInv, BasicZeroIsAnswered, BasicRead
  PROVE  PacedInv' /\ BasicZeroIsAnswered'
<1> PICK c : c = data_socket
  OBVIOUS
<1>1. /\ bpc = "read" /\ Readable(c) /\ Consume(c)
      /\ \/ DataRead(c) = 0 /\ bpc' = "write" /\ UNCHANGED credited
         \/ /\ DataRead(c) # 0 /\ UNCHANGED bpc
            /\ credited' = [credited EXCEPT ![c] = IntAdd(@, DataRead(c))]
      /\ UNCHANGED <<data_socket, client, typed, answer, srvEnd, down>>
  BY DEF BasicRead, clientVars
<1>2. /\ c \in Clients /\ srvEnd[c] = "open" /\ Told(c) = <<>>
      /\ client[c] # "start"
  BY <1>1 DEF BInv, OpenInv, ToldInv, Told
<1>3. \A e \in Clients : ~ZeroWasRead(e)
  BY <1>1 DEF BasicZeroIsAnswered
<1>4. /\ PacedInv'
      /\ \A e \in Clients : ZeroWasRead(e)' => ZeroWasRead(e) \/ e = c
      /\ DataRead(c) = 0 => client[c] # "sending"
      /\ DataRead(c) # 0 => ~ZeroWasRead(c)'
  BY <1>1, <1>2, <1>3, ReadPaced DEF BasicTypeOK
<1>5. BasicZeroIsAnswered'
  BY <1>1, <1>2, <1>3, <1>4 DEF BasicZeroIsAnswered
<1> QED
  BY <1>4, <1>5

LEMMA BasicWritePaced ==
  ASSUME BasicTypeOK, BInv, Paced, PacedInv, BasicZeroIsAnswered, BasicWrite
  PROVE  PacedInv' /\ BasicZeroIsAnswered'
<1> PICK c : c = data_socket
  OBVIOUS
<1>1. /\ bpc = "write"
      /\ UNCHANGED <<data_socket, credited, client, typed, answer, up>>
  BY DEF BasicWrite, clientVars
<1>2. /\ c \in Clients /\ srvEnd[c] = "open"
      /\ client[c] \notin {"start", "sending"}
  BY <1>1 DEF BInv, OpenInv, BasicZeroIsAnswered
<1>3. CASE bpc' = "dead" /\ ServerGone /\ UNCHANGED down
  <2>1. \A d \in Clients : srvEnd'[d] # "open"
    BY <1>3 DEF ServerGone
  <2>2. PacedInv'
    BY <1>1, <1>3, <2>1, EndPaced
  <2>3. BasicZeroIsAnswered'
    BY <1>3, <2>1 DEF BasicZeroIsAnswered, ZeroWasRead
  <2> QED
    BY <2>2, <2>3
<1>4. CASE /\ ~Hungup(c) /\ UNCHANGED srvEnd /\ bpc' = "close"
           /\ down' = [down EXCEPT ![c] = Append(@, result)]
  <2>1. PICK x : x = Append(down[c], result)
    OBVIOUS
  <2>2. down' = [down EXCEPT ![c] = x]
    BY <1>4, <2>1
  <2>3. PacedInv' /\ \A d \in Clients : ZeroWasRead(d)' => ZeroWasRead(d)
    BY <1>1, <1>2, <1>4, <2>2, TellPaced DEF BasicTypeOK
  <2>4. BasicZeroIsAnswered'
    BY <1>1, <1>2, <1>4, <2>3 DEF BasicZeroIsAnswered
  <2> QED
    BY <2>3, <2>4
<1> QED
  BY <1>3, <1>4 DEF BasicWrite

LEMMA BasicNextPaced ==
  ASSUME BasicTypeOK, BInv, PacedInv, BasicZeroIsAnswered, [BasicNext]_bvars
  PROVE  PacedInv' /\ BasicZeroIsAnswered'
<1>1. CASE ~Paced
  BY <1>1 DEF PacedInv, BasicZeroIsAnswered
<1>2. SUFFICES ASSUME Paced PROVE PacedInv' /\ BasicZeroIsAnswered'
  BY <1>1
<1>3. CASE BasicAccept
  <2>1. /\ bpc = "accept" /\ bpc' = "read"
        /\ UNCHANGED <<client, typed, answer, srvEnd, up, down, credited>>
    BY <1>3 DEF BasicAccept, clientVars
  <2>2. PacedInv' /\ \A d \in Clients : ZeroWasRead(d)' => ZeroWasRead(d)
    BY <1>2, <2>1, EndPaced
  <2> QED
    BY <2>1, <2>2 DEF BasicZeroIsAnswered
<1>4. CASE BasicClose
  <2>1. /\ bpc = "close" /\ bpc' = "accept" /\ data_socket \in Clients
        /\ srvEnd' = [srvEnd EXCEPT ![data_socket] = "closed"]
        /\ UNCHANGED <<client, typed, answer, up, down, credited>>
    BY <1>4 DEF BasicClose, Closed, clientVars, BInv, OpenInv
  <2>2. /\ srvEnd'[data_socket] = "closed"
        /\ \A d \in Clients : srvEnd'[d] = "open" => srvEnd[d] = "open"
    BY <2>1 DEF BasicTypeOK, SumClientTypeOK
  <2>3. PacedInv' /\ \A d \in Clients : ZeroWasRead(d)' => ZeroWasRead(d)
    BY <1>2, <2>1, <2>2, EndPaced
  <2>4. \A d \in Clients : ~ZeroWasRead(d)'
    BY <1>2, <2>2, <2>3 DEF BasicZeroIsAnswered, ZeroWasRead
  <2> QED
    BY <2>1, <2>3, <2>4 DEF BasicZeroIsAnswered
<1>5. CASE \E c \in Clients : ClientStep(c) /\ UNCHANGED <<basicVars, credited>>
  <2>1. PICK c \in Clients :
          ClientStep(c) /\ UNCHANGED <<bpc, data_socket, credited>>
    BY <1>5 DEF basicVars
  <2>2. PacedInv' /\ \A d \in Clients : ZeroWasRead(d)' => ZeroWasRead(d)
    BY <1>2, <2>1, BeforeBasic, ClientPaced DEF BasicTypeOK
  <2>3. \A d \in Clients :
          client[d] \notin {"start", "sending"} =>
            client'[d] \notin {"start", "sending"}
    BY <2>1 DEF ClientStep, Connect, ConnectRefused, SendNumber, SendRES,
       ReadAnswer, Crash, Write, BasicTypeOK, SumClientTypeOK
  <2>4. bpc \in {"write", "close"} => data_socket \in Clients
    BY DEF BInv, OpenInv
  <2> QED
    BY <2>1, <2>2, <2>3, <2>4 DEF BasicZeroIsAnswered
<1>6. CASE UNCHANGED bvars
  BY <1>6 DEF bvars, basicVars, clientVars, netVars, PacedInv,
     BasicZeroIsAnswered, ZeroWasRead, Told
<1> QED
  BY <1>2, <1>3, <1>4, <1>5, <1>6, BasicReadPaced, BasicWritePaced
     DEF BasicNext, BasicStep

\* A client of the iterative server whose user types no faster than the server
\* reads is told the sum of all the numbers typed.
THEOREM BasicAnswersSum == BasicSpec => []PacedAnswerIsSum
<1>1. BasicInit => PacedInv /\ BasicZeroIsAnswered
  BY InitPaced DEF BasicInit, BasicIdle, BasicZeroIsAnswered
<1>2. BasicTypeOK /\ BInv /\ PacedInv /\ BasicZeroIsAnswered /\ [BasicNext]_bvars
        => (PacedInv /\ BasicZeroIsAnswered)'
  BY BasicNextPaced
<1>3. BInv /\ PacedInv => PacedAnswerIsSum
  BY PacedAnswers DEF BInv, ToldInv, BasicOwnSum, Told
<1> QED
  BY <1>1, <1>2, <1>3, BasicInvariance, PTL DEF BasicSpec

-----------------------------------------------------------------------------
(* Either program under the name the clients use.                          *)

\* Everything that is known of the program that was started.
Known ==
  \/ /\ server = "multiplex" /\ BasicGone
     /\ TypeOK /\ IInv /\ ToldBeforeClose /\ PacedInv /\ ZeroIsAnswered
  \/ /\ server = "basic"
     /\ BasicTypeOK /\ BInv /\ PacedInv /\ BasicZeroIsAnswered

LEMMA InitKnown == SumInit => Known /\ Service!ServiceInit
<1> SUFFICES ASSUME SumInit PROVE Known /\ Service!ServiceInit
  OBVIOUS
<1>1. Init /\ Service!ServiceInit /\ ToldBeforeClose
  BY InitService DEF SumInit
<1>2. PacedInv /\ \A c \in Clients : ~ZeroWasRead(c)
  BY <1>1, InitPaced DEF Init
<1>3. CASE server = "multiplex" /\ BasicGone
  BY <1>1, <1>2, <1>3, InitType, InitIInv DEF Known, ZeroIsAnswered
<1>4. CASE server = "basic" /\ BasicIdle
  <2>1. BasicInit
    BY <1>1, <1>4 DEF BasicInit, Init
  <2> QED
    BY <1>1, <1>2, <1>4, <2>1, BasicInitType, InitBInv
       DEF Known, BasicZeroIsAnswered, BasicIdle
<1> QED
  BY <1>1, <1>3, <1>4 DEF SumInit

\* A step of the two is a step of the one that was started.
LEMMA NextKnown ==
  ASSUME Known, [SumNext]_sumVars
  PROVE  Known' /\ [Service!ServiceNext]_(Service!serviceVars)
<1>1. CASE server = "multiplex"
  <2>1. UNCHANGED <<server, basicVars>> /\ [Next]_vars
    BY <1>1 DEF Known, SumNext, sumVars, RunServer, RunClient, Next, ClientNext
  <2>2. BasicGone'
    BY <1>1, <2>1 DEF Known, BasicGone, basicVars
  <2>3. TypeOK' /\ IInv'
    BY <1>1, <2>1, NextType, NextIInv DEF Known
  <2>4. ToldBeforeClose' /\ [Service!ServiceNext]_(Service!serviceVars)
    BY <1>1, <2>1, NextImplements DEF Known
  <2>5. PacedInv' /\ ZeroIsAnswered'
    BY <1>1, <2>1, NextPaced DEF Known
  <2> QED
    BY <1>1, <2>1, <2>2, <2>3, <2>4, <2>5 DEF Known
<1>2. CASE server = "basic"
  <2>1. UNCHANGED server /\ [BasicNext]_bvars
    BY <1>2 DEF Known, SumNext, sumVars, RunServer, RunClient, BasicNext,
       serverVars, vars, bvars
  <2>2. BasicTypeOK' /\ BInv' /\ [Service!ServiceNext]_(Service!serviceVars)
    BY <1>2, <2>1, BasicNextType, NextBInv, BasicNextImplements DEF Known, BInv
  <2>3. PacedInv' /\ BasicZeroIsAnswered'
    BY <1>2, <2>1, BasicNextPaced DEF Known
  <2> QED
    BY <1>2, <2>1, <2>2, <2>3 DEF Known
<1> QED
  BY <1>1, <1>2 DEF Known

LEMMA KnownImplies == Known => SumInv /\ PacedAnswerIsSum
<1> SUFFICES ASSUME Known PROVE SumInv /\ PacedAnswerIsSum
  OBVIOUS
<1>1. BInv
  <2>1. CASE server = "multiplex"
    <3>1. /\ bpc = "dead"
          /\ IInv /\ ToldBeforeClose
      BY <2>1 DEF Known, BasicGone
    <3>2. BasicOwnSum
      BY <3>1 DEF IInv, OwnSumOnly, BasicOwnSum, Told
    <3>3. ToldInv
      BY <3>1 DEF IInv, NotYet, ToldBeforeClose, ServiceInv, ToldInv
    <3> QED
      BY <3>1, <3>2, <3>3 DEF BInv, OneAtATime, OpenInv
  <2> QED
    BY <2>1 DEF Known
<1>2. SumInv
  BY <1>1 DEF Known, SumInv
<1>3. PacedAnswerIsSum
  BY <1>1, <1>2, PacedAnswers DEF SumInv, BInv, ToldInv, BasicOwnSum, Told
<1> QED
  BY <1>2, <1>3

LEMMA SumSafety == SumSpec => [](Known /\ SumInv /\ PacedAnswerIsSum)
<1>1. Known /\ [SumNext]_sumVars => Known'
  BY NextKnown
<1> QED
  BY <1>1, InitKnown, KnownImplies, PTL DEF SumSpec

\* Whichever of the two programs was started, the inductive invariant holds.
THEOREM SumInvariance == SumSpec => []SumInv
  BY SumSafety, PTL

\* Whichever of the two programs was started, a client whose user types no
\* faster than the server reads is told the sum of all the numbers typed.
THEOREM PacedSumsAreRight == SumSpec => []PacedAnswerIsSum
  BY SumSafety, PTL

\* Whichever of the two programs was started, it is a summing service.
THEOREM EitherIsService == SumSpec => ImplementsService
<1>1. SumInit => Service!ServiceInit
  BY InitKnown
<1>2. Known /\ [SumNext]_sumVars => [Service!ServiceNext]_(Service!serviceVars)
  BY NextKnown
<1> QED
  BY <1>1, <1>2, SumSafety, PTL
     DEF SumSpec, ImplementsService, Service!ServiceSpec

=============================================================================
