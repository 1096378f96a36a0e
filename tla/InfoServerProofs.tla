--------------------------- MODULE InfoServerProofs ---------------------------
(***************************************************************************)
(* Proofs about InfoServer, for all clients, slots, intervals and limits:  *)
(* types, that a slot marked ready holds current data, that no slot is     *)
(* wasted, and that a registered client is sent to in time.                *)
(***************************************************************************)
EXTENDS InfoServer, TLAPS, SequenceTheorems

Taken(slot)  == socket_fd[slot] # -1
Holder(slot) == owner[socket_fd[slot]]     \* the client of a slot that is taken

\* A slot that is taken has an open descriptor; one marked ready is taken, and
\* all that are taken are ready when the gathering has ended.
SlotsInv ==
  /\ pc # "dead" => \A slot \in Slots : Taken(slot) => socket_fd[slot] \in opened
  /\ \A slot \in Slots : data_ready[slot] = 1 => Taken(slot)
  /\ pc = "wait" => \A slot \in Slots : Taken(slot) => data_ready[slot] = 1

\* The clock of the messages is behind by one pass at most.  Nobody has waited
\* longer than it says; who is not ready has only come or was just sent to, as
\* was everybody in the slots the sends have passed.
TimeInv ==
  /\ pc \in {"log", "wait"} => elapsed < MESSAGE_INTERVAL
  /\ \A slot \in Slots : Taken(slot) =>
       /\ since[Holder(slot)] <= elapsed
       /\ pc \in {"accept", "tick", "send"} /\ data_ready[slot] = 0 => since[Holder(slot)] = 0
       /\ pc = "send" /\ slot < j => since[Holder(slot)] = 0

InfoInv ==
  /\ TypeOK
  /\ SlotsInv
  /\ SlotsAreUsed
  /\ ReadyIsCurrent
  /\ TimeInv

-----------------------------------------------------------------------------
(* Facts about constants and the smaller of two numbers.                   *)

LEMMA Constants ==
  /\ MAX_CLIENTS \in Nat /\ MAX_CLIENTS > 0
  /\ MESSAGE_INTERVAL \in Nat /\ MESSAGE_INTERVAL > 0
  /\ MAX_STEP \in Nat /\ MAX_STEP > 0
  /\ ROOM \in Nat /\ ROOM > 0
  /\ FD_LIMIT \in Nat /\ FD_LIMIT > LISTEN + 1
  /\ NoClient \notin Clients
  /\ -1 \notin Fds
  /\ Cap \in Nat /\ Cap = MESSAGE_INTERVAL + MAX_STEP
BY InfoServerAssumption DEF Fds, Cap, LISTEN

LEMMA SmallerOfTwo ==
  ASSUME NEW x \in Nat, NEW y \in Nat
  PROVE  /\ Min({x, y}) \in Nat
         /\ Min({x, y}) <= x /\ Min({x, y}) <= y
<1>1. \E m \in {x, y} : \A k \in {x, y} : m <= k
  OBVIOUS
<1> QED
  BY <1>1 DEF Min

LEMMA InitInfoInv == Init => InfoInv
<1> SUFFICES ASSUME Init PROVE InfoInv
  OBVIOUS
<1>1. TypeOK
  BY Constants DEF Init, init_clients, TypeOK, Fds, LISTEN
<1>2. SlotsInv /\ SlotsAreUsed /\ ReadyIsCurrent /\ TimeInv
  BY Constants DEF Init, init_clients, SlotsInv, SlotsAreUsed, ReadyIsCurrent, TimeInv, Taken,
                   Holder, Registered
<1> QED
  BY <1>1, <1>2 DEF InfoInv

LEMMA StutterKeeps == InfoInv /\ UNCHANGED vars => InfoInv'
BY DEF vars, serverVars, slotVars, netVars, InfoInv, TypeOK, SlotsInv, SlotsAreUsed,
       ReadyIsCurrent, TimeInv, Taken, Holder, Registered

-----------------------------------------------------------------------------
(* The steps of a pass.                                                    *)

LEMMA LogKeeps == InfoInv /\ log_system_info => InfoInv'
<1> SUFFICES ASSUME InfoInv, log_system_info PROVE InfoInv'
  OBVIOUS
<1>1. /\ pc = "log" /\ pc' = "wait"
      /\ UNCHANGED <<socket_fd, j, elapsed, opened, owner, backlog, edge, link, down,
                     client, since>>
  BY DEF log_system_info, netVars
<1>2. \A slot \in Slots :
        /\ data_ready'[slot] = IF Taken(slot) THEN 1 ELSE data_ready[slot]
        /\ Taken(slot) => outgoing_data'[slot] = "current"
  BY DEF log_system_info, Taken
<1>3. TypeOK'
  BY <1>1 DEF log_system_info, InfoInv, TypeOK
<1>4. SlotsInv'
  BY <1>1, <1>2, <1>3 DEF InfoInv, SlotsInv, Taken, TypeOK
<1>5. SlotsAreUsed'
  BY <1>1 DEF InfoInv, SlotsAreUsed, Registered
<1>6. ReadyIsCurrent'
  BY <1>1, <1>2 DEF InfoInv, SlotsInv, ReadyIsCurrent, Taken
<1>7. TimeInv'
  BY <1>1 DEF InfoInv, TimeInv, Taken, Holder
<1> QED
  BY <1>3, <1>4, <1>5, <1>6, <1>7 DEF InfoInv

\* Time passes for the clock and for the clients alike.
LEMMA EpollWaitKeeps == InfoInv /\ EpollWait => InfoInv'
<1> SUFFICES ASSUME InfoInv, EpollWait PROVE InfoInv'
  OBVIOUS
<1>1. /\ pc = "wait" /\ pc' \in {"accept", "tick"} /\ edge' \subseteq edge
      /\ UNCHANGED <<socket_fd, outgoing_data, data_ready, j, opened, owner, backlog, link,
                     down, client>>
  BY DEF EpollWait, slotVars
<1>2. PICK seconds \in 0 .. MAX_STEP :
        /\ elapsed' = elapsed + seconds
        /\ since' = [c \in Clients |-> Min({since[c] + seconds, Cap})]
  BY DEF EpollWait
<1>3. elapsed \in Nat /\ elapsed < MESSAGE_INTERVAL /\ seconds \in Nat /\ seconds <= MAX_STEP
  BY <1>1, Constants DEF InfoInv, TypeOK, TimeInv
<1>4. \A c \in Clients : /\ since'[c] \in 0 .. Cap
                         /\ since'[c] <= since[c] + seconds
  <2> SUFFICES ASSUME NEW c \in Clients
               PROVE  since'[c] \in 0 .. Cap /\ since'[c] <= since[c] + seconds
    OBVIOUS
  <2>1. since[c] + seconds \in Nat
    BY <1>3, Constants DEF InfoInv, TypeOK
  <2>2. since'[c] = Min({since[c] + seconds, Cap})
    BY <1>2
  <2>3. since'[c] \in Nat /\ since'[c] <= since[c] + seconds /\ since'[c] <= Cap
    BY <2>1, <2>2, Constants, SmallerOfTwo
  <2> QED
    BY <2>3, Constants
<1>5. TypeOK'
  <2>1. elapsed' \in 0 .. (Cap - 1)
    BY <1>2, <1>3, Constants
  <2>2. since' \in [Clients -> 0 .. Cap]
    BY <1>2, <1>4
  <2> QED
    BY <1>1, <2>1, <2>2 DEF InfoInv, TypeOK
<1>6. SlotsInv' /\ SlotsAreUsed' /\ ReadyIsCurrent'
  BY <1>1 DEF InfoInv, SlotsInv, SlotsAreUsed, ReadyIsCurrent, Registered, Taken
<1>7. TimeInv'
  <2> SUFFICES ASSUME NEW slot \in Slots, Taken(slot)
               PROVE  since'[Holder(slot)] <= elapsed' /\ data_ready[slot] = 1
    BY <1>1 DEF TimeInv, Taken, Holder
  <2>1. Holder(slot) \in Clients /\ data_ready[slot] = 1
    BY <1>1 DEF InfoInv, TypeOK, SlotsInv, SlotsAreUsed, Taken, Holder
  <2>2. since[Holder(slot)] <= elapsed /\ since[Holder(slot)] \in Nat
    BY <2>1, Constants DEF InfoInv, TypeOK, TimeInv
  <2> QED
    BY <2>1, <2>2, <1>2, <1>3, <1>4
<1> QED
  BY <1>5, <1>6, <1>7 DEF InfoInv

\* The connection that has waited longest gets a descriptor, and the slot that
\* add_client() finds for it, if there is one.
AcceptOne(client_fd) ==
  /\ pc = "accept"
  /\ backlog # <<>>
  /\ opened' = opened \cup {client_fd}
  /\ owner' = [owner EXCEPT ![client_fd] = Head(backlog)]
  /\ backlog' = Tail(backlog)
  /\ add_client(client_fd)
  /\ since' = [since EXCEPT ![Head(backlog)] = 0]
  /\ UNCHANGED <<pc, j, elapsed, edge, link, down, client>>

LEMMA AcceptOneKeeps ==
  ASSUME InfoInv, NEW client_fd \in Fds \ opened, AcceptOne(client_fd)
  PROVE  InfoInv'
<1> DEFINE new == Head(backlog)
<1>1. /\ pc = "accept" /\ pc' = "accept"
      /\ opened' = opened \cup {client_fd}
      /\ owner' = [owner EXCEPT ![client_fd] = new]
      /\ since' = [since EXCEPT ![new] = 0]
      /\ UNCHANGED <<j, elapsed, edge, link, down, client>>
  BY DEF AcceptOne
<1>2. new \in Clients /\ backlog' \in Seq(Clients)
  BY HeadTailProperties DEF AcceptOne, InfoInv, TypeOK
<1>3. /\ owner'[client_fd] = new
      /\ \A fd \in Fds : fd # client_fd => owner'[fd] = owner[fd]
      /\ \A c \in Clients : since'[c] = IF c = new THEN 0 ELSE since[c]
  BY <1>1 DEF InfoInv, TypeOK
<1>4. \A slot \in Slots : Taken(slot) =>
        socket_fd[slot] \in Fds /\ socket_fd[slot] # client_fd /\ owner'[socket_fd[slot]] = Holder(slot)
  BY <1>1, <1>3 DEF InfoInv, SlotsInv, TypeOK, Taken, Holder
<1>5. \A slot \in Slots : Taken(slot) => Holder(slot) \in Clients
  BY <1>4 DEF InfoInv, TypeOK, SlotsAreUsed, Taken, Holder
<1>6. \A slot \in Slots : Taken(slot) =>
        /\ since'[Holder(slot)] <= elapsed
        /\ data_ready[slot] = 0 => since'[Holder(slot)] = 0
  BY <1>1, <1>3, <1>5, Constants DEF InfoInv, TimeInv, TypeOK
<1>7. CASE ~ \E i \in Slots : IsFree(i)
  <2>1. UNCHANGED slotVars /\ \A slot \in Slots : Taken(slot) /\ Taken(slot)'
    BY <1>7 DEF AcceptOne, add_client, IsFree, Taken, slotVars
  <2>2. TypeOK'
    BY <1>1, <1>2, <2>1, Constants DEF slotVars, InfoInv, TypeOK
  <2>3. SlotsInv' /\ ReadyIsCurrent'
    BY <1>1, <2>1 DEF slotVars, InfoInv, SlotsInv, ReadyIsCurrent, Taken
  <2>4. SlotsAreUsed'
    BY <1>4, <1>5, <2>1, Constants DEF slotVars, InfoInv, SlotsAreUsed, Taken
  <2>5. TimeInv'
    BY <1>1, <1>4, <1>6, <2>1 DEF slotVars, TimeInv, Taken, Holder
  <2> QED
    BY <2>2, <2>3, <2>4, <2>5 DEF InfoInv
<1>8. CASE \E i \in Slots : IsFree(i)
  <2>1. PICK i \in Slots :
          /\ ~Taken(i)
          /\ socket_fd' = [socket_fd EXCEPT ![i] = client_fd]
          /\ data_ready' = [data_ready EXCEPT ![i] = 0]
          /\ outgoing_data' = outgoing_data
    BY <1>8 DEF AcceptOne, add_client, IsFree, NotYetReady, Taken
  <2>2. /\ socket_fd'[i] = client_fd /\ data_ready'[i] = 0
        /\ \A slot \in Slots : slot # i =>
             socket_fd'[slot] = socket_fd[slot] /\ data_ready'[slot] = data_ready[slot]
        /\ client_fd # -1 /\ client_fd \in Fds
    BY <2>1, Constants DEF InfoInv, TypeOK
  <2>3. TypeOK'
    BY <1>1, <1>2, <2>1, Constants DEF InfoInv, TypeOK
  <2>4. SlotsInv' /\ ReadyIsCurrent'
    BY <1>1, <2>1, <2>2 DEF InfoInv, SlotsInv, ReadyIsCurrent, Taken
  <2>5. SlotsAreUsed'
    <3>1. \A s, t \in Slots : socket_fd'[s] = socket_fd'[t] /\ s # t => socket_fd'[s] = -1
      BY <1>4, <2>2 DEF InfoInv, SlotsAreUsed, Taken
    <3>2. \A slot \in Slots : socket_fd'[slot] # -1 => owner'[socket_fd'[slot]] # NoClient
      BY <1>2, <1>3, <1>4, <1>5, <2>2, Constants DEF Taken
    <3>3. ASSUME NEW fd \in Fds, owner'[fd] # NoClient
          PROVE  \E slot \in Slots : socket_fd'[slot] # -1 /\ owner'[socket_fd'[slot]] = owner'[fd]
      <4>1. CASE fd = client_fd
        BY <4>1, <2>2
      <4>2. CASE fd # client_fd
        <5>1. PICK slot \in Slots : Taken(slot) /\ Holder(slot) = owner[fd]
          BY <1>3, <1>8, <3>3, <4>2
             DEF InfoInv, SlotsAreUsed, Registered, IsFree, Taken, Holder
        <5>2. slot # i
          BY <5>1, <2>1
        <5> QED
          BY <5>1, <5>2, <1>3, <1>4, <2>2, <4>2 DEF Taken
      <4> QED
        BY <4>1, <4>2
    <3> QED
      BY <3>1, <3>2, <3>3 DEF SlotsAreUsed, Registered
  <2>6. TimeInv'
    <3>1. \A slot \in Slots : Taken(slot)' =>
            /\ since'[Holder(slot)'] <= elapsed
            /\ data_ready'[slot] = 0 => since'[Holder(slot)'] = 0
      <4> SUFFICES ASSUME NEW slot \in Slots, Taken(slot)'
                   PROVE  /\ since'[Holder(slot)'] <= elapsed
                          /\ data_ready'[slot] = 0 => since'[Holder(slot)'] = 0
        OBVIOUS
      <4>1. CASE slot = i
        <5>1. Holder(slot)' = new /\ since'[new] = 0
          BY <4>1, <1>2, <1>3, <2>2 DEF Holder
        <5> QED
          BY <5>1, Constants DEF InfoInv, TypeOK
      <4>2. CASE slot # i
        <5>1. Taken(slot) /\ Holder(slot)' = Holder(slot) /\ data_ready'[slot] = data_ready[slot]
          BY <4>2, <1>4, <2>2 DEF Taken, Holder
        <5> QED
          BY <5>1, <1>6
      <4> QED
        BY <4>1, <4>2
    <3> QED
      BY <3>1, <1>1 DEF TimeInv
  <2> QED
    BY <2>3, <2>4, <2>5, <2>6 DEF InfoInv
<1> QED
  BY <1>7, <1>8

LEMMA NewConnectionKeeps == InfoInv /\ handle_new_connection => InfoInv'
<1> SUFFICES ASSUME InfoInv, handle_new_connection PROVE InfoInv'
  OBVIOUS
<1>1. ASSUME NEW client_fd \in Fds \ opened, AcceptOne(client_fd) PROVE InfoInv'
  BY <1>1, AcceptOneKeeps
<1>2. CASE /\ pc = "accept" /\ pc' = "tick"
           /\ UNCHANGED <<slotVars, opened, owner, backlog, since, j, elapsed, edge, link,
                          down, client>>
  BY <1>2 DEF slotVars, InfoInv, TypeOK, SlotsInv, SlotsAreUsed, ReadyIsCurrent, TimeInv,
              Taken, Holder, Registered
<1>3. CASE /\ Die
           /\ UNCHANGED <<slotVars, owner, backlog, since, j, elapsed, edge, link, down,
                          client>>
  BY <1>3 DEF Die, slotVars, InfoInv, TypeOK, SlotsInv, SlotsAreUsed, ReadyIsCurrent,
              TimeInv, Taken, Holder, Registered
<1> QED
  BY <1>1, <1>2, <1>3 DEF handle_new_connection, AcceptOne

LEMMA TickKeeps == InfoInv /\ Tick => InfoInv'
<1> SUFFICES ASSUME InfoInv, Tick PROVE InfoInv'
  OBVIOUS
<1>1. /\ UNCHANGED <<socket_fd, outgoing_data, data_ready, elapsed, opened, owner, backlog,
                     edge, link, down, client, since>>
      /\ pc = "tick"
      /\ \/ pc' = "send" /\ j' = 0
         \/ pc' = "log" /\ j' = j /\ ~(elapsed >= MESSAGE_INTERVAL)
  BY DEF Tick, IsDue, KeepClock, slotVars, netVars
<1>2. TypeOK'
  BY <1>1, Constants DEF InfoInv, TypeOK
<1>3. SlotsInv' /\ SlotsAreUsed' /\ ReadyIsCurrent'
  BY <1>1 DEF InfoInv, SlotsInv, SlotsAreUsed, ReadyIsCurrent, Taken, Registered
<1>4. TimeInv'
  <2>1. elapsed \in Int
    BY Constants DEF InfoInv, TypeOK
  <2> QED
    BY <1>1, <2>1, Constants DEF InfoInv, TimeInv, Taken, Holder, Slots
<1> QED
  BY <1>2, <1>3, <1>4 DEF InfoInv

\* One slot of the loop: whoever is in it has not waited when it is passed.
LEMMA SendKeeps == InfoInv /\ send_data_to_client => InfoInv'
<1> SUFFICES ASSUME InfoInv, send_data_to_client PROVE InfoInv'
  OBVIOUS
<1> DEFINE c == Holder(j)
<1>1. /\ pc = "send" /\ j \in Slots /\ j' = j + 1
      /\ UNCHANGED <<socket_fd, outgoing_data, elapsed, owner, backlog, client>>
  BY DEF send_data_to_client
<1>2. \/ /\ Taken(j) /\ data_ready[j] = 1
         /\ Sent(c, j) \/ NoRoom(c) \/ SentToClosed(c, j) \/ SentToReset(c) \/ SentToBroken(c)
         /\ since' = [since EXCEPT ![c] = 0]
      \/ /\ ~Taken(j) \/ data_ready[j] = 0
         /\ UNCHANGED <<data_ready, down, pc, opened, link, edge, since>>
  BY DEF send_data_to_client, Taken, Holder
<1>3. \A slot \in Slots : Taken(slot) => Holder(slot) \in Clients
  BY DEF InfoInv, TypeOK, SlotsAreUsed, Taken, Holder
<1>4. /\ \A slot \in Slots : data_ready'[slot] = data_ready[slot]
                             \/ (slot = j /\ Taken(j) /\ data_ready'[slot] = 0)
      /\ (pc' = "send" /\ opened' = opened) \/ (pc' = "dead" /\ opened' = {})
      /\ data_ready' \in [Slots -> {0, 1}]
  <2>1. \/ data_ready' = data_ready
        \/ Taken(j) /\ data_ready' = [data_ready EXCEPT ![j] = 0]
    BY <1>2 DEF Sent, NoRoom, SentToClosed, SentToReset, SentToBroken
  <2>2. UNCHANGED <<pc, opened>> \/ Die
    BY <1>2 DEF Sent, NoRoom, SentToClosed, SentToReset, SentToBroken
  <2> QED
    BY <1>1, <2>1, <2>2 DEF Die, InfoInv, TypeOK
<1>5. \A d \in Clients : since'[d] = since[d] \/ since'[d] = 0
  BY <1>2 DEF InfoInv, TypeOK
<1>6. Taken(j) => since'[c] = 0
  <2>1. CASE since' = [since EXCEPT ![c] = 0]
    BY <2>1, <1>1, <1>3 DEF InfoInv, TypeOK
  <2>2. CASE (~Taken(j) \/ data_ready[j] = 0) /\ since' = since
    BY <2>2, <1>1 DEF InfoInv, TimeInv
  <2> QED
    BY <2>1, <2>2, <1>2
<1>7. TypeOK'
  <2>1. j' \in 0 .. MAX_CLIENTS
    BY <1>1, Constants DEF Slots
  <2>2. since' \in [Clients -> 0 .. Cap]
    <3>1. since' = since \/ since' = [since EXCEPT ![c] = 0]
      BY <1>2
    <3>2. since \in [Clients -> 0 .. Cap] /\ 0 \in 0 .. Cap
      BY Constants DEF InfoInv, TypeOK
    <3> QED
      BY <3>1, <3>2
  <2>3. down' \in [Clients -> 0 .. ROOM]
    <3>1. CASE Taken(j) /\ Sent(c, j)
      <4>1. c \in Clients /\ down[c] \in 0 .. ROOM /\ down[c] < ROOM
        BY <3>1, <1>1, <1>3 DEF Sent, InfoInv, TypeOK
      <4>2. down' = [down EXCEPT ![c] = down[c] + 1] /\ down[c] + 1 \in 0 .. ROOM
        BY <3>1, <4>1, Constants DEF Sent
      <4> QED
        BY <4>2 DEF InfoInv, TypeOK
    <3>2. CASE down' = down
      BY <3>2 DEF InfoInv, TypeOK
    <3> QED
      BY <3>1, <3>2, <1>2 DEF NoRoom, SentToClosed, SentToReset, SentToBroken
  <2>4. link' \in [Clients -> {"none", "up", "fin", "reset", "broken"}] /\ edge' \subseteq Clients
    <3>1. CASE Taken(j) /\ (SentToClosed(c, j) \/ SentToReset(c))
      <4>1. c \in Clients
        BY <3>1, <1>1, <1>3
      <4>2. /\ link' = link \/ link' = [link EXCEPT ![c] = "broken"]
            /\ edge' = edge \/ edge' = edge \cup {c}
        BY <3>1 DEF SentToClosed, SentToReset
      <4> QED
        BY <4>1, <4>2 DEF InfoInv, TypeOK
    <3>2. CASE UNCHANGED <<link, edge>>
      BY <3>2 DEF InfoInv, TypeOK
    <3> QED
      BY <3>1, <3>2, <1>2 DEF Sent, NoRoom, SentToBroken
  <2> QED
    BY <1>1, <1>4, <2>1, <2>2, <2>3, <2>4 DEF InfoInv, TypeOK
<1>8. SlotsInv' /\ SlotsAreUsed' /\ ReadyIsCurrent'
  BY <1>1, <1>4 DEF InfoInv, SlotsInv, SlotsAreUsed, ReadyIsCurrent, Taken, Registered
<1>9. TimeInv'
  <2> SUFFICES ASSUME NEW slot \in Slots, Taken(slot)
               PROVE  /\ since'[Holder(slot)] <= elapsed
                      /\ data_ready'[slot] = 0 => since'[Holder(slot)] = 0
                      /\ slot < j + 1 => since'[Holder(slot)] = 0
    BY <1>1, <1>4 DEF TimeInv, Taken, Holder
  <2>1. since'[Holder(slot)] \in {since[Holder(slot)], 0} /\ elapsed \in Nat
    BY <1>3, <1>5, Constants DEF InfoInv, TypeOK
  <2>2. slot = j => since'[Holder(slot)] = 0
    BY <1>6
  <2>3. slot < j => since[Holder(slot)] = 0
    BY <1>1 DEF InfoInv, TimeInv
  <2>4. slot < j + 1 => slot = j \/ slot < j
    BY <1>1 DEF Slots
  <2> QED
    BY <2>1, <2>2, <2>3, <2>4, <1>1, <1>4 DEF InfoInv, TimeInv
<1> QED
  BY <1>7, <1>8, <1>9 DEF InfoInv

\* All slots have been passed: the clock may start again, for everybody.
LEMMA EndOfSendsKeeps == InfoInv /\ EndOfSends => InfoInv'
<1> SUFFICES ASSUME InfoInv, EndOfSends PROVE InfoInv'
  OBVIOUS
<1>1. /\ pc = "send" /\ j = MAX_CLIENTS /\ elapsed' = 0 /\ pc' = "log"
      /\ UNCHANGED <<socket_fd, outgoing_data, data_ready, j, opened, owner, backlog, edge,
                     link, down, client, since>>
  BY DEF EndOfSends, slotVars, netVars
<1>2. TypeOK'
  BY <1>1, Constants DEF InfoInv, TypeOK
<1>3. SlotsInv' /\ SlotsAreUsed' /\ ReadyIsCurrent'
  BY <1>1 DEF InfoInv, SlotsInv, SlotsAreUsed, ReadyIsCurrent, Taken, Registered
<1>4. \A slot \in Slots : Taken(slot) => since[Holder(slot)] = 0
  BY <1>1, Constants DEF InfoInv, TimeInv, Slots
<1>5. TimeInv'
  BY <1>1, <1>4, Constants DEF TimeInv, Taken, Holder
<1> QED
  BY <1>2, <1>3, <1>5 DEF InfoInv

-----------------------------------------------------------------------------
(* The steps of the clients, none of which touches the slots or the clock.  *)

LEMMA ClientKeeps == ASSUME InfoInv, NEW c \in Clients, ClientStep(c) PROVE InfoInv'
<1>1. UNCHANGED <<socket_fd, outgoing_data, data_ready, pc, j, elapsed, opened, owner, since>>
  BY DEF ClientStep, Connect, Read, ServerGone, Leave, serverVars, slotVars
<1>2. TypeOK'
  <2>1. CASE Connect(c)
    BY <1>1, <2>1, AppendProperties DEF Connect, InfoInv, TypeOK
  <2>2. CASE Read(c)
    BY <1>1, <2>2, Constants DEF Read, InfoInv, TypeOK
  <2>3. CASE ServerGone(c)
    BY <1>1, <2>3 DEF ServerGone, netVars, InfoInv, TypeOK
  <2>4. CASE Leave(c)
    BY <1>1, <2>4 DEF Leave, InfoInv, TypeOK
  <2> QED
    BY <2>1, <2>2, <2>3, <2>4 DEF ClientStep
<1>3. SlotsInv' /\ SlotsAreUsed' /\ ReadyIsCurrent' /\ TimeInv'
  BY <1>1 DEF InfoInv, SlotsInv, SlotsAreUsed, ReadyIsCurrent, TimeInv, Taken, Holder,
              Registered
<1> QED
  BY <1>2, <1>3 DEF InfoInv

-----------------------------------------------------------------------------
(* The theorems.                                                           *)

LEMMA NextKeeps == InfoInv /\ [Next]_vars => InfoInv'
<1> SUFFICES ASSUME InfoInv, [Next]_vars PROVE InfoInv'
  OBVIOUS
<1>1. CASE UNCHANGED vars
  BY <1>1, StutterKeeps
<1>2. CASE ServerStep
  BY <1>2, LogKeeps, EpollWaitKeeps, NewConnectionKeeps, TickKeeps, SendKeeps,
     EndOfSendsKeeps DEF ServerStep
<1>3. ASSUME NEW c \in Clients, ClientStep(c) PROVE InfoInv'
  BY <1>3, ClientKeeps
<1> QED
  BY <1>1, <1>2, <1>3 DEF Next

\* What a pass keeps true wherever the clients and the clock run in between.
THEOREM InfoInvariance == Spec => []InfoInv
<1>1. Init => InfoInv
  BY InitInfoInv
<1>2. InfoInv /\ [Next]_vars => InfoInv'
  BY NextKeeps
<1> QED
  BY <1>1, <1>2, PTL DEF Spec

\* info-server.c:345 accepts between the gathering and the sends: no client is
\* sent what was gathered for another, before it came, or not at all.
THEOREM ReadyDataIsCurrent == Spec => []ReadyIsCurrent
<1>1. InfoInv => ReadyIsCurrent
  BY DEF InfoInv
<1> QED
  BY <1>1, InfoInvariance, PTL

\* info-server.c:103 takes the first free slot: a connection that has none
\* found them all taken.
THEOREM NoSlotIsWasted == Spec => []SlotsAreUsed
<1>1. InfoInv => SlotsAreUsed
  BY DEF InfoInv
<1> QED
  BY <1>1, InfoInvariance, PTL

\* info-server.c:431-438 sends by one clock for all clients: none of them waits
\* longer than an interval and a pass, whenever it came.
THEOREM MessagesAreInTime == Spec => []SentInTime
<1>1. InfoInv => SentInTime
  <2> SUFFICES ASSUME InfoInv, pc # "dead", NEW c \in Clients, Registered(c)
               PROVE  since[c] <= MESSAGE_INTERVAL + MAX_STEP - 1
    BY DEF SentInTime
  <2>1. PICK slot \in Slots : Taken(slot) /\ Holder(slot) = c
    BY DEF Registered, Taken, Holder
  <2>2. since[c] <= elapsed
    BY <2>1 DEF InfoInv, TimeInv
  <2>3. elapsed \in Int /\ elapsed <= Cap - 1 /\ since[c] \in Int
    BY Constants DEF InfoInv, TypeOK
  <2> QED
    BY <2>2, <2>3, Constants
<1> QED
  BY <1>1, InfoInvariance, PTL

===============================================================================
