------------------------- MODULE RoutingServerProofs -------------------------
(***************************************************************************)
(* RoutingTable implements RouteBag, for tables of any length; and the     *)
(* safety of RoutingServer, which keeps such a table, for any clients,     *)
(* slots and descriptors.                                                  *)
(***************************************************************************)
EXTENDS RoutingServer, DataLemmas, FiniteSetTheorems, TLAPS

tvars == <<tableVars, ret>>

TableInv == TableTypeOK /\ UsedAreRoutes

-----------------------------------------------------------------------------
(* Type correctness, and the contents of the used entries.                 *)

LEMMA TableInitInv == TableInit => TableInv
  BY RoutingTableAssumption
     DEF TableInit, TableInv, TableTypeOK, UsedAreRoutes, InUse, Entries

LEMMA TableNextInv == TableInv /\ [TableNext]_tvars => TableInv'
<1> SUFFICES ASSUME TableInv, [TableNext]_tvars PROVE TableInv'
  OBVIOUS
<1> USE RoutingTableAssumption
    DEF TableInv, TableTypeOK, UsedAreRoutes, InUse, Entries, tableVars
<1>1. CASE init_routing_table \/ reset_table_changed
  BY <1>1 DEF init_routing_table, reset_table_changed
<1>2. ASSUME NEW r \in Routes, add_route(r) PROVE TableInv'
  BY <1>2 DEF add_route, HasRoom
<1>3. ASSUME NEW d \in Destinations, delete_route(d) PROVE TableInv'
  BY <1>3 DEF delete_route, FindsRoute, LastUsed
<1>4. ASSUME NEW d \in Destinations, NEW r \in Routes, update_route(d, r)
      PROVE  TableInv'
  BY <1>4 DEF update_route, FindsRoute
<1>5. CASE UNCHANGED tvars
  BY <1>5 DEF tvars
<1> QED
  BY <1>1, <1>2, <1>3, <1>4, <1>5 DEF TableNext

\* The table's size stays within the array and every entry in use is a route
\* that was stored: the move of the last entry never brings back old bytes.
THEOREM TableSound == TableSpec => [](TableTypeOK /\ UsedAreRoutes)
<1>1. TableInit => TableInv
  BY TableInitInv
<1>2. TableInv /\ [TableNext]_<<tableVars, ret>> => TableInv'
  BY TableNextInv DEF tvars
<1>3. TableInv => TableTypeOK /\ UsedAreRoutes
  BY DEF TableInv
<1> QED
  BY <1>1, <1>2, <1>3, PTL DEF TableSpec

-----------------------------------------------------------------------------
(* Counting.                                                               *)

Places(r) == {n \in InUse : routing_table[n] = r}

LEMMA PlacesFinite ==
  ASSUME TableTypeOK
  PROVE  \A r : IsFiniteSet(Places(r)) /\ Times(r) = Cardinality(Places(r))
                /\ Times(r) \in Nat
<1>1. IsFiniteSet(Entries)
  BY FS_Interval, RoutingTableAssumption DEF Entries
<1>2. \A r : Places(r) \subseteq Entries
  BY DEF Places, InUse
<1> QED
  BY <1>1, <1>2, FS_Subset, FS_CardinalityType DEF Places, Times

\* A set with one element more, or one less.
LEMMA OneMore ==
  ASSUME NEW S, NEW x, IsFiniteSet(S), x \notin S
  PROVE  Cardinality(S \cup {x}) = Cardinality(S) + 1
  BY FS_AddElement

LEMMA OneLess ==
  ASSUME NEW S, NEW x, IsFiniteSet(S), x \in S
  PROVE  Cardinality(S \ {x}) = Cardinality(S) - 1
  BY FS_RemoveElement

LEMMA Swapped ==
  ASSUME NEW S, NEW x, NEW y, IsFiniteSet(S), x \in S, y \notin S
  PROVE  Cardinality((S \ {x}) \cup {y}) = Cardinality(S)
<1>1. IsFiniteSet(S \ {x}) /\ Cardinality(S \ {x}) = Cardinality(S) - 1
  BY FS_RemoveElement
<1>2. Cardinality((S \ {x}) \cup {y}) = Cardinality(S \ {x}) + 1
  BY <1>1, FS_AddElement
<1>3. Cardinality(S) \in Nat
  BY FS_CardinalityType
<1> QED
  BY <1>1, <1>2, <1>3

LEMMA AddTimes ==
  ASSUME TableInv, NEW e \in Routes, add_route(e), ret' = 1, NEW r \in Routes,
         HasRoom
  PROVE  Times(r)' = IF r = e THEN Times(r) + 1 ELSE Times(r)
<1>1. /\ table_size \in Entries /\ table_size' = table_size + 1
      /\ routing_table' = [routing_table EXCEPT ![table_size] = e]
  BY RoutingTableAssumption DEF TableInv, TableTypeOK, add_route, HasRoom, Entries
<1>2. Places(r)' = IF r = e THEN Places(r) \cup {table_size} ELSE Places(r)
  BY <1>1 DEF Places, InUse, TableInv, TableTypeOK, Entries
<1>3. table_size \notin Places(r)
  BY DEF Places, InUse, TableInv, TableTypeOK
<1> QED
  BY <1>2, <1>3, PlacesFinite, OneMore DEF TableInv, Times, Places

LEMMA UpdateTimes ==
  ASSUME TableInv, NEW e \in Routes, NEW n \in InUse,
         routing_table' = [routing_table EXCEPT ![n] = e],
         table_size' = table_size, NEW r \in Routes
  PROVE  LET old == routing_table[n] IN
         /\ r # old /\ r # e => Times(r)' = Times(r)
         /\ r = old /\ r = e => Times(r)' = Times(r)
         /\ r = old /\ r # e => Times(r)' = Times(r) - 1
         /\ r # old /\ r = e => Times(r)' = Times(r) + 1
<1> DEFINE old == routing_table[n]
<1>1. /\ r # old /\ r # e => Places(r)' = Places(r)
      /\ r = old /\ r = e => Places(r)' = Places(r)
      /\ r = old /\ r # e => Places(r)' = Places(r) \ {n} /\ n \in Places(r)
      /\ r # old /\ r = e => Places(r)' = Places(r) \cup {n} /\ n \notin Places(r)
  BY DEF Places, InUse, TableInv, TableTypeOK
<1>2. Times(r)' = Cardinality(Places(r)')
  BY DEF Times, Places
<1> QED
  BY <1>1, <1>2, PlacesFinite, OneMore, OneLess DEF TableInv

LEMMA DeleteTimes ==
  ASSUME TableInv, NEW n \in InUse,
         routing_table' = [routing_table EXCEPT ![n] = routing_table[LastUsed]],
         table_size' = table_size - 1, NEW r \in Routes
  PROVE  Times(r)' = IF r = routing_table[n] THEN Times(r) - 1 ELSE Times(r)
<1> DEFINE old  == routing_table[n]
           last == routing_table[LastUsed]
<1> USE DEF Places, InUse, TableInv, TableTypeOK, Entries
<1>1. /\ LastUsed = table_size - 1 /\ LastUsed \in InUse
      /\ InUse' = InUse \ {LastUsed}
  <2>1. table_size \in 1 .. MAX_ROUTE_TABLE_ENTRY /\ MAX_ROUTE_TABLE_ENTRY \in Nat
    BY RoutingTableAssumption
  <2>2. \A m \in Entries : m < table_size - 1 <=> m < table_size /\ m # table_size - 1
    BY <2>1
  <2> QED
    BY <2>1, <2>2 DEF LastUsed
<1>2. Times(r)' = Cardinality(Places(r)')
  BY DEF Times
<1>3. CASE n = LastUsed
  <2>1. Places(r)' = Places(r) \ {n} /\ (n \in Places(r) <=> r = old)
    BY <1>1, <1>3
  <2>2. r # old => Places(r)' = Places(r)
    BY <2>1
  <2> HIDE DEF Places, TableTypeOK
  <2> QED
    BY <1>2, <2>1, <2>2, PlacesFinite, OneLess
<1>4. CASE n # LastUsed
  <2>1. n \in InUse' /\ LastUsed \notin InUse'
    BY <1>1, <1>4
  <2>2. /\ r = old /\ r = last => Places(r)' = Places(r) \ {LastUsed}
        /\ r = old /\ r # last => Places(r)' = Places(r) \ {n}
        /\ r # old /\ r = last => Places(r)' = (Places(r) \ {LastUsed}) \cup {n}
        /\ r # old /\ r # last => Places(r)' = Places(r)
    BY <1>1, <1>4
  <2>3. /\ r = last => LastUsed \in Places(r)
        /\ r = old  => n \in Places(r)
        /\ r # old  => n \notin Places(r)
    BY <1>1
  <2> HIDE DEF Places
  <2> QED
    BY <1>2, <2>2, <2>3, PlacesFinite, OneLess, Swapped
<1> QED
  BY <1>3, <1>4

-----------------------------------------------------------------------------
(* Refinement.                                                             *)

LEMMA NoPlaces ==
  ASSUME TableInv, NEW d \in Destinations, NoRouteTo(d)
  PROVE  \A r \in Routes : destination[r] = d => Times(r) = 0
<1> SUFFICES ASSUME NEW r \in Routes, destination[r] = d PROVE Times(r) = 0
  OBVIOUS
<1> DEFINE T == {n \in InUse : destination[routing_table[n]] = d}
<1>1. T = {}
  <2>1. T \subseteq Nat
    BY DEF InUse, Entries
  <2>2. \A n \in T : (\A m \in T : n <= m) => FindsRoute(d, n)
    BY DEF FindsRoute, InUse, Entries
  <2>3. \A n \in T : n \in Entries
    BY DEF InUse
  <2> HIDE DEF T
  <2> QED
    BY <2>1, <2>2, <2>3, LeastNumber DEF NoRouteTo
<1>2. Places(r) = {}
  BY <1>1 DEF Places
<1> QED
  BY <1>2, PlacesFinite, FS_EmptySet DEF TableInv

\* An entry that is found is in the bag.
LEMMA FoundTimes ==
  ASSUME TableInv, NEW d, NEW n, FindsRoute(d, n)
  PROVE  /\ routing_table[n] \in Routes /\ n \in InUse
         /\ destination[routing_table[n]] = d
         /\ Times(routing_table[n]) > 0
<1>1. /\ routing_table[n] \in Routes /\ n \in InUse
      /\ destination[routing_table[n]] = d
  BY DEF FindsRoute, TableInv, UsedAreRoutes
<1>2. n \in Places(routing_table[n])
  BY <1>1 DEF Places
<1>3. /\ Cardinality(Places(routing_table[n])) # 0
      /\ Times(routing_table[n]) = Cardinality(Places(routing_table[n]))
      /\ Times(routing_table[n]) \in Nat
  BY <1>2, PlacesFinite, FS_EmptySet DEF TableInv
<1> QED
  BY <1>1, <1>3

-----------------------------------------------------------------------------
(* Refinement.                                                             *)

count == [r \in Routes |-> Times(r)]

LEMMA BagInitHolds == TableInit => Bag!BagInit
<1> SUFFICES ASSUME TableInit PROVE Bag!BagInit
  OBVIOUS
<1>1. \A r : Places(r) = {}
  BY DEF TableInit, Places, InUse, Entries
<1>2. \A r \in Routes : Times(r) = 0
  BY <1>1, FS_EmptySet DEF Times, Places
<1> QED
  BY <1>2 DEF TableInit, Bag!BagInit

LEMMA BagStep ==
  ASSUME TableInv, TableNext
  PROVE  Bag!BagNext \/ UNCHANGED <<count, table_size, ret>>
<1>1. CASE init_routing_table
  <2>1. \A r : Places(r)' = {}
    BY <1>1 DEF init_routing_table, Places, InUse, Entries
  <2>2. \A r \in Routes : Times(r)' = 0
    BY <2>1, FS_EmptySet DEF Times, Places
  <2>3. Bag!Reset
    BY <1>1, <2>2 DEF init_routing_table, Bag!Reset
  <2> QED
    BY <2>3 DEF Bag!BagNext
<1>2. CASE reset_table_changed
  BY <1>2 DEF reset_table_changed, count, Times, InUse
<1>3. ASSUME NEW e \in Routes, add_route(e)
      PROVE  Bag!Add(e)
  <2>1. CASE HasRoom
    <3>1. table_size < MAX_ROUTE_TABLE_ENTRY /\ table_size' = table_size + 1 /\ ret' = 1
      BY <1>3, <2>1 DEF add_route, HasRoom
    <3>2. \A r \in Routes : Times(r)' = IF r = e THEN Times(r) + 1 ELSE Times(r)
      BY <1>3, <2>1, <3>1, AddTimes
    <3>3. count' = [count EXCEPT ![e] = @ + 1]
      BY <3>2 DEF count
    <3> QED
      BY <3>1, <3>3 DEF Bag!Add, count
  <2>2. CASE ~HasRoom
    <3>1. table_size = MAX_ROUTE_TABLE_ENTRY /\ ret' = 0 /\ UNCHANGED tableVars
      BY <1>3, <2>2, RoutingTableAssumption
         DEF add_route, HasRoom, TableInv, TableTypeOK
    <3>2. UNCHANGED <<count, table_size>>
      BY <3>1 DEF tableVars, count, Times, InUse
    <3> QED
      BY <3>1, <3>2 DEF Bag!Add, count
  <2> QED
    BY <2>1, <2>2
<1>4. ASSUME NEW d \in Destinations, NoRouteTo(d), ret' = 0, UNCHANGED tableVars
      PROVE  Bag!Delete(d) /\ \A e \in Routes : Bag!Update(d, e)
  <2>1. Bag!Unknown(d)
    BY <1>4, NoPlaces DEF Bag!Unknown
  <2>2. UNCHANGED <<count, table_size>>
    BY <1>4 DEF tableVars, count, Times, InUse
  <2> QED
    BY <1>4, <2>1, <2>2 DEF Bag!Delete, Bag!Update, count
<1>5. ASSUME NEW d \in Destinations, delete_route(d)
      PROVE  Bag!Delete(d)
  <2>1. CASE ret' = 1
    <3>1. PICK n \in Entries :
            /\ FindsRoute(d, n)
            /\ routing_table' = [routing_table EXCEPT ![n] = routing_table[LastUsed]]
      BY <1>5, <2>1 DEF delete_route
    <3>2. table_size' = table_size - 1
      BY <1>5, <2>1 DEF delete_route
    <3> DEFINE old == routing_table[n]
    <3>3. old \in Routes /\ n \in InUse /\ destination[old] = d /\ Times(old) > 0
      BY <3>1, FoundTimes
    <3>4. \A r \in Routes : Times(r)' = IF r = old THEN Times(r) - 1 ELSE Times(r)
      BY <3>1, <3>2, <3>3, DeleteTimes
    <3> HIDE DEF old
    <3>5. count' = [count EXCEPT ![old] = @ - 1] /\ count[old] > 0
      BY <3>3, <3>4 DEF count
    <3> QED
      BY <2>1, <3>2, <3>3, <3>5 DEF Bag!Delete, count
  <2>2. CASE ret' # 1
    BY <1>4, <1>5, <2>2 DEF delete_route
  <2> QED
    BY <2>1, <2>2
<1>6. ASSUME NEW d \in Destinations, NEW e \in Routes, update_route(d, e)
      PROVE  Bag!Update(d, e)
  <2>1. CASE ret' = 1
    <3>1. PICK n \in Entries :
            /\ FindsRoute(d, n)
            /\ routing_table' = [routing_table EXCEPT ![n] = e]
      BY <1>6, <2>1 DEF update_route
    <3>2. table_size' = table_size
      BY <1>6, <2>1 DEF update_route
    <3> DEFINE old == routing_table[n]
    <3>3. old \in Routes /\ n \in InUse /\ destination[old] = d /\ Times(old) > 0
      BY <3>1, FoundTimes
    <3>4. ASSUME NEW r \in Routes
          PROVE  /\ r # old /\ r # e => Times(r)' = Times(r)
                 /\ r = old /\ r = e => Times(r)' = Times(r)
                 /\ r = old /\ r # e => Times(r)' = Times(r) - 1
                 /\ r # old /\ r = e => Times(r)' = Times(r) + 1
      BY <3>1, <3>2, <3>3, UpdateTimes
    <3>5. \A r \in Routes : Times(r) \in Nat
      BY PlacesFinite DEF TableInv
    <3> HIDE DEF old
    <3>6. /\ count' = [[count EXCEPT ![old] = @ - 1] EXCEPT ![e] = @ + 1]
          /\ count[old] > 0
      BY <3>3, <3>4, <3>5 DEF count
    <3> QED
      BY <2>1, <3>2, <3>3, <3>6 DEF Bag!Update, count
  <2>2. CASE ret' # 1
    BY <1>4, <1>6, <2>2 DEF update_route
  <2> QED
    BY <2>1, <2>2
<1> QED
  BY <1>1, <1>2, <1>3, <1>5, <1>6 DEF TableNext, Bag!BagNext

\* For callers the table is a bounded unordered collection: whatever the order
\* of calls, no route is lost, duplicated or made up by the array's bookkeeping.
THEOREM TableImplementsBag == TableSpec => ImplementsBag
<1>1. TableInit => Bag!BagInit
  BY BagInitHolds
<1>2. TableInv /\ [TableNext]_<<tableVars, ret>> => [Bag!BagNext]_(Bag!bagVars)
  <2> SUFFICES ASSUME TableInv, [TableNext]_<<tableVars, ret>>
               PROVE  Bag!BagNext \/ UNCHANGED Bag!bagVars
    OBVIOUS
  <2>1. CASE TableNext
    BY <2>1, BagStep DEF Bag!bagVars, count
  <2>2. CASE UNCHANGED <<tableVars, ret>>
    BY <2>2 DEF tableVars, Bag!bagVars, Times, InUse
  <2> QED
    BY <2>1, <2>2
<1>3. TableInit => TableInv
  BY TableInitInv
<1>4. TableInv /\ [TableNext]_<<tableVars, ret>> => TableInv'
  BY TableNextInv DEF tvars
<1> QED
  BY <1>1, <1>2, <1>3, <1>4, PTL DEF TableSpec, ImplementsBag, Bag!BagSpec

-----------------------------------------------------------------------------
(* The server: its invariant.                                              *)

InBacklog(c) == \E n \in DOMAIN backlog : backlog[n] = c
Owns(c)      == \E fd \in Fds : owner[fd] = c
HasNews(c)   == up[c] # <<>> \/ link[c] # "up"

\* A connection is in the backlog once, or it has one open descriptor.
ConnectionsInv ==
  /\ \A c \in Clients : client[c] = "start" => ~InBacklog(c) /\ ~Owns(c)
  /\ \A c \in Clients : InBacklog(c) => ~Owns(c)
  /\ \A m, n \in DOMAIN backlog : backlog[m] = backlog[n] => m = n
  /\ \A f, g \in Fds : owner[f] = owner[g] /\ owner[f] # NoClient => f = g
  /\ pc # "dead" =>
       /\ 0 .. LISTEN \subseteq opened
       /\ \A fd \in Fds : owner[fd] # NoClient => fd \in opened /\ fd > LISTEN

\* The array holds the console, the listening socket and connections.
ArrayInv ==
  \A slot \in Slots : \/ monitor_fd_set[slot] \in {Free, CONSOLE, LISTEN}
                      \/ monitor_fd_set[slot] > LISTEN

\* What select() reported of a slot that the scan has not come to is still so.
ScanInv ==
  /\ pc = "dispatch" /\ LISTEN \in readfds => backlog # <<>>
  /\ pc = "scan" => readfds \cap {LISTEN, CONSOLE} = {}
  /\ pc \in {"dispatch", "scan"} => \A slot \in Slots :
       /\ pc = "scan" => slot >= i
       /\ monitor_fd_set[slot] > LISTEN /\ monitor_fd_set[slot] \in readfds
       => HasNews(owner[monitor_fd_set[slot]])

RouteInv ==
  /\ TypeOK
  /\ UsedAreRoutes
  /\ ConnectionsInv
  /\ ArrayInv
  /\ MonitoredAreOpen
  /\ ScanInv
  /\ NobodyDropped
  /\ MonitoredAreUpToDate

-----------------------------------------------------------------------------
(* Facts about the array, the table and what is sent.                      *)

\* Overwriting changes at most one slot, and one that held the old value.
LEMMA OverwriteCases ==
  ASSUME NEW monitor, NEW old, NEW fd
  PROVE  \/ Overwrite(monitor, old, fd) = monitor
         \/ \E slot \in Slots :
              /\ monitor[slot] = old
              /\ Overwrite(monitor, old, fd) = [monitor EXCEPT ![slot] = fd]
  BY DEF Overwrite, IsFirst

LEMMA RemoveOnly ==
  ASSUME NEW monitor, NEW fd, NEW slot \in Slots,
         monitor[slot] = fd,
         \A other \in Slots : other # slot => monitor[other] # fd
  PROVE  remove_monitor_fd_set(monitor, fd) = [monitor EXCEPT ![slot] = Free]
<1>1. \A s \in Slots : IsFirst(monitor, fd, s) <=> s = slot
  BY DEF IsFirst, Slots
<1> QED
  BY <1>1 DEF remove_monitor_fd_set, Overwrite

\* A listing names used entries only, which are routes.
LEMMA ListingType == RouteInv => Listing \in Listings
<1> SUFFICES ASSUME RouteInv PROVE Listing \in Listings
  OBVIOUS
<1>1. InUse \in SUBSET Entries
  BY DEF InUse
<1>2. Listing \in [InUse -> Routes]
  BY DEF Listing, RouteInv, UsedAreRoutes
<1> QED
  BY <1>1, <1>2 DEF Listings

\* After one send each client of the set whose connection is up has the new
\* listing behind all others; no connection goes up or, when it was, down.
LEMMA SendToKeeps ==
  ASSUME TypeOK, NEW reached, SendTo(reached), Listing' \in Listings
  PROVE  /\ down' \in [Clients -> Seq(Listings)]
         /\ link' \in [Clients -> {"none", "up", "fin", "reset", "broken", "closed"}]
         /\ \A c \in Clients : link'[c] = "up" <=> link[c] = "up"
         /\ \A c \in Clients : c \notin reached \/ link[c] # "up" => down'[c] = down[c]
         /\ \A c \in Clients : c \in reached /\ link[c] = "up" =>
              down'[c] # <<>> /\ Last(down'[c]) = Listing'
<1>1. down' = [c \in Clients |-> IF c \in reached /\ link[c] = "up"
                                 THEN Append(down[c], Listing') ELSE down[c]]
  BY DEF SendTo
<1>2. PICK answered \in SUBSET {c \in reached : link[c] = "fin"} :
        link' = [c \in Clients |-> IF c \in answered \/ (c \in reached /\ link[c] = "reset")
                                   THEN "broken" ELSE link[c]]
  BY DEF SendTo
<1>3. \A c \in Clients : down[c] \in Seq(Listings)
  BY DEF TypeOK
<1>4. \A c \in Clients : Append(down[c], Listing') \in Seq(Listings)
  BY <1>3
<1>5. \A c \in Clients : /\ Append(down[c], Listing') # <<>>
                         /\ Last(Append(down[c], Listing')) = Listing'
  <2> SUFFICES ASSUME NEW c \in Clients
               PROVE  /\ Append(down[c], Listing') # <<>>
                      /\ Last(Append(down[c], Listing')) = Listing'
    OBVIOUS
  <2> DEFINE new == Append(down[c], Listing')
  <2>1. /\ new \in Seq(Listings)
        /\ Len(new) = Len(down[c]) + 1
        /\ new[Len(down[c]) + 1] = Listing'
        /\ Len(down[c]) \in Nat
    BY <1>3
  <2> HIDE DEF new
  <2>2. new # <<>>
    BY <2>1
  <2>3. Last(new) = Listing'
    BY <2>1 DEF Last
  <2> QED
    BY <2>2, <2>3 DEF new
<1>6. down' \in [Clients -> Seq(Listings)]
  <2> DEFINE new(c) == IF c \in reached /\ link[c] = "up"
                       THEN Append(down[c], Listing') ELSE down[c]
  <2>1. \A c \in Clients : new(c) \in Seq(Listings)
    BY <1>3, <1>4
  <2>2. down' = [c \in Clients |-> new(c)]
    BY <1>1
  <2> HIDE DEF new
  <2> QED
    BY <2>1, <2>2
<1>7. link' \in [Clients -> {"none", "up", "fin", "reset", "broken", "closed"}]
  BY <1>2 DEF TypeOK
<1>8. \A c \in Clients : link'[c] = "up" <=> link[c] = "up"
  BY <1>2
<1> QED
  BY <1>1, <1>5, <1>6, <1>7, <1>8

\* A slot with a connection has it for itself.
LEMMA OwnedSlot ==
  ASSUME RouteInv, pc # "dead", NEW slot \in Slots, monitor_fd_set[slot] > LISTEN
  PROVE  /\ monitor_fd_set[slot] \in Fds /\ monitor_fd_set[slot] \in opened
         /\ owner[monitor_fd_set[slot]] \in Clients
         /\ owner[monitor_fd_set[slot]] # NoClient
         /\ \A other \in Slots : other # slot =>
              /\ monitor_fd_set[other] # monitor_fd_set[slot]
              /\ monitor_fd_set[other] > LISTEN =>
                   /\ monitor_fd_set[other] \in Fds
                   /\ owner[monitor_fd_set[other]] # owner[monitor_fd_set[slot]]
<1>1. \A s \in Slots : monitor_fd_set[s] > LISTEN =>
        /\ monitor_fd_set[s] # Free
        /\ monitor_fd_set[s] \in Fds
        /\ owner[monitor_fd_set[s]] # NoClient
        /\ owner[monitor_fd_set[s]] \in Clients \cup {NoClient}
  BY DEF RouteInv, TypeOK, MonitoredAreOpen, LISTEN, Free
<1>2. \A s, t \in Slots : monitor_fd_set[s] = monitor_fd_set[t] /\ s # t =>
        monitor_fd_set[s] = Free
  BY DEF RouteInv, MonitoredAreOpen
<1>3. \A f, g \in Fds : owner[f] = owner[g] /\ owner[f] # NoClient => f = g
  BY DEF RouteInv, ConnectionsInv
<1>4. monitor_fd_set[slot] \in opened
  BY <1>1 DEF RouteInv, MonitoredAreOpen
<1> QED
  BY <1>1, <1>2, <1>3, <1>4

-----------------------------------------------------------------------------
(* The first state.                                                        *)

LEMMA InitRouteInv == Init => RouteInv
<1> SUFFICES ASSUME Init PROVE RouteInv
  OBVIOUS
<1> USE DEF CONSOLE, LISTEN, Free
<1> DEFINE m1 == add_monitor_fd_set(init_monitor_fd_set, CONSOLE)
<1>1. init_monitor_fd_set \in [Slots -> {Free}]
  BY DEF init_monitor_fd_set
<1>2. /\ m1 \in [Slots -> {Free, CONSOLE}]
      /\ \A s, t \in Slots : m1[s] = CONSOLE /\ m1[t] = CONSOLE => s = t
  BY <1>1, OverwriteCases DEF add_monitor_fd_set
<1>3. monitor_fd_set = add_monitor_fd_set(m1, LISTEN)
  BY DEF Init
<1> HIDE DEF m1
<1>4. /\ monitor_fd_set \in [Slots -> {Free, CONSOLE, LISTEN}]
      /\ \A s, t \in Slots :
           monitor_fd_set[s] = monitor_fd_set[t] /\ s # t => monitor_fd_set[s] = Free
  BY <1>2, <1>3, OverwriteCases DEF add_monitor_fd_set
<1>5. {CONSOLE, LISTEN} \subseteq Fds /\ 0 .. LISTEN \subseteq Fds
  BY RoutingServerAssumption DEF Fds
<1>6. TableTypeOK /\ UsedAreRoutes
  BY RoutingTableAssumption, RoutingServerAssumption
     DEF Init, TableTypeOK, UsedAreRoutes, InUse, Entries
<1>7. Nothing \in Listings
  <2>1. {} \in SUBSET Entries /\ Nothing \in [{} -> Routes]
    BY DEF Nothing
  <2> QED
    BY <2>1 DEF Listings
<1>8. 0 \in Slots
  BY MonitorSetAssumption DEF Slots
<1>9. TypeOK
  BY <1>4, <1>5, <1>6, <1>7, <1>8 DEF Init, TypeOK
<1>10. ConnectionsInv
  <2>1. owner = [fd \in Fds |-> NoClient] /\ NoClient \notin Clients
    BY RoutingServerAssumption DEF Init
  <2>2. backlog = <<>> /\ DOMAIN backlog = {} /\ opened = 0 .. LISTEN
    BY DEF Init
  <2> QED
    BY <2>1, <2>2 DEF ConnectionsInv, InBacklog, Owns
<1>11. ArrayInv /\ MonitoredAreOpen
  BY <1>4 DEF Init, ArrayInv, MonitoredAreOpen
<1>12. ScanInv /\ NobodyDropped
  BY DEF Init, ScanInv, NobodyDropped, IsLive
<1>13. MonitoredAreUpToDate
  BY DEF Init, MonitoredAreUpToDate
<1> QED
  BY <1>6, <1>9, <1>10, <1>11, <1>12, <1>13 DEF RouteInv

-----------------------------------------------------------------------------
(* Steps that leave most of the state alone.                               *)

LEMMA SameTable ==
  ASSUME RouteInv, UNCHANGED routeVars
  PROVE  TableTypeOK' /\ UsedAreRoutes' /\ Listing' = Listing
<1> USE DEF RouteInv, TypeOK, routeVars, tableVars
<1>1. InUse' = InUse
  BY DEF InUse
<1>2. TableTypeOK'
  BY DEF TableTypeOK
<1>3. UsedAreRoutes'
  BY <1>1 DEF UsedAreRoutes
<1> QED
  BY <1>1, <1>2, <1>3 DEF Listing

\* Once the server is dead only what its kernel knew of is left to show.
LEMMA DyingKeeps ==
  ASSUME RouteInv, TypeOK', UsedAreRoutes', pc' = "dead",
         UNCHANGED <<owner, backlog, client, monitor_fd_set>>
  PROVE  RouteInv'
<1>1. ConnectionsInv'
  BY DEF RouteInv, ConnectionsInv, InBacklog, Owns
<1>2. ArrayInv'
  BY DEF RouteInv, ArrayInv
<1>3. MonitoredAreOpen' /\ ScanInv' /\ NobodyDropped' /\ MonitoredAreUpToDate'
  BY DEF MonitoredAreOpen, ScanInv, NobodyDropped, MonitoredAreUpToDate
<1> QED
  BY <1>1, <1>2, <1>3 DEF RouteInv

\* A step of the loop that touches no connection.
LEMMA LoopKeeps ==
  ASSUME RouteInv, TypeOK', ScanInv', pc # "dead" \/ pc' = "dead",
         UNCHANGED <<monitor_fd_set, opened, owner, routeVars, netVars, clientVars>>
  PROVE  RouteInv'
<1>1. UsedAreRoutes' /\ Listing' = Listing
  BY SameTable
<1> USE DEF RouteInv, netVars, clientVars
<1>2. ConnectionsInv'
  BY DEF ConnectionsInv, InBacklog, Owns
<1>3. ArrayInv' /\ MonitoredAreOpen'
  BY DEF ArrayInv, MonitoredAreOpen
<1>4. NobodyDropped'
  BY DEF NobodyDropped, IsLive
<1>5. MonitoredAreUpToDate'
  BY <1>1 DEF MonitoredAreUpToDate, Monitored, LastSent
<1> QED
  BY <1>1, <1>2, <1>3, <1>4, <1>5

LEMMA SelectKeeps == RouteInv /\ Select => RouteInv'
<1> SUFFICES ASSUME RouteInv, Select PROVE RouteInv'
  OBVIOUS
<1> USE DEF Select, Die
<1>1. CASE Watched(monitor_fd_set) \subseteq opened
  <2>1. /\ readfds' = {fd \in Watched(monitor_fd_set) : FdReadable(fd)}
        /\ pc' = "dispatch" /\ opened' = opened
    BY <1>1
  <2>2. TypeOK'
    BY <1>1, <2>1, SameTable DEF RouteInv, TypeOK, netVars, clientVars
  <2>3. ScanInv'
    <3>1. ASSUME NEW slot \in Slots, monitor_fd_set[slot] > LISTEN,
                 monitor_fd_set[slot] \in readfds'
          PROVE  HasNews(owner[monitor_fd_set[slot]])
      <4>1. FdReadable(monitor_fd_set[slot])
        BY <2>1, <3>1
      <4>2. monitor_fd_set[slot] # CONSOLE /\ monitor_fd_set[slot] # LISTEN
        BY <3>1 DEF CONSOLE, LISTEN, RouteInv, TypeOK, Fds
      <4> QED
        BY <4>1, <4>2 DEF FdReadable, HasNews
    <3>2. ASSUME LISTEN \in readfds' PROVE backlog # <<>>
      <4>1. FdReadable(LISTEN)
        BY <2>1, <3>2
      <4>2. pc # "dead" /\ LISTEN \in Fds
        BY RoutingServerAssumption DEF LISTEN, Fds
      <4>3. LISTEN # CONSOLE /\ owner[LISTEN] = NoClient
        BY <4>2 DEF RouteInv, ConnectionsInv, LISTEN, CONSOLE
      <4> QED
        BY <4>1, <4>3 DEF FdReadable
    <3> QED
      BY <2>1, <3>1, <3>2 DEF ScanInv, HasNews, netVars
  <2>4. pc # "dead"
    OBVIOUS
  <2> QED
    BY <2>1, <2>2, <2>3, <2>4, LoopKeeps
<1>2. CASE ~ (Watched(monitor_fd_set) \subseteq opened)
  <2>1. TypeOK'
    BY <1>2, SameTable DEF RouteInv, TypeOK, netVars, clientVars
  <2>2. UsedAreRoutes'
    BY SameTable
  <2>3. pc' = "dead" /\ UNCHANGED <<owner, backlog, client, monitor_fd_set>>
    BY <1>2 DEF netVars, clientVars
  <2> QED
    BY <2>1, <2>2, <2>3, DyingKeeps
<1> QED
  BY <1>1, <1>2

LEMMA LoopStepsKeep ==
  ASSUME RouteInv, ReadConsole \/ BeginScan \/ EndScan PROVE RouteInv'
<1>1. /\ pc # "dead"
      /\ UNCHANGED <<monitor_fd_set, opened, owner, routeVars, netVars, clientVars>>
  BY DEF ReadConsole, BeginScan, EndScan, fdVars
<1>2. TypeOK'
  <2>1. 0 \in Slots
    BY MonitorSetAssumption DEF Slots
  <2>2. ConsoleLengths \subseteq 0 .. MAX_TEXT
    BY RoutingServerAssumption
  <2> QED
    BY <1>1, <2>1, <2>2, SameTable
       DEF RouteInv, TypeOK, netVars, clientVars, ReadConsole, BeginScan, EndScan
<1>3. ScanInv'
  BY DEF RouteInv, ScanInv, HasNews, netVars, fdVars, ReadConsole, BeginScan, EndScan
<1> QED
  BY <1>1, <1>2, <1>3, LoopKeeps

LEMMA TypeAtConsoleKeeps == RouteInv /\ TypeAtConsole => RouteInv'
<1> SUFFICES ASSUME RouteInv, TypeAtConsole PROVE RouteInv'
  OBVIOUS
<1> USE DEF TypeAtConsole, serverVars, fdVars
<1>1. UNCHANGED <<monitor_fd_set, opened, owner, routeVars, netVars, clientVars, pc>>
  OBVIOUS
<1>2. TypeOK'
  BY SameTable DEF RouteInv, TypeOK, netVars, clientVars
<1>3. ScanInv'
  BY DEF RouteInv, ScanInv, HasNews, netVars
<1> QED
  BY <1>1, <1>2, <1>3, LoopKeeps

-----------------------------------------------------------------------------
(* Accepting a connection.                                                 *)

\* The first of a queue, and the places of the others.
LEMMA QueueFacts ==
  ASSUME NEW queue \in Seq(Clients), queue # <<>>
  PROVE  /\ Head(queue) \in Clients /\ Tail(queue) \in Seq(Clients)
         /\ 1 \in DOMAIN queue /\ queue[1] = Head(queue)
         /\ \A n \in DOMAIN Tail(queue) :
              n + 1 \in DOMAIN queue /\ Tail(queue)[n] = queue[n + 1] /\ n # 0
<1>1. Len(queue) \in Nat /\ Len(queue) # 0 /\ DOMAIN queue = 1 .. Len(queue)
  OBVIOUS
<1>2. /\ Tail(queue) \in Seq(Clients) /\ Len(Tail(queue)) = Len(queue) - 1
      /\ DOMAIN Tail(queue) = 1 .. Len(Tail(queue))
      /\ \A n \in 1 .. Len(queue) - 1 : Tail(queue)[n] = queue[n + 1]
  BY <1>1
<1>3. queue[1] = Head(queue) /\ Head(queue) \in Clients
  BY <1>1
<1> QED
  BY <1>1, <1>2, <1>3

LEMMA AcceptKeeps ==
  ASSUME RouteInv, pc = "dispatch", NEW fd \in Fds \ opened, Accept(fd),
         backlog # <<>>, SendTo({Head(backlog)}), UNCHANGED routeVars,
         UNCHANGED <<readfds, i, filled, console, up, clientVars>>
  PROVE  RouteInv'
<1> DEFINE c == Head(backlog)
<1> USE DEF Accept, clientVars
<1>1. TableTypeOK' /\ UsedAreRoutes' /\ Listing' = Listing
  BY SameTable
<1>2. /\ backlog \in Seq(Clients) /\ c \in Clients /\ c # NoClient
      /\ backlog' \in Seq(Clients)
      /\ 1 \in DOMAIN backlog /\ backlog[1] = c
      /\ \A n \in DOMAIN backlog' :
           n + 1 \in DOMAIN backlog /\ backlog'[n] = backlog[n + 1] /\ n # 0
  <2>1. backlog \in Seq(Clients) /\ backlog' = Tail(backlog)
    BY DEF RouteInv, TypeOK
  <2>2. NoClient \notin Clients
    BY RoutingServerAssumption
  <2> QED
    BY <2>1, <2>2, QueueFacts
<1> HIDE DEF c
<1>3. /\ down' \in [Clients -> Seq(Listings)]
      /\ link' \in [Clients -> {"none", "up", "fin", "reset", "broken", "closed"}]
      /\ \A d \in Clients : link'[d] = "up" <=> link[d] = "up"
      /\ \A d \in Clients : d # c => down'[d] = down[d]
      /\ link[c] = "up" => down'[c] # <<>> /\ Last(down'[c]) = Listing
  <2>1. TypeOK /\ Listing' \in Listings
    BY <1>1, ListingType DEF RouteInv
  <2> QED
    BY <1>1, <1>2, <2>1, SendToKeeps DEF c
<1>4. /\ 0 .. LISTEN \subseteq opened
      /\ \A f \in Fds : owner[f] # NoClient => f \in opened /\ f > LISTEN
      /\ \A f \in Fds : owner[f] # c
  BY <1>2 DEF RouteInv, ConnectionsInv, InBacklog, Owns
<1>5. fd > LISTEN /\ fd # Free /\ fd > 0 /\ fd \in Fds
  BY <1>4 DEF Fds, LISTEN, Free
<1>6. /\ monitor_fd_set \in [Slots -> Fds \cup {Free}]
      /\ owner \in [Fds -> Clients \cup {NoClient}] /\ opened \subseteq Fds
      /\ owner' = [owner EXCEPT ![fd] = c]
  BY DEF RouteInv, TypeOK, c
<1>7. \/ monitor_fd_set' = monitor_fd_set
      \/ \E slot \in Slots : /\ monitor_fd_set[slot] = Free
                             /\ monitor_fd_set' = [monitor_fd_set EXCEPT ![slot] = fd]
  BY OverwriteCases DEF add_monitor_fd_set
<1>8. /\ monitor_fd_set' \in [Slots -> Fds \cup {Free}]
      /\ \A slot \in Slots : \/ monitor_fd_set'[slot] = monitor_fd_set[slot]
                             \/ monitor_fd_set'[slot] = fd
      /\ \A s, t \in Slots : monitor_fd_set'[s] = fd /\ monitor_fd_set'[t] = fd
                               => s = t
  <2>1. \A slot \in Slots : monitor_fd_set[slot] # fd
    BY <1>5 DEF RouteInv, MonitoredAreOpen
  <2> QED
    BY <1>5, <1>6, <1>7, <2>1
<1>9. TypeOK'
  BY <1>1, <1>2, <1>3, <1>5, <1>6, <1>8 DEF RouteInv, TypeOK
<1>10. ConnectionsInv'
  <2>1. \A d \in Clients : InBacklog(d)' => InBacklog(d) /\ d # c
    BY <1>2 DEF RouteInv, ConnectionsInv, InBacklog
  <2>2. \A d \in Clients : Owns(d)' => Owns(d) \/ d = c
    BY <1>6 DEF Owns
  <2>3. InBacklog(c)
    BY <1>2 DEF InBacklog
  <2>4. \A d \in Clients : client[d] = "start" => ~InBacklog(d)' /\ ~Owns(d)'
    BY <2>1, <2>2, <2>3 DEF RouteInv, ConnectionsInv
  <2>5. \A d \in Clients : InBacklog(d)' => ~Owns(d)'
    BY <2>1, <2>2 DEF RouteInv, ConnectionsInv
  <2>6. \A m, n \in DOMAIN backlog' : backlog'[m] = backlog'[n] => m = n
    <3> SUFFICES ASSUME NEW m \in DOMAIN backlog', NEW n \in DOMAIN backlog',
                        backlog'[m] = backlog'[n]
                 PROVE  m = n
      OBVIOUS
    <3>1. m + 1 = n + 1
      BY <1>2 DEF RouteInv, ConnectionsInv
    <3>2. m \in Nat /\ n \in Nat
      BY <1>2
    <3> QED
      BY <3>1, <3>2
  <2>7. \A f, g \in Fds : owner'[f] = owner'[g] /\ owner'[f] # NoClient => f = g
    BY <1>4, <1>6 DEF RouteInv, ConnectionsInv
  <2>8. /\ 0 .. LISTEN \subseteq opened'
        /\ \A f \in Fds : owner'[f] # NoClient => f \in opened' /\ f > LISTEN
    BY <1>4, <1>5, <1>6
  <2> QED
    BY <2>4, <2>5, <2>6, <2>7, <2>8 DEF ConnectionsInv
<1>11. ArrayInv'
  BY <1>5, <1>8 DEF RouteInv, ArrayInv
<1>12. MonitoredAreOpen'
  <2>1. \A slot \in Slots : monitor_fd_set[slot] # Free =>
          /\ monitor_fd_set[slot] \in opened
          /\ monitor_fd_set[slot] > LISTEN => owner[monitor_fd_set[slot]] # NoClient
    BY DEF RouteInv, MonitoredAreOpen
  <2>2. \A slot \in Slots : monitor_fd_set'[slot] # Free =>
          /\ monitor_fd_set'[slot] \in opened'
          /\ monitor_fd_set'[slot] > LISTEN => owner'[monitor_fd_set'[slot]] # NoClient
    BY <1>2, <1>5, <1>6, <1>8, <2>1
  <2>3. \A s, t \in Slots : monitor_fd_set'[s] = monitor_fd_set'[t] /\ s # t =>
          monitor_fd_set'[s] = Free
    BY <1>8 DEF RouteInv, MonitoredAreOpen
  <2> QED
    BY <2>2, <2>3 DEF MonitoredAreOpen
<1>13. ScanInv' /\ NobodyDropped'
  BY <1>3 DEF RouteInv, ScanInv, NobodyDropped, IsLive
<1>14. MonitoredAreUpToDate'
  <2> SUFFICES ASSUME NEW d \in Clients, Monitored(d)', link'[d] = "up"
               PROVE  LastSent(d)' = Listing
    BY <1>1 DEF MonitoredAreUpToDate
  <2>1. CASE d = c
    BY <1>3, <2>1 DEF LastSent
  <2>2. CASE d # c
    <3>1. Monitored(d)
      BY <1>6, <1>8, <2>2 DEF Monitored
    <3>2. LastSent(d) = Listing
      BY <1>3, <3>1 DEF RouteInv, MonitoredAreUpToDate
    <3> QED
      BY <1>3, <2>2, <3>2 DEF LastSent
  <2> QED
    BY <2>1, <2>2
<1> QED
  BY <1>1, <1>9, <1>10, <1>11, <1>12, <1>13, <1>14 DEF RouteInv

LEMMA AcceptConnectionKeeps == RouteInv /\ AcceptConnection => RouteInv'
<1> SUFFICES ASSUME RouteInv, AcceptConnection PROVE RouteInv'
  OBVIOUS
<1>1. backlog # <<>> /\ pc = "dispatch" /\ UNCHANGED routeVars
  BY DEF AcceptConnection, RouteInv, ScanInv
<1>2. CASE \E fd \in Fds \ opened :
             Accept(fd) /\ send_routing_table_to_client(Head(backlog))
  BY <1>1, <1>2, AcceptKeeps DEF AcceptConnection, send_routing_table_to_client
<1>3. CASE Die /\ UNCHANGED <<monitor_fd_set, owner, backlog, link, down>>
  <2>1. TableTypeOK' /\ UsedAreRoutes'
    BY <1>1, SameTable
  <2>2. TypeOK' /\ client' = client
    BY <1>3, <2>1 DEF AcceptConnection, Die, clientVars, RouteInv, TypeOK
  <2> QED
    BY <1>3, <2>1, <2>2, DyingKeeps DEF Die
<1> QED
  BY <1>2, <1>3 DEF AcceptConnection

-----------------------------------------------------------------------------
(* Reading from a client.                                                  *)

\* The slot the scan is at has a connection with something to read.
LEMMA ReadySlot ==
  ASSUME RouteInv, pc = "scan", NEW slot \in ReadySlots
  PROVE  /\ slot \in Slots /\ monitor_fd_set[slot] > LISTEN
         /\ HasNews(owner[monitor_fd_set[slot]])
<1>1. /\ slot \in Slots /\ slot >= i /\ monitor_fd_set[slot] # Free
      /\ monitor_fd_set[slot] \in readfds
  BY DEF ReadySlots, IsReady
<1>2. monitor_fd_set[slot] > LISTEN
  BY <1>1 DEF RouteInv, ScanInv, ArrayInv
<1> QED
  BY <1>1, <1>2 DEF RouteInv, ScanInv

LEMMA LengthType ==
  ASSUME NEW messages PROVE LengthOf(messages) \in 0 .. MAX_TEXT
  BY RoutingServerAssumption DEF LengthOf

LEMMA AddKeepsTable ==
  ASSUME RouteInv, NEW e \in Routes, add_route(e)
  PROVE  TableTypeOK' /\ UsedAreRoutes' /\ Listing' \in Listings
<1>1. TableInv'
  BY TableNextInv DEF RouteInv, TypeOK, TableInv, TableNext
<1>2. InUse' \in SUBSET Entries
  BY DEF InUse
<1>3. Listing' \in [InUse' -> Routes]
  BY <1>1 DEF Listing, TableInv, UsedAreRoutes
<1> QED
  BY <1>1, <1>2, <1>3 DEF Listings, TableInv

LEMMA ReceiveKeeps ==
  ASSUME RouteInv, pc = "scan", NEW slot \in ReadySlots,
         ReceiveRoute(owner[monitor_fd_set[slot]]), i' = slot + 1,
         UNCHANGED <<readfds, console, backlog, clientVars>>
  PROVE  RouteInv'
<1> DEFINE c == owner[monitor_fd_set[slot]]
<1>1. slot \in Slots /\ monitor_fd_set[slot] > LISTEN
  BY ReadySlot
<1>2. /\ c \in Clients
      /\ \A other \in Slots : other # slot /\ monitor_fd_set[other] > LISTEN
           => owner[monitor_fd_set[other]] # c
  BY <1>1, OwnedSlot
<1>3. ReceiveRoute(c)
  OBVIOUS
<1> HIDE DEF c
<1>4. PICK e \in Parsed(up[c]) : add_route(e)
  BY <1>3 DEF ReceiveRoute
<1>5. up[c] \in Seq(Offered) /\ up[c] # <<>>
  BY <1>2, <1>3 DEF ReceiveRoute, RouteInv, TypeOK
<1>6. e \in Routes
  <2>1. up[c][1] \in Offered
    BY <1>5
  <2> QED
    BY <1>4, <2>1, RoutingServerAssumption DEF Parsed
<1>7. TableTypeOK' /\ UsedAreRoutes' /\ Listing' \in Listings
  BY <1>4, <1>6, AddKeepsTable
<1>8. /\ up' = [up EXCEPT ![c] = <<>>] /\ monitor_fd_set' = monitor_fd_set
      /\ owner' = owner /\ filled' \in 0 .. MAX_TEXT
      /\ UNCHANGED <<readfds, console, backlog, client, typed, seen>>
  <2>1. filled' = LengthOf(up[c]) \/ filled' = filled
    BY <1>3 DEF ReceiveRoute
  <2>2. filled \in 0 .. MAX_TEXT /\ LengthOf(up[c]) \in 0 .. MAX_TEXT
    BY LengthType DEF RouteInv, TypeOK
  <2>3. up' = [up EXCEPT ![c] = <<>>] /\ monitor_fd_set' = monitor_fd_set
        /\ owner' = owner
    BY <1>3 DEF ReceiveRoute, Consume
  <2> QED
    BY <2>1, <2>2, <2>3 DEF clientVars
<1>9. i' \in Slots \cup {MAX_CLIENT_SUPPORTED}
  BY <1>1, MonitorSetAssumption DEF Slots
<1> DEFINE targets == Targets(monitor_fd_set)
           reached == {owner[monitor_fd_set[s]] : s \in Reached(targets)}
<1>10. /\ down' \in [Clients -> Seq(Listings)]
       /\ link' \in [Clients -> {"none", "up", "fin", "reset", "broken", "closed"}]
       /\ \A d \in Clients : link'[d] = "up" <=> link[d] = "up"
  <2>1. CASE HasRoom
    <3>1. SendTo(reached)
      BY <1>3, <2>1 DEF ReceiveRoute, send_routing_table_to_clients
    <3> HIDE DEF reached
    <3> QED
      BY <1>7, <3>1, SendToKeeps DEF RouteInv
  <2>2. CASE ~HasRoom
    BY <1>3, <2>2 DEF ReceiveRoute, RouteInv, TypeOK
  <2> QED
    BY <2>1, <2>2
<1>11. \/ pc' = "dead" /\ opened' = {}
       \/ UNCHANGED <<pc, opened>>
  BY <1>3 DEF ReceiveRoute, send_routing_table_to_clients, Die
<1>12. TypeOK'
  <2>1. up' \in [Clients -> Seq(Offered)]
    BY <1>2, <1>8 DEF RouteInv, TypeOK
  <2>2. /\ pc' \in {"select", "dispatch", "scan", "dead"}
        /\ opened' \subseteq Fds
    BY <1>11 DEF RouteInv, TypeOK
  <2> QED
    BY <1>7, <1>8, <1>9, <1>10, <2>1, <2>2 DEF RouteInv, TypeOK
<1>13. CASE pc' = "dead"
  BY <1>7, <1>8, <1>12, <1>13, DyingKeeps
<1>14. CASE UNCHANGED <<pc, opened>>
  <2>1. ConnectionsInv' /\ ArrayInv' /\ MonitoredAreOpen'
    <3>1. ConnectionsInv'
      BY <1>8, <1>14 DEF RouteInv, ConnectionsInv, InBacklog, Owns
    <3>2. ArrayInv' /\ MonitoredAreOpen'
      BY <1>8, <1>14 DEF RouteInv, ArrayInv, MonitoredAreOpen
    <3> QED
      BY <3>1, <3>2
  <2>2. NobodyDropped'
    BY <1>8, <1>10 DEF RouteInv, NobodyDropped, IsLive
  <2>3. ScanInv'
    <3> SUFFICES ASSUME NEW s \in Slots, s >= slot + 1, monitor_fd_set[s] > LISTEN,
                        monitor_fd_set[s] \in readfds
                 PROVE  HasNews(owner[monitor_fd_set[s]])'
      BY <1>8, <1>14 DEF RouteInv, ScanInv
    <3>1. /\ s # slot /\ s >= i
      BY <1>1 DEF Slots, ReadySlots, RouteInv, TypeOK
    <3>2. HasNews(owner[monitor_fd_set[s]])
      BY <3>1 DEF RouteInv, ScanInv
    <3>3. owner[monitor_fd_set[s]] # c /\ owner[monitor_fd_set[s]] \in Clients
      BY <1>2, <3>1, OwnedSlot
    <3> QED
      BY <1>8, <1>10, <3>2, <3>3 DEF HasNews, RouteInv, TypeOK
  <2>4. MonitoredAreUpToDate'
    <3> SUFFICES ASSUME NEW d \in Clients, Monitored(d)', link'[d] = "up"
                 PROVE  LastSent(d)' = Listing'
      BY DEF MonitoredAreUpToDate
    <3>1. Monitored(d) /\ link[d] = "up"
      BY <1>8, <1>10 DEF Monitored
    <3>2. CASE HasRoom
      <4>1. SendTo(reached) /\ Fatal(targets) = {}
        BY <1>3, <1>14, <3>2
           DEF ReceiveRoute, send_routing_table_to_clients, Die
      <4>2. PICK s \in Slots : /\ monitor_fd_set[s] > LISTEN
                               /\ owner[monitor_fd_set[s]] = d
        BY <3>1 DEF Monitored
      <4>3. s \in targets
        BY <4>2 DEF Targets, LISTEN, RouteInv, TypeOK, Fds, Free
      <4>4. d \in reached
        BY <4>1, <4>2, <4>3 DEF Reached
      <4> HIDE DEF reached
      <4>5. down'[d] # <<>> /\ Last(down'[d]) = Listing'
        BY <1>7, <3>1, <4>1, <4>4, SendToKeeps DEF RouteInv
      <4> QED
        BY <4>5 DEF LastSent
    <3>3. CASE ~HasRoom
      <4>1. UNCHANGED <<down, seen, tableVars>>
        BY <1>3, <1>4, <1>8, <3>3 DEF ReceiveRoute, add_route
      <4>2. Listing' = Listing
        BY <4>1 DEF Listing, InUse, tableVars
      <4> QED
        BY <3>1, <4>1, <4>2 DEF LastSent, RouteInv, MonitoredAreUpToDate
    <3> QED
      BY <3>2, <3>3
  <2> QED
    BY <1>7, <1>12, <2>1, <2>2, <2>3, <2>4 DEF RouteInv
<1> QED
  BY <1>11, <1>13, <1>14

LEMMA DropKeeps ==
  ASSUME RouteInv, pc = "scan", NEW slot \in ReadySlots,
         DropClient(owner[monitor_fd_set[slot]], slot), i' = slot + 1,
         UNCHANGED <<readfds, console, backlog, clientVars>>
  PROVE  RouteInv'
<1> DEFINE fd == monitor_fd_set[slot]
           c  == owner[fd]
<1>1. slot \in Slots /\ fd > LISTEN /\ HasNews(c)
  BY ReadySlot
<1>2. /\ fd \in Fds /\ fd \in opened /\ c \in Clients
      /\ \A other \in Slots : other # slot =>
           /\ monitor_fd_set[other] # fd
           /\ monitor_fd_set[other] > LISTEN =>
                /\ monitor_fd_set[other] \in Fds
                /\ owner[monitor_fd_set[other]] # c
  BY <1>1, OwnedSlot
<1>3. /\ up[c] = <<>> /\ opened' = opened \ {fd}
      /\ owner' = [owner EXCEPT ![fd] = NoClient]
      /\ link' = [link EXCEPT ![c] = "closed"]
      /\ monitor_fd_set' = remove_monitor_fd_set(monitor_fd_set, fd)
      /\ UNCHANGED <<pc, filled, up, down, readfds, console, backlog,
                     client, typed, seen>>
  BY DEF DropClient, clientVars
<1>4. TableTypeOK' /\ UsedAreRoutes' /\ Listing' = Listing
  BY SameTable DEF DropClient
<1>5. monitor_fd_set' = [monitor_fd_set EXCEPT ![slot] = Free]
  BY <1>1, <1>2, <1>3, RemoveOnly
<1>6. i' \in Slots \cup {MAX_CLIENT_SUPPORTED}
  BY <1>1, MonitorSetAssumption DEF Slots
<1>7. /\ monitor_fd_set \in [Slots -> Fds \cup {Free}]
      /\ owner \in [Fds -> Clients \cup {NoClient}]
      /\ link \in [Clients -> {"none", "up", "fin", "reset", "broken", "closed"}]
      /\ Free <= LISTEN /\ pc # "dead" /\ link[c] # "up"
  BY <1>1, <1>3 DEF RouteInv, TypeOK, HasNews, Free, LISTEN
<1> HIDE DEF fd, c
<1>8. TypeOK'
  BY <1>3, <1>4, <1>5, <1>6, <1>7 DEF RouteInv, TypeOK
<1>9. ConnectionsInv'
  <2>1. \A d : Owns(d)' => Owns(d) \/ d = NoClient
    BY <1>3, <1>7 DEF Owns
  <2>2. \A d : InBacklog(d)' <=> InBacklog(d)
    BY <1>3 DEF InBacklog
  <2>3. /\ \A d \in Clients : client[d] = "start" => ~InBacklog(d)' /\ ~Owns(d)'
        /\ \A d \in Clients : InBacklog(d)' => ~Owns(d)'
    BY <2>1, <2>2, RoutingServerAssumption DEF RouteInv, ConnectionsInv
  <2>4. \A f, g \in Fds : owner'[f] = owner'[g] /\ owner'[f] # NoClient => f = g
    BY <1>3, <1>7 DEF RouteInv, ConnectionsInv
  <2>5. /\ 0 .. LISTEN \subseteq opened'
        /\ \A f \in Fds : owner'[f] # NoClient => f \in opened' /\ f > LISTEN
    <3>1. \A f \in 0 .. LISTEN : f # fd
      BY <1>1 DEF LISTEN, fd
    <3> QED
      BY <1>3, <1>7, <3>1 DEF RouteInv, ConnectionsInv
  <2> QED
    BY <1>3, <2>3, <2>4, <2>5 DEF RouteInv, ConnectionsInv
<1>10. ArrayInv'
  BY <1>5, <1>7 DEF RouteInv, ArrayInv
<1>11. MonitoredAreOpen'
  <2>1. \A s \in Slots : monitor_fd_set'[s] # Free =>
          s # slot /\ monitor_fd_set'[s] = monitor_fd_set[s] /\ monitor_fd_set[s] # fd
    BY <1>2, <1>5, <1>7
  <2>2. \A s \in Slots : monitor_fd_set'[s] # Free =>
          /\ monitor_fd_set'[s] \in opened'
          /\ monitor_fd_set'[s] > LISTEN => owner'[monitor_fd_set'[s]] # NoClient
    BY <1>3, <1>7, <2>1 DEF RouteInv, MonitoredAreOpen
  <2>3. \A s, t \in Slots : monitor_fd_set'[s] = monitor_fd_set'[t] /\ s # t =>
          monitor_fd_set'[s] = Free
    BY <2>1 DEF RouteInv, MonitoredAreOpen
  <2> QED
    BY <2>2, <2>3 DEF MonitoredAreOpen
<1>12. \A s \in Slots : monitor_fd_set'[s] > LISTEN =>
         /\ s # slot /\ monitor_fd_set'[s] = monitor_fd_set[s]
         /\ owner'[monitor_fd_set[s]] = owner[monitor_fd_set[s]]
         /\ owner[monitor_fd_set[s]] # c
         /\ owner[monitor_fd_set[s]] \in Clients \cup {NoClient}
  <2> SUFFICES ASSUME NEW s \in Slots, monitor_fd_set'[s] > LISTEN
               PROVE  /\ s # slot /\ monitor_fd_set'[s] = monitor_fd_set[s]
                      /\ owner'[monitor_fd_set[s]] = owner[monitor_fd_set[s]]
                      /\ owner[monitor_fd_set[s]] # c
                      /\ owner[monitor_fd_set[s]] \in Clients \cup {NoClient}
    OBVIOUS
  <2>1. s # slot
    BY <1>1, <1>5, <1>7 DEF Free, LISTEN
  <2>2. monitor_fd_set'[s] = monitor_fd_set[s]
    BY <1>5, <1>7, <2>1
  <2>3. /\ monitor_fd_set[s] # fd /\ monitor_fd_set[s] \in Fds
        /\ owner[monitor_fd_set[s]] # c
    BY <1>2, <2>1, <2>2
  <2> QED
    BY <1>3, <1>7, <2>1, <2>2, <2>3
<1>13. ScanInv'
  <2> SUFFICES ASSUME NEW s \in Slots, pc = "scan", s >= slot + 1,
                      monitor_fd_set'[s] > LISTEN, monitor_fd_set'[s] \in readfds
               PROVE  HasNews(owner[monitor_fd_set[s]])'
    BY <1>3 DEF RouteInv, ScanInv
  <2>1. s >= i
    BY DEF Slots, ReadySlots, RouteInv, TypeOK
  <2>2. HasNews(owner[monitor_fd_set[s]])
    BY <1>12, <2>1 DEF RouteInv, ScanInv
  <2>3. owner[monitor_fd_set[s]] # NoClient
    BY <1>7, <1>12, OwnedSlot
  <2> QED
    BY <1>3, <1>7, <1>12, <2>2, <2>3 DEF HasNews
<1>14. NobodyDropped'
  BY <1>3, <1>7 DEF RouteInv, NobodyDropped, IsLive
<1>15. MonitoredAreUpToDate'
  <2> SUFFICES ASSUME NEW d \in Clients, Monitored(d)', link'[d] = "up"
               PROVE  LastSent(d)' = Listing
    BY <1>4 DEF MonitoredAreUpToDate
  <2>1. Monitored(d) /\ link[d] = "up"
    BY <1>3, <1>7, <1>12 DEF Monitored
  <2> QED
    BY <1>3, <1>7, <2>1 DEF RouteInv, MonitoredAreUpToDate, LastSent
<1> QED
  BY <1>4, <1>8, <1>9, <1>10, <1>11, <1>13, <1>14, <1>15 DEF RouteInv

LEMMA ReadClientKeeps == RouteInv /\ ReadClient => RouteInv'
  BY ReceiveKeeps, DropKeeps DEF ReadClient

-----------------------------------------------------------------------------
(* The clients.                                                            *)

LEMMA SameServer ==
  ASSUME RouteInv, UNCHANGED serverVars
  PROVE  /\ TableTypeOK' /\ UsedAreRoutes' /\ Listing' = Listing
         /\ ArrayInv' /\ MonitoredAreOpen'
         /\ \A c : Monitored(c)' <=> Monitored(c)
         /\ \A c : Owns(c)' <=> Owns(c)
<1> USE DEF serverVars, fdVars
<1>1. TableTypeOK' /\ UsedAreRoutes' /\ Listing' = Listing
  BY SameTable
<1>2. ArrayInv' /\ MonitoredAreOpen'
  BY DEF RouteInv, ArrayInv, MonitoredAreOpen
<1>3. \A c : (Monitored(c)' <=> Monitored(c)) /\ (Owns(c)' <=> Owns(c))
  BY DEF Monitored, Owns
<1> QED
  BY <1>1, <1>2, <1>3

\* A step of a client that opens no connection.
LEMMA ClientKeeps ==
  ASSUME RouteInv, UNCHANGED <<serverVars, backlog>>, TypeOK', NobodyDropped',
         \A c \in Clients :
           /\ client'[c] = "start" => client[c] = "start"
           /\ link'[c] = "up" => link[c] = "up"
           /\ up'[c] = <<>> => up[c] = <<>>
           /\ LastSent(c)' = LastSent(c)
  PROVE  RouteInv'
<1>1. /\ UsedAreRoutes' /\ Listing' = Listing /\ ArrayInv' /\ MonitoredAreOpen'
      /\ \A c : Monitored(c)' <=> Monitored(c)
      /\ \A c : Owns(c)' <=> Owns(c)
  BY SameServer
<1>2. UNCHANGED <<monitor_fd_set, readfds, pc, i, opened, owner, backlog>>
  BY DEF serverVars, fdVars
<1>3. ConnectionsInv'
  <2>1. \A c : InBacklog(c)' <=> InBacklog(c)
    BY <1>2 DEF InBacklog
  <2> QED
    BY <1>1, <1>2, <2>1 DEF RouteInv, ConnectionsInv
<1>4. ScanInv'
  <2>1. \A c \in Clients : HasNews(c) => HasNews(c)'
    BY DEF HasNews
  <2>2. pc # "dead" => \A slot \in Slots : monitor_fd_set[slot] > LISTEN =>
          owner[monitor_fd_set[slot]] \in Clients
    BY OwnedSlot
  <2> QED
    BY <1>2, <2>1, <2>2 DEF RouteInv, ScanInv
<1>5. MonitoredAreUpToDate'
  BY <1>1, <1>2 DEF RouteInv, MonitoredAreUpToDate
<1> QED
  BY <1>1, <1>3, <1>4, <1>5 DEF RouteInv

LEMMA ConnectKeeps ==
  ASSUME RouteInv, NEW c \in Clients, Connect(c) PROVE RouteInv'
<1>1. /\ client[c] = "start" /\ pc # "dead"
      /\ client' = [client EXCEPT ![c] = IF c \in Updaters THEN "typing" ELSE "reading"]
      /\ link' = [link EXCEPT ![c] = "up"]
      /\ backlog' = Append(backlog, c)
      /\ UNCHANGED <<serverVars, console, up, down, typed, seen>>
  BY DEF Connect
<1>2. /\ TableTypeOK' /\ UsedAreRoutes' /\ Listing' = Listing
      /\ ArrayInv' /\ MonitoredAreOpen'
      /\ \A d : Monitored(d)' <=> Monitored(d)
      /\ \A d : Owns(d)' <=> Owns(d)
  BY <1>1, SameServer
<1>3. UNCHANGED <<monitor_fd_set, readfds, pc, i, opened, owner, filled>>
  BY <1>1 DEF serverVars, fdVars
<1>4. /\ backlog \in Seq(Clients) /\ backlog' \in Seq(Clients)
      /\ Len(backlog') = Len(backlog) + 1 /\ backlog'[Len(backlog')] = c
      /\ DOMAIN backlog = 1 .. Len(backlog)
      /\ DOMAIN backlog' = 1 .. Len(backlog')
      /\ \A n \in 1 .. Len(backlog) : backlog'[n] = backlog[n]
      /\ Len(backlog) \in Nat
  BY <1>1 DEF RouteInv, TypeOK
<1>5. ~InBacklog(c) /\ ~Owns(c)
  BY <1>1 DEF RouteInv, ConnectionsInv
<1>6. TypeOK'
  BY <1>1, <1>2, <1>3, <1>4 DEF RouteInv, TypeOK
<1>7. ConnectionsInv'
  <2>1. \A d : InBacklog(d)' => InBacklog(d) \/ d = c
    BY <1>4 DEF InBacklog
  <2>2. /\ \A d \in Clients : client'[d] = "start" => ~InBacklog(d)' /\ ~Owns(d)'
        /\ \A d \in Clients : InBacklog(d)' => ~Owns(d)'
    BY <1>1, <1>2, <1>5, <2>1 DEF RouteInv, ConnectionsInv, TypeOK
  <2>3. \A m, n \in DOMAIN backlog' : backlog'[m] = backlog'[n] => m = n
    BY <1>4, <1>5 DEF RouteInv, ConnectionsInv, InBacklog
  <2> QED
    BY <1>3, <2>2, <2>3 DEF RouteInv, ConnectionsInv
<1>8. ScanInv'
  <2>1. \A d \in Clients : d # c /\ HasNews(d) => HasNews(d)'
    BY <1>1 DEF HasNews, RouteInv, TypeOK
  <2>2. \A slot \in Slots : monitor_fd_set[slot] > LISTEN =>
          /\ owner[monitor_fd_set[slot]] \in Clients
          /\ owner[monitor_fd_set[slot]] # c
    BY <1>1, <1>5, OwnedSlot DEF Owns
  <2>3. backlog' # <<>>
    BY <1>4
  <2> QED
    BY <1>3, <2>1, <2>2, <2>3 DEF RouteInv, ScanInv
<1>9. NobodyDropped'
  BY <1>1, <1>3 DEF RouteInv, NobodyDropped, IsLive, TypeOK
<1>10. MonitoredAreUpToDate'
  <2> SUFFICES ASSUME NEW d \in Clients, Monitored(d), link'[d] = "up"
               PROVE  LastSent(d)' = Listing
    BY <1>2 DEF MonitoredAreUpToDate
  <2>1. d # c
    BY <1>1, <1>5, OwnedSlot DEF Monitored, Owns
  <2> QED
    BY <1>1, <2>1 DEF RouteInv, MonitoredAreUpToDate, LastSent, TypeOK
<1> QED
  BY <1>2, <1>6, <1>7, <1>8, <1>9, <1>10 DEF RouteInv

\* What a client reads is what was sent first; the last listing stays last.
LEMMA ReadKeepsLast ==
  ASSUME NEW s \in Seq(Listings), NEW n \in 1 .. Len(s)
  PROVE  /\ s[n] \in Listings /\ s # <<>>
         /\ SubSeq(s, n + 1, Len(s)) \in Seq(Listings)
         /\ IF SubSeq(s, n + 1, Len(s)) = <<>> THEN s[n] = Last(s)
            ELSE Last(SubSeq(s, n + 1, Len(s))) = Last(s)
<1> DEFINE rest == SubSeq(s, n + 1, Len(s))
<1>1. /\ Len(s) \in Nat /\ s[n] \in Listings /\ s # <<>>
      /\ rest \in Seq(Listings) /\ Len(rest) = Len(s) - n
      /\ \A k \in 1 .. Len(s) - n : rest[k] = s[n + k]
  OBVIOUS
<1> HIDE DEF rest
<1>2. CASE n = Len(s)
  <2>1. rest = <<>>
    BY <1>1, <1>2
  <2> QED
    BY <1>1, <1>2, <2>1 DEF Last, rest
<1>3. CASE n < Len(s)
  <2>1. rest # <<>>
    BY <1>1, <1>3
  <2>2. Last(rest) = Last(s)
    BY <1>1, <1>3 DEF Last
  <2> QED
    BY <1>1, <2>1, <2>2 DEF rest
<1> QED
  BY <1>2, <1>3

LEMMA ReadListingKeeps ==
  ASSUME RouteInv, NEW c \in Clients, ReadListing(c) PROVE RouteInv'
<1>1. PICK n \in 1 .. Len(down[c]) :
        /\ seen' = [seen EXCEPT ![c] = down[c][n]]
        /\ down' = [down EXCEPT ![c] = SubSeq(@, n + 1, Len(@))]
  BY DEF ReadListing
<1>2. /\ client[c] = "reading"
      /\ client' = [client EXCEPT ![c] = IF c \in Updaters THEN "typing" ELSE "reading"]
      /\ UNCHANGED <<serverVars, console, backlog, link, up, typed>>
  BY DEF ReadListing
<1> DEFINE rest == SubSeq(down[c], n + 1, Len(down[c]))
<1>3. /\ down[c] \in Seq(Listings)
      /\ down \in [Clients -> Seq(Listings)] /\ seen \in [Clients -> Listings]
  BY DEF RouteInv, TypeOK
<1>4. /\ down[c][n] \in Listings /\ down[c] # <<>> /\ rest \in Seq(Listings)
      /\ IF rest = <<>> THEN down[c][n] = Last(down[c]) ELSE Last(rest) = Last(down[c])
  BY <1>3, ReadKeepsLast
<1>5. seen'[c] = down[c][n] /\ down' = [down EXCEPT ![c] = rest]
  BY <1>1, <1>3
<1> HIDE DEF rest
<1>6. \A d \in Clients : LastSent(d)' = LastSent(d)
  <2> SUFFICES ASSUME NEW d \in Clients PROVE LastSent(d)' = LastSent(d)
    OBVIOUS
  <2>1. CASE d = c
    BY <1>3, <1>4, <1>5, <2>1 DEF LastSent
  <2>2. CASE d # c
    BY <1>1, <1>3, <1>5, <2>2 DEF LastSent
  <2> QED
    BY <2>1, <2>2
<1>7. TypeOK'
  <2>1. down' \in [Clients -> Seq(Listings)] /\ seen' \in [Clients -> Listings]
    BY <1>1, <1>3, <1>4, <1>5
  <2>2. TableTypeOK'
    BY <1>2, SameServer
  <2> QED
    BY <1>2, <2>1, <2>2 DEF RouteInv, TypeOK, serverVars, fdVars
<1>8. NobodyDropped'
  BY <1>2 DEF RouteInv, NobodyDropped, IsLive, TypeOK, serverVars
<1>9. \A d \in Clients : client'[d] = "start" => client[d] = "start"
  BY <1>2 DEF RouteInv, TypeOK
<1> QED
  BY <1>2, <1>6, <1>7, <1>8, <1>9, ClientKeeps

LEMMA SendRouteKeeps ==
  ASSUME RouteInv, NEW c \in Clients, SendRoute(c) PROVE RouteInv'
<1>1. PICK r \in Offered : /\ up' = [up EXCEPT ![c] = Append(@, r)]
                           /\ typed' = [typed EXCEPT ![c] = Append(@, r)]
  BY DEF SendRoute
<1>2. /\ client[c] = "typing" /\ client' = [client EXCEPT ![c] = "reading"]
      /\ UNCHANGED <<serverVars, console, backlog, link, down, seen>>
  BY DEF SendRoute
<1>3. /\ up \in [Clients -> Seq(Offered)] /\ typed \in [Clients -> Seq(Offered)]
      /\ Append(up[c], r) \in Seq(Offered) /\ Append(typed[c], r) \in Seq(Offered)
      /\ Append(up[c], r) # <<>>
  <2>1. /\ up \in [Clients -> Seq(Offered)] /\ typed \in [Clients -> Seq(Offered)]
        /\ up[c] \in Seq(Offered) /\ typed[c] \in Seq(Offered)
    BY DEF RouteInv, TypeOK
  <2>2. ASSUME NEW s \in Seq(Offered)
        PROVE  Append(s, r) \in Seq(Offered) /\ Append(s, r) # <<>>
    <3>1. Append(s, r) \in Seq(Offered) /\ Len(Append(s, r)) = Len(s) + 1
      OBVIOUS
    <3>2. Len(s) \in Nat /\ Len(<<>>) = 0
      OBVIOUS
    <3> QED
      BY <3>1, <3>2
  <2> QED
    BY <2>1, <2>2
<1>4. /\ up' \in [Clients -> Seq(Offered)] /\ typed' \in [Clients -> Seq(Offered)]
      /\ \A d \in Clients : up'[d] = <<>> => up[d] = <<>>
  BY <1>1, <1>3
<1>5. TypeOK'
  <2>1. TableTypeOK'
    BY <1>2, SameServer
  <2> QED
    BY <1>2, <1>4, <2>1 DEF RouteInv, TypeOK, serverVars, fdVars
<1>6. NobodyDropped'
  BY <1>2 DEF RouteInv, NobodyDropped, IsLive, TypeOK, serverVars
<1>7. \A d \in Clients : /\ client'[d] = "start" => client[d] = "start"
                         /\ LastSent(d)' = LastSent(d)
  BY <1>2 DEF RouteInv, TypeOK, LastSent
<1> QED
  BY <1>2, <1>4, <1>5, <1>6, <1>7, ClientKeeps

LEMMA LeavingKeeps ==
  ASSUME RouteInv, NEW c \in Clients, ConnectRefused(c) \/ ServerClosed(c) \/ Leave(c)
  PROVE  RouteInv'
<1>1. /\ client' = [client EXCEPT ![c] = "gone"]
      /\ UNCHANGED <<serverVars, console, backlog, up, down, typed, seen>>
  BY DEF ConnectRefused, ServerClosed, Leave, netVars
<1>2. \/ link' = link
      \/ link' = [link EXCEPT ![c] = IF @ # "up" THEN @
                                     ELSE IF down[c] = <<>> THEN "fin" ELSE "reset"]
  BY DEF ConnectRefused, ServerClosed, Leave, netVars
<1>3. /\ link' \in [Clients -> {"none", "up", "fin", "reset", "broken", "closed"}]
      /\ \A d \in Clients : link'[d] = "up" => link[d] = "up"
      /\ \A d \in Clients : d # c => link'[d] = link[d]
  BY <1>2 DEF RouteInv, TypeOK
<1>4. TypeOK'
  <2>1. TableTypeOK'
    BY <1>1, SameServer
  <2> QED
    BY <1>1, <1>3, <2>1 DEF RouteInv, TypeOK, serverVars, fdVars
<1>5. NobodyDropped'
  BY <1>1, <1>3 DEF RouteInv, NobodyDropped, IsLive, TypeOK, serverVars
<1>6. \A d \in Clients : /\ client'[d] = "start" => client[d] = "start"
                         /\ LastSent(d)' = LastSent(d)
  BY <1>1 DEF RouteInv, TypeOK, LastSent
<1> QED
  BY <1>1, <1>3, <1>4, <1>5, <1>6, ClientKeeps

LEMMA StutterKeeps == RouteInv /\ UNCHANGED vars => RouteInv'
<1> SUFFICES ASSUME RouteInv, UNCHANGED vars PROVE RouteInv'
  OBVIOUS
<1> USE DEF vars, serverVars, fdVars, netVars, clientVars
<1>1. TypeOK'
  BY SameTable DEF RouteInv, TypeOK
<1>2. NobodyDropped'
  BY DEF RouteInv, NobodyDropped, IsLive
<1>3. \A c : LastSent(c)' = LastSent(c)
  BY DEF LastSent
<1> QED
  BY <1>1, <1>2, <1>3, ClientKeeps

-----------------------------------------------------------------------------
(* Every step, and the theorems.                                           *)

LEMMA NextRouteInv == RouteInv /\ [Next]_vars => RouteInv'
<1> SUFFICES ASSUME RouteInv, [Next]_vars PROVE RouteInv'
  OBVIOUS
<1>1. CASE ServerStep
  BY <1>1, SelectKeeps, AcceptConnectionKeeps, LoopStepsKeep, ReadClientKeeps
     DEF ServerStep
<1>2. CASE TypeAtConsole
  BY <1>2, TypeAtConsoleKeeps
<1>3. ASSUME NEW c \in Clients, ClientStep(c) PROVE RouteInv'
  BY <1>3, ConnectKeeps, ReadListingKeeps, SendRouteKeeps, LeavingKeeps
     DEF ClientStep
<1>4. CASE UNCHANGED vars
  BY <1>4, StutterKeeps
<1> QED
  BY <1>1, <1>2, <1>3, <1>4 DEF Next

\* The inductive invariant of the routing server and its clients.
THEOREM RoutingInvariance == Spec => []RouteInv
<1> QED
  BY InitRouteInv, NextRouteInv, PTL DEF Spec

\* Types, and an array that names only open descriptors, each once.
THEOREM RoutingServerSound == Spec => []RoutingInv
<1>1. RouteInv => RoutingInv
  BY DEF RouteInv, RoutingInv
<1> QED
  BY <1>1, RoutingInvariance, PTL

\* No connection is closed by the server while its client is still there: the
\* scan reads from connections only that have data or have ended.
THEOREM NoClientDropped == Spec => []NobodyDropped
<1>1. RouteInv => NobodyDropped
  BY DEF RouteInv
<1> QED
  BY <1>1, RoutingInvariance, PTL

\* After every addition and every accept the last listing on its way to a
\* monitored client is the present table.
THEOREM ListingsUpToDate == Spec => []MonitoredAreUpToDate
<1>1. RouteInv => MonitoredAreUpToDate
  BY DEF RouteInv
<1> QED
  BY <1>1, RoutingInvariance, PTL

-----------------------------------------------------------------------------
(* Every route in the table was typed.                                     *)

\* What the server has read of what client c typed, and where r is in it.
TakenFrom(c) == Len(typed[c]) - Len(up[c])
Taken(r) == {place \in Clients \X (1 .. MAX_SENDS) :
               /\ place[2] <= TakenFrom(place[1])
               /\ typed[place[1]][place[2]] = r}

\* What is on its way to the server is the end of what was typed.
UnreadIsTyped ==
  \A c \in Clients : Len(typed[c]) <= MAX_SENDS /\ EndsWith(typed[c], up[c])

Allowance(r) == IF r = FirstRoute THEN 1 ELSE 0
AppliedWasTaken == \A r \in Offered : Times(r) <= Cardinality(Taken(r)) + Allowance(r)

AppliedInv == UnreadIsTyped /\ AppliedWasTaken

LEMMA SomeTyped ==
  ASSUME NEW some \in SUBSET (Clients \X (1 .. MAX_SENDS))
  PROVE  IsFiniteSet(some) /\ Cardinality(some) \in Nat
<1>1. IsFiniteSet(Clients) /\ IsFiniteSet(1 .. MAX_SENDS)
  BY FS_Interval, RoutingServerAssumption
<1>2. IsFiniteSet(Clients \X (1 .. MAX_SENDS))
  BY <1>1, FS_Product
<1> QED
  BY <1>2, FS_Subset, FS_CardinalityType

LEMMA TakenFinite ==
  \A r : IsFiniteSet(Taken(r)) /\ Cardinality(Taken(r)) \in Nat
  BY SomeTyped DEF Taken

LEMMA InitApplied == Init => AppliedInv
<1> SUFFICES ASSUME Init PROVE AppliedInv
  OBVIOUS
<1>1. UnreadIsTyped
  <2>1. \A c \in Clients : typed[c] = <<>> /\ up[c] = <<>>
    BY DEF Init
  <2>2. Len(<<>>) = 0 /\ 0 <= MAX_SENDS
    BY RoutingServerAssumption
  <2>3. EndsWith(<<>>, <<>>)
    BY <2>2 DEF EndsWith
  <2> QED
    BY <2>1, <2>2, <2>3 DEF UnreadIsTyped
<1>2. ASSUME NEW r \in Offered PROVE Times(r) <= Allowance(r)
  <2>1. /\ routing_table = [n \in Entries |-> IF n = 0 THEN FirstRoute ELSE NoRoute]
        /\ table_size = 1 /\ InUse \subseteq {0} /\ 0 \in Entries
    BY RoutingTableAssumption DEF Init, InUse, Entries
  <2>2. Places(r) = {} \/ (r = FirstRoute /\ Places(r) = {0})
    BY <2>1 DEF Places
  <2>3. Cardinality({}) = 0 /\ Cardinality({0}) = 1
    BY FS_EmptySet, FS_Singleton
  <2>4. Times(r) = Cardinality(Places(r))
    BY DEF Times, Places
  <2> QED
    BY <2>2, <2>3, <2>4 DEF Allowance
<1>3. ASSUME NEW r \in Offered
      PROVE  Times(r) <= Cardinality(Taken(r)) + Allowance(r)
  <2>1. TableTypeOK
    BY InitRouteInv DEF RouteInv, TypeOK
  <2>2. Times(r) \in Nat /\ Cardinality(Taken(r)) \in Nat /\ Allowance(r) \in Nat
    BY <2>1, PlacesFinite, TakenFinite DEF Allowance
  <2> QED
    BY <1>2, <2>2
<1> QED
  BY <1>1, <1>3 DEF AppliedInv, AppliedWasTaken

\* The steps that concern neither the table nor what was typed.
LEMMA OtherStepsApplied ==
  ASSUME AppliedInv, UNCHANGED <<tableVars, up, typed>> PROVE AppliedInv'
<1>1. UnreadIsTyped'
  BY DEF AppliedInv, UnreadIsTyped, TakenFrom
<1>2. \A r : Times(r)' = Times(r) /\ Taken(r)' = Taken(r)
  BY DEF Times, InUse, tableVars, Taken, TakenFrom
<1> QED
  BY <1>1, <1>2 DEF AppliedInv, AppliedWasTaken

\* A route that is typed is not taken yet.
LEMMA SendRouteApplied ==
  ASSUME RouteInv, AppliedInv, NEW c \in Clients, SendRoute(c) PROVE AppliedInv'
<1>1. PICK r \in Offered : /\ up' = [up EXCEPT ![c] = Append(@, r)]
                           /\ typed' = [typed EXCEPT ![c] = Append(@, r)]
  BY DEF SendRoute
<1>2. Len(typed[c]) < MAX_SENDS /\ UNCHANGED tableVars
  BY DEF SendRoute, serverVars, routeVars
<1>3. /\ up \in [Clients -> Seq(Offered)] /\ typed \in [Clients -> Seq(Offered)]
      /\ up[c] \in Seq(Offered) /\ typed[c] \in Seq(Offered)
  BY DEF RouteInv, TypeOK
<1>4. up'[c] = Append(up[c], r) /\ typed'[c] = Append(typed[c], r)
  BY <1>1, <1>3
<1>5. \A b \in Clients : b # c => up'[b] = up[b] /\ typed'[b] = typed[b]
  BY <1>1, <1>3
<1>6. \A b \in Clients : EndsWith(typed[b], up[b]) /\ Len(typed[b]) <= MAX_SENDS
  BY DEF AppliedInv, UnreadIsTyped
<1>7. /\ EndsWith(typed'[c], up'[c])
      /\ Len(typed'[c]) - Len(up'[c]) = Len(typed[c]) - Len(up[c])
      /\ Len(typed'[c]) = Len(typed[c]) + 1
      /\ \A n \in 1 .. Len(typed[c]) : typed'[c][n] = typed[c][n]
  BY <1>3, <1>4, <1>6, EndsGrow
<1>8. Len(typed[c]) \in Nat /\ TakenFrom(c) \in 0 .. Len(typed[c])
  BY <1>3, <1>6, EndsTaken DEF TakenFrom
<1>9. ASSUME NEW b \in Clients PROVE TakenFrom(b)' = TakenFrom(b)
  <2>1. CASE b = c
    BY <1>7, <2>1 DEF TakenFrom
  <2>2. CASE b # c
    BY <1>5, <2>2 DEF TakenFrom
  <2> QED
    BY <2>1, <2>2
<1>10. UnreadIsTyped'
  <2>1. Len(typed'[c]) <= MAX_SENDS
    BY <1>2, <1>7, <1>8, RoutingServerAssumption
  <2> QED
    BY <1>5, <1>6, <1>7, <2>1 DEF UnreadIsTyped
<1>11. \A q : Taken(q)' = Taken(q)
  <2>1. ASSUME NEW b \in Clients, NEW n \in 1 .. MAX_SENDS, n <= TakenFrom(b)
        PROVE  typed'[b][n] = typed[b][n]
    <3>1. CASE b = c
      <4>1. n \in 1 .. Len(typed[c])
        BY <1>8, <2>1, <3>1, RoutingServerAssumption
      <4> QED
        BY <1>7, <3>1, <4>1
    <3>2. CASE b # c
      BY <1>5, <3>2
    <3> QED
      BY <3>1, <3>2
  <2> QED
    BY <1>9, <2>1 DEF Taken
<1>12. \A q : Times(q)' = Times(q)
  BY <1>2 DEF Times, InUse, tableVars
<1> QED
  BY <1>10, <1>11, <1>12 DEF AppliedInv, AppliedWasTaken

\* A read takes all that is on its way and adds at most one route: the first
\* of what it took, or one that nobody can type.
LEMMA ReceiveApplied ==
  ASSUME RouteInv, AppliedInv, NEW c \in Clients, ReceiveRoute(c), UNCHANGED typed
  PROVE  AppliedInv'
<1>1. /\ up[c] # <<>> /\ up' = [up EXCEPT ![c] = <<>>]
      /\ \E e \in Parsed(up[c]) : add_route(e)
  BY DEF ReceiveRoute, Consume
<1>2. PICK e \in Parsed(up[c]) : add_route(e)
  BY <1>1
<1>3. /\ up \in [Clients -> Seq(Offered)] /\ typed \in [Clients -> Seq(Offered)]
      /\ up[c] \in Seq(Offered) /\ TableInv
  BY DEF RouteInv, TypeOK, TableInv
<1>4. \A b \in Clients : /\ typed[b] \in Seq(Offered) /\ up[b] \in Seq(Offered)
                         /\ EndsWith(typed[b], up[b]) /\ Len(typed[b]) <= MAX_SENDS
  BY <1>3 DEF AppliedInv, UnreadIsTyped
<1>5. \A b \in Clients : /\ EndsWith(typed[b], <<>>)
                         /\ Len(typed[b]) - Len(<<>>) = Len(typed[b])
                         /\ Len(typed[b]) \in Nat
                         /\ TakenFrom(b) \in 0 .. Len(typed[b])
  BY <1>4, EndsTaken DEF TakenFrom
<1>6. PICK sent \in Offered :
        /\ TakenFrom(c) + 1 \in 1 .. Len(typed[c])
        /\ typed[c][TakenFrom(c) + 1] = sent /\ up[c][1] = sent
  BY <1>1, <1>4, EndsTaken DEF TakenFrom
<1>7. e \in Routes /\ (e = sent \/ e \notin Offered)
  BY <1>2, <1>6, RoutingServerAssumption DEF Parsed
<1>8. up'[c] = <<>> /\ \A b \in Clients : b # c => up'[b] = up[b]
  BY <1>1, <1>3
<1>9. UnreadIsTyped'
  BY <1>4, <1>5, <1>8 DEF UnreadIsTyped
<1> DEFINE first == <<c, TakenFrom(c) + 1>>
<1>10. TakenFrom(c)' = Len(typed[c])
  BY <1>5, <1>8 DEF TakenFrom
<1>11. ASSUME NEW r PROVE Taken(r) \subseteq Taken(r)'
  <2>1. \A b \in Clients : b # c => TakenFrom(b)' = TakenFrom(b)
    BY <1>8 DEF TakenFrom
  <2>2. \A b \in Clients, n \in 1 .. MAX_SENDS : n <= TakenFrom(b) => n <= TakenFrom(b)'
    <3>1. ASSUME NEW b \in Clients, NEW n \in 1 .. MAX_SENDS, n <= TakenFrom(b)
          PROVE  n <= TakenFrom(b)'
      <4>1. CASE b = c
        BY <1>5, <1>10, <3>1, <4>1
      <4>2. CASE b # c
        BY <2>1, <3>1, <4>2
      <4> QED
        BY <4>1, <4>2
    <3> QED
      BY <3>1
  <2> QED
    BY <2>2 DEF Taken
<1>12. first \in Taken(sent)' /\ \A r : first \notin Taken(r)
  <2>1. /\ TakenFrom(c) \in Nat /\ TakenFrom(c) + 1 \in 1 .. MAX_SENDS
        /\ TakenFrom(c) + 1 <= TakenFrom(c)'
    BY <1>4, <1>5, <1>6, <1>10, RoutingServerAssumption
  <2>2. first \in Taken(sent)'
    BY <1>6, <2>1 DEF Taken
  <2>3. ~ (TakenFrom(c) + 1 <= TakenFrom(c))
    BY <2>1
  <2> QED
    BY <2>2, <2>3 DEF Taken
<1>13. ASSUME NEW r \in Offered
       PROVE  Times(r)' <= Cardinality(Taken(r)') + Allowance(r)
  <2>1. /\ Times(r) \in Nat /\ Cardinality(Taken(r)) \in Nat /\ Allowance(r) \in Nat
        /\ Times(r) <= Cardinality(Taken(r)) + Allowance(r)
    BY <1>3, PlacesFinite, TakenFinite
       DEF TableInv, AppliedInv, AppliedWasTaken, Allowance
  <2>2. IsFiniteSet(Taken(r)') /\ Cardinality(Taken(r)') \in Nat
    BY SomeTyped DEF Taken
  <2>3. Cardinality(Taken(r)) <= Cardinality(Taken(r)')
    BY <1>11, <2>2, FS_Subset
  <2>4. CASE ~HasRoom \/ r # e
    <3>1. r \in Routes
      BY RoutingServerAssumption
    <3>2. Times(r)' = Times(r)
      <4>1. CASE HasRoom
        BY <1>2, <1>3, <1>7, <2>4, <4>1, <3>1, AddTimes DEF add_route
      <4>2. CASE ~HasRoom
        BY <1>2, <4>2 DEF add_route, tableVars, Times, InUse
      <4> QED
        BY <4>1, <4>2
    <3> QED
      BY <2>1, <2>2, <2>3, <3>2
  <2>5. CASE HasRoom /\ r = e
    <3>1. Times(r)' = Times(r) + 1
      BY <1>2, <1>3, <1>7, <2>5, AddTimes DEF add_route
    <3>2. /\ Taken(r) \cup {first} \subseteq Taken(r)' /\ first \notin Taken(r)
      BY <1>7, <1>11, <1>12, <2>5
    <3>3. Cardinality(Taken(r) \cup {first}) = Cardinality(Taken(r)) + 1
      BY <3>2, TakenFinite, OneMore
    <3>4. Cardinality(Taken(r) \cup {first}) <= Cardinality(Taken(r)')
      BY <2>2, <3>2, FS_Subset
    <3> QED
      BY <2>1, <2>2, <3>1, <3>3, <3>4
  <2> QED
    BY <2>4, <2>5
<1> QED
  BY <1>9, <1>13 DEF AppliedInv, AppliedWasTaken, Allowance

LEMMA NextApplied == RouteInv /\ AppliedInv /\ [Next]_vars => AppliedInv'
<1> SUFFICES ASSUME RouteInv, AppliedInv, [Next]_vars PROVE AppliedInv'
  OBVIOUS
<1>1. CASE Select \/ AcceptConnection \/ ReadConsole \/ BeginScan \/ EndScan
  BY <1>1, OtherStepsApplied
     DEF Select, AcceptConnection, ReadConsole, BeginScan, EndScan, routeVars,
         netVars, clientVars
<1>2. CASE ReadClient
  <2>1. PICK slot \in ReadySlots :
          \/ ReceiveRoute(owner[monitor_fd_set[slot]])
          \/ DropClient(owner[monitor_fd_set[slot]], slot)
    BY <1>2 DEF ReadClient
  <2>2. UNCHANGED typed /\ pc = "scan"
    BY <1>2 DEF ReadClient, clientVars
  <2>3. CASE DropClient(owner[monitor_fd_set[slot]], slot)
    BY <2>2, <2>3, OtherStepsApplied DEF DropClient, routeVars
  <2>4. CASE ReceiveRoute(owner[monitor_fd_set[slot]])
    <3>1. owner[monitor_fd_set[slot]] \in Clients
      BY <2>2, ReadySlot, OwnedSlot
    <3> QED
      BY <2>2, <2>4, <3>1, ReceiveApplied
  <2> QED
    BY <2>1, <2>3, <2>4
<1>3. CASE TypeAtConsole
  BY <1>3, OtherStepsApplied
     DEF TypeAtConsole, serverVars, routeVars, netVars, clientVars
<1>4. ASSUME NEW c \in Clients, ClientStep(c) PROVE AppliedInv'
  <2>1. CASE SendRoute(c)
    BY <2>1, SendRouteApplied
  <2>2. CASE ~SendRoute(c)
    BY <1>4, <2>2, OtherStepsApplied
       DEF ClientStep, Connect, ConnectRefused, ReadListing, ServerClosed, Leave,
           serverVars, routeVars, netVars
  <2> QED
    BY <2>1, <2>2
<1>5. CASE UNCHANGED vars
  BY <1>5, OtherStepsApplied DEF vars, serverVars, routeVars, netVars, clientVars
<1> QED
  BY <1>1, <1>2, <1>3, <1>4, <1>5 DEF Next, ServerStep

\* A route is in the table at most as often as users typed it, counting main's
\* own entry: no read adds a route twice or one out of the text of several.
THEOREM NoRouteAppliedTwice == Spec => []AppliedAtMostOnce
<1>1. RouteInv /\ AppliedInv => AppliedAtMostOnce
  <2> SUFFICES ASSUME RouteInv, AppliedInv, NEW r \in Offered
               PROVE  Times(r) <= TimesTyped(r) + Allowance(r)
    BY DEF AppliedAtMostOnce, Allowance
  <2> DEFINE typedAs == {place \in Clients \X (1 .. MAX_SENDS) :
                           /\ place[2] <= Len(typed[place[1]])
                           /\ typed[place[1]][place[2]] = r}
  <2>1. \A c \in Clients : TakenFrom(c) \in Int /\ TakenFrom(c) <= Len(typed[c])
                           /\ Len(typed[c]) \in Nat
    <3>1. \A c \in Clients : /\ typed[c] \in Seq(Offered) /\ up[c] \in Seq(Offered)
                             /\ EndsWith(typed[c], up[c])
      BY DEF RouteInv, TypeOK, AppliedInv, UnreadIsTyped
    <3>2. \A c \in Clients : Len(typed[c]) \in Nat /\ TakenFrom(c) \in 0 .. Len(typed[c])
      BY <3>1, EndsTaken DEF TakenFrom
    <3> QED
      BY <3>2
  <2>2. Taken(r) \subseteq typedAs
    BY <2>1 DEF Taken
  <2>3. IsFiniteSet(typedAs)
    BY SomeTyped
  <2>4. Cardinality(Taken(r)) <= TimesTyped(r) /\ TimesTyped(r) \in Nat
    BY <2>2, <2>3, FS_Subset, FS_CardinalityType DEF TimesTyped
  <2>5. /\ Times(r) \in Nat /\ Cardinality(Taken(r)) \in Nat /\ Allowance(r) \in Nat
        /\ Times(r) <= Cardinality(Taken(r)) + Allowance(r)
    BY PlacesFinite, TakenFinite
       DEF RouteInv, TypeOK, AppliedInv, AppliedWasTaken, Allowance
  <2> QED
    BY <2>4, <2>5
<1> QED
  BY <1>1, InitApplied, NextApplied, RoutingInvariance, PTL DEF Spec

-----------------------------------------------------------------------------
(* Every listing is a version of one growing list.                         *)

\* The table as it was when it had k entries.
TableOf(k) == [n \in 0 .. (k - 1) |-> routing_table[n]]
IsVersion(l) == \E k \in 0 .. table_size : l = TableOf(k)

\* What a client has read, and then what it will read, in order.
VersionsInv ==
  \A c \in Clients :
    /\ IsVersion(seen[c])
    /\ \A m \in 1 .. Len(down[c]) :
         /\ IsVersion(down[c][m])
         /\ DOMAIN seen[c] \subseteq DOMAIN down[c][m]
         /\ \A later \in m .. Len(down[c]) : DOMAIN down[c][m] \subseteq DOMAIN down[c][later]

ListingIsTable ==
  /\ InUse = 0 .. (table_size - 1)
  /\ IsVersion(Listing)
  /\ \A l : IsVersion(l) => DOMAIN l \subseteq DOMAIN Listing

LEMMA ListingIsLatest == TableTypeOK => ListingIsTable
<1> SUFFICES ASSUME TableTypeOK PROVE ListingIsTable
  OBVIOUS
<1>1. table_size \in 0 .. MAX_ROUTE_TABLE_ENTRY /\ MAX_ROUTE_TABLE_ENTRY \in Nat
  BY RoutingTableAssumption DEF TableTypeOK
<1>2. InUse = 0 .. (table_size - 1)
  BY <1>1 DEF InUse, Entries
<1>3. Listing = TableOf(table_size)
  BY <1>2 DEF Listing, TableOf
<1>4. \A k \in 0 .. table_size : 0 .. (k - 1) \subseteq 0 .. (table_size - 1)
  BY <1>1
<1>5. \A l : IsVersion(l) => DOMAIN l \subseteq 0 .. (table_size - 1)
  BY <1>4 DEF IsVersion, TableOf
<1>6. DOMAIN Listing = 0 .. (table_size - 1)
  BY <1>2 DEF Listing
<1>7. IsVersion(Listing)
  BY <1>1, <1>3 DEF IsVersion
<1> QED
  BY <1>2, <1>5, <1>6, <1>7 DEF ListingIsTable

\* An entry more.
Added(e) ==
  /\ HasRoom
  /\ routing_table' = [routing_table EXCEPT ![table_size] = e]
  /\ table_size' = table_size + 1

LEMMA VersionsStay ==
  ASSUME TableTypeOK, (\E e \in Routes : Added(e)) \/ UNCHANGED <<routing_table, table_size>>
  PROVE  \A l : IsVersion(l) => IsVersion(l)'
<1> SUFFICES ASSUME NEW l, NEW k \in 0 .. table_size, l = TableOf(k)
             PROVE  IsVersion(l)'
  BY DEF IsVersion
<1>1. table_size \in Nat /\ routing_table \in [Entries -> Routes \cup {NoRoute}]
  BY RoutingTableAssumption DEF TableTypeOK
<1>2. k \in 0 .. table_size'
  BY <1>1 DEF Added
<1>3. \A n \in 0 .. (k - 1) : routing_table'[n] = routing_table[n]
  <2>1. \A n \in 0 .. (k - 1) : n \in Entries /\ n # table_size
    BY <1>1, RoutingTableAssumption DEF TableTypeOK, Entries
  <2>2. CASE UNCHANGED <<routing_table, table_size>>
    BY <2>2
  <2>3. ASSUME NEW e \in Routes, Added(e)
        PROVE  \A n \in 0 .. (k - 1) : routing_table'[n] = routing_table[n]
    BY <1>1, <2>1, <2>3 DEF Added
  <2> QED
    BY <2>2, <2>3
<1>4. TableOf(k)' = TableOf(k)
  BY <1>3 DEF TableOf
<1> QED
  BY <1>2, <1>4 DEF IsVersion

\* No listing is sent or read.
LEMMA SilentStepVersions ==
  ASSUME VersionsInv, UNCHANGED <<tableVars, down, seen>>
  PROVE  VersionsInv' /\ UNCHANGED <<Listing, seen>>
<1>1. \A l : IsVersion(l)' <=> IsVersion(l)
  BY DEF IsVersion, TableOf, tableVars
<1>2. VersionsInv'
  BY <1>1 DEF VersionsInv
<1>3. Listing' = Listing
  BY DEF Listing, InUse, tableVars
<1> QED
  BY <1>2, <1>3

\* Whoever is sent a listing has it as the last one, and as the latest version.
LEMMA SendVersions ==
  ASSUME RouteInv, VersionsInv, TableTypeOK', NEW reached, SendTo(reached), UNCHANGED seen,
         (\E e \in Routes : Added(e)) \/ UNCHANGED <<routing_table, table_size>>
  PROVE  VersionsInv'
<1> SUFFICES ASSUME NEW c \in Clients
             PROVE  /\ IsVersion(seen[c])'
                    /\ \A m \in 1 .. Len(down'[c]) :
                         /\ IsVersion(down[c][m])'
                         /\ DOMAIN seen'[c] \subseteq DOMAIN down'[c][m]
                         /\ \A later \in m .. Len(down'[c]) :
                              DOMAIN down'[c][m] \subseteq DOMAIN down'[c][later]
  BY DEF VersionsInv
<1>1. \A l : IsVersion(l) => IsVersion(l)'
  BY VersionsStay DEF RouteInv, TypeOK
<1>2. IsVersion(Listing)' /\ \A l : IsVersion(l)' => DOMAIN l \subseteq DOMAIN Listing'
  <2>1. ListingIsTable'
    BY ListingIsLatest, PTL
  <2> QED
    BY <2>1 DEF ListingIsTable
<1>3. /\ IsVersion(seen[c])
      /\ \A m \in 1 .. Len(down[c]) :
           /\ IsVersion(down[c][m])
           /\ DOMAIN seen[c] \subseteq DOMAIN down[c][m]
           /\ \A later \in m .. Len(down[c]) : DOMAIN down[c][m] \subseteq DOMAIN down[c][later]
  BY DEF VersionsInv
<1>4. down'[c] = down[c] \/ down'[c] = Append(down[c], Listing')
  BY DEF SendTo
<1>5. CASE down'[c] = down[c]
  BY <1>1, <1>3, <1>5
<1>6. CASE down'[c] = Append(down[c], Listing')
  <2>1. down[c] \in Seq(Listings)
    BY DEF RouteInv, TypeOK
  <2>2. /\ Len(down'[c]) = Len(down[c]) + 1 /\ Len(down[c]) \in Nat
        /\ down'[c][Len(down[c]) + 1] = Listing'
        /\ \A m \in 1 .. Len(down[c]) : down'[c][m] = down[c][m]
    BY <1>6, <2>1
  <2>3. ASSUME NEW m \in 1 .. Len(down'[c])
        PROVE  /\ IsVersion(down[c][m])'
               /\ DOMAIN seen'[c] \subseteq DOMAIN down'[c][m]
    <3>1. CASE m \in 1 .. Len(down[c])
      BY <1>1, <1>3, <2>2, <3>1
    <3>2. CASE m = Len(down[c]) + 1
      BY <1>1, <1>2, <1>3, <2>2, <3>2
    <3> QED
      BY <2>2, <3>1, <3>2
  <2>4. ASSUME NEW m \in 1 .. Len(down'[c]), NEW later \in m .. Len(down'[c])
        PROVE  DOMAIN down'[c][m] \subseteq DOMAIN down'[c][later]
    <3>1. CASE later = Len(down[c]) + 1
      BY <1>2, <2>2, <2>3, <3>1
    <3>2. CASE later # Len(down[c]) + 1
      <4>1. m \in 1 .. Len(down[c]) /\ later \in m .. Len(down[c])
            /\ later \in 1 .. Len(down[c])
        BY <2>2, <3>2
      <4> QED
        BY <1>3, <2>2, <4>1
    <3> QED
      BY <3>1, <3>2
  <2>5. IsVersion(seen[c])'
    BY <1>1, <1>3
  <2> QED
    BY <2>3, <2>4, <2>5
<1> QED
  BY <1>4, <1>5, <1>6

\* A client that reads gets what was sent before what it leaves.
LEMMA ReadVersions ==
  ASSUME RouteInv, VersionsInv, NEW c \in Clients, ReadListing(c)
  PROVE  VersionsInv' /\ Feed!Show(c)
<1>1. PICK n \in 1 .. Len(down[c]) :
        /\ seen' = [seen EXCEPT ![c] = down[c][n]]
        /\ down' = [down EXCEPT ![c] = SubSeq(@, n + 1, Len(@))]
  BY DEF ReadListing
<1>2. UNCHANGED <<routing_table, table_size>>
  BY DEF ReadListing, serverVars, routeVars, tableVars
<1>3. \A l : IsVersion(l)' <=> IsVersion(l)
  BY <1>2 DEF IsVersion, TableOf
<1>4. /\ down \in [Clients -> Seq(Listings)] /\ seen \in [Clients -> Listings]
      /\ table_size \in 0 .. MAX_ROUTE_TABLE_ENTRY /\ TableTypeOK
      /\ MAX_ROUTE_TABLE_ENTRY \in Nat
  BY RoutingTableAssumption DEF RouteInv, TypeOK, TableTypeOK
<1>5. /\ IsVersion(seen[c])
      /\ \A m \in 1 .. Len(down[c]) :
           /\ IsVersion(down[c][m])
           /\ DOMAIN seen[c] \subseteq DOMAIN down[c][m]
           /\ \A later \in m .. Len(down[c]) : DOMAIN down[c][m] \subseteq DOMAIN down[c][later]
  BY DEF VersionsInv
<1>6. VersionsInv'
  <2> SUFFICES ASSUME NEW d \in Clients
               PROVE  /\ IsVersion(seen[d])'
                      /\ \A m \in 1 .. Len(down'[d]) :
                           /\ IsVersion(down[d][m])'
                           /\ DOMAIN seen'[d] \subseteq DOMAIN down'[d][m]
                           /\ \A later \in m .. Len(down'[d]) :
                                DOMAIN down'[d][m] \subseteq DOMAIN down'[d][later]
    BY DEF VersionsInv
  <2>1. CASE d # c
    <3>1. seen'[d] = seen[d] /\ down'[d] = down[d]
      BY <1>1, <1>4, <2>1
    <3> QED
      BY <1>3, <3>1 DEF VersionsInv
  <2>2. CASE d = c
    <3>1. down[c] \in Seq(Listings) /\ Len(down[c]) \in Nat /\ n \in Nat
      BY <1>4
    <3>2. seen'[c] = down[c][n] /\ down'[c] = SubSeq(down[c], n + 1, Len(down[c]))
      BY <1>1, <1>4
    <3>3. /\ Len(down'[c]) = Len(down[c]) - n
          /\ \A m \in 1 .. (Len(down[c]) - n) : down'[c][m] = down[c][m + n]
      BY <3>1, <3>2
    <3>4. ASSUME NEW m \in 1 .. Len(down'[c])
          PROVE  /\ IsVersion(down[c][m])'
                 /\ DOMAIN seen'[c] \subseteq DOMAIN down'[c][m]
      <4>1. m + n \in 1 .. Len(down[c]) /\ m + n \in n .. Len(down[c])
            /\ down'[c][m] = down[c][m + n]
        BY <3>1, <3>3
      <4> QED
        BY <1>3, <1>5, <3>2, <4>1
    <3>5. ASSUME NEW m \in 1 .. Len(down'[c]), NEW later \in m .. Len(down'[c])
          PROVE  DOMAIN down'[c][m] \subseteq DOMAIN down'[c][later]
      <4>1. /\ m + n \in 1 .. Len(down[c]) /\ later + n \in (m + n) .. Len(down[c])
            /\ down'[c][m] = down[c][m + n] /\ down'[c][later] = down[c][later + n]
        <5>1. m \in 1 .. (Len(down[c]) - n) /\ later \in 1 .. (Len(down[c]) - n)
              /\ later \in m .. (Len(down[c]) - n)
          BY <3>1, <3>3
        <5>2. down'[c][m] = down[c][m + n] /\ down'[c][later] = down[c][later + n]
          BY <3>3, <5>1
        <5>3. m + n \in 1 .. Len(down[c]) /\ later + n \in (m + n) .. Len(down[c])
          BY ONLY <3>1, <5>1
        <5> QED
          BY <5>2, <5>3
      <4> QED
        BY <1>5, <4>1
    <3>6. IsVersion(seen[c])'
      BY <1>3, <1>5, <3>2
    <3> QED
      BY <2>2, <3>4, <3>5, <3>6
  <2> QED
    BY <2>1, <2>2
<1>7. PICK k \in 0 .. table_size : down[c][n] = TableOf(k)
  BY <1>5 DEF IsVersion
<1>8. /\ DOMAIN seen[c] \subseteq 0 .. (k - 1)
      /\ k \in 0 .. MAX_ROUTE_TABLE_ENTRY
  BY <1>4, <1>5, <1>7 DEF TableOf
<1>9. 0 .. (k - 1) \subseteq DOMAIN Listing /\ TableOf(k) = Feed!Version(k)
  <2>1. 0 .. (k - 1) \subseteq InUse
    BY <1>4, ListingIsLatest DEF ListingIsTable
  <2> QED
    BY <2>1 DEF Listing, TableOf, Feed!Version
<1>10. Listing' = Listing
  BY <1>2 DEF Listing, InUse
<1> QED
  BY <1>1, <1>6, <1>7, <1>8, <1>9, <1>10 DEF Feed!Show

\* A route that is added is at the end of the list.
LEMMA ReceiveVersions ==
  ASSUME RouteInv, VersionsInv, NEW c \in Clients, up[c] \in Seq(Offered), ReceiveRoute(c),
         UNCHANGED seen
  PROVE  VersionsInv' /\ [Feed!FeedNext]_<<Listing, seen>>
<1>1. PICK e \in Parsed(up[c]) : add_route(e)
  BY DEF ReceiveRoute
<1>2. e \in Routes
  <2>1. up[c][1] \in Offered
    BY DEF ReceiveRoute
  <2> QED
    BY <1>1, <2>1, RoutingServerAssumption DEF Parsed
<1>3. CASE ~HasRoom
  BY <1>1, <1>3, SilentStepVersions DEF ReceiveRoute, add_route
<1>4. CASE HasRoom
  <2>1. Added(e)
    BY <1>1, <1>4 DEF add_route, Added
  <2>2. TableTypeOK' /\ TableTypeOK
    BY <1>1, <1>2, AddKeepsTable DEF RouteInv, TypeOK
  <2>3. PICK reached : SendTo(reached)
    BY <1>4 DEF ReceiveRoute, send_routing_table_to_clients
  <2>4. VersionsInv'
    BY <1>2, <2>1, <2>2, <2>3, SendVersions
  <2>5. InUse = 0 .. (table_size - 1) /\ InUse' = 0 .. (table_size' - 1)
    <3>1. ListingIsTable
      BY <2>2, ListingIsLatest
    <3>2. ListingIsTable'
      BY <2>2, ListingIsLatest, PTL
    <3> QED
      BY <3>1, <3>2 DEF ListingIsTable
  <2>6. /\ table_size \in 0 .. (MAX_ROUTE_TABLE_ENTRY - 1) /\ table_size \in Entries
        /\ table_size' = table_size + 1
        /\ routing_table' = [routing_table EXCEPT ![table_size] = e]
        /\ routing_table \in [Entries -> Routes \cup {NoRoute}]
    BY <2>1, <2>2, RoutingTableAssumption DEF TableTypeOK, HasRoom, Added, Entries
  <2>7. /\ 0 .. (table_size' - 1) = 0 .. table_size
        /\ \A n \in 0 .. table_size : n \in Entries
        /\ \A n \in 0 .. table_size : n < table_size => n \in 0 .. (table_size - 1)
    <3>1. table_size \in Int /\ MAX_ROUTE_TABLE_ENTRY \in Int
          /\ 0 <= table_size /\ table_size <= MAX_ROUTE_TABLE_ENTRY - 1
          /\ table_size' = table_size + 1
      BY <2>6, RoutingTableAssumption
    <3> QED
      BY ONLY <3>1 DEF Entries
  <2>8. \A n \in 0 .. table_size :
          routing_table'[n] = IF n < table_size THEN Listing[n] ELSE e
    BY <2>5, <2>6, <2>7 DEF Listing
  <2>9. Listing' = [n \in 0 .. table_size |-> routing_table'[n]]
    BY <2>5, <2>7 DEF Listing
  <2>10. Listing' = [n \in 0 .. table_size |-> IF n < table_size THEN Listing[n] ELSE e]
    BY <2>8, <2>9
  <2>11. DOMAIN Listing = 0 .. (table_size - 1)
    BY <2>5 DEF Listing
  <2>12. Feed!Grow(e)
    BY <2>6, <2>10, <2>11 DEF Feed!Grow
  <2> QED
    BY <1>2, <2>4, <2>12 DEF Feed!FeedNext
<1> QED
  BY <1>3, <1>4

LEMMA NextVersions ==
  RouteInv /\ VersionsInv /\ [Next]_vars => VersionsInv' /\ [Feed!FeedNext]_<<Listing, seen>>
<1> SUFFICES ASSUME RouteInv, VersionsInv, [Next]_vars
             PROVE  VersionsInv' /\ [Feed!FeedNext]_<<Listing, seen>>
  OBVIOUS
<1>1. CASE Select \/ ReadConsole \/ BeginScan \/ EndScan
  BY <1>1, SilentStepVersions
     DEF Select, ReadConsole, BeginScan, EndScan, routeVars, netVars, clientVars
<1>2. CASE AcceptConnection
  <2>1. UNCHANGED <<tableVars, seen>>
    BY <1>2 DEF AcceptConnection, routeVars, clientVars
  <2>2. CASE UNCHANGED down
    BY <2>1, <2>2, SilentStepVersions
  <2>3. ASSUME NEW reached, SendTo(reached)
        PROVE  VersionsInv' /\ UNCHANGED <<Listing, seen>>
    <3>1. TableTypeOK'
      BY <1>2, <2>1 DEF AcceptConnection, routeVars, tableVars, RouteInv, TypeOK, TableTypeOK
    <3>2. VersionsInv'
      BY <2>1, <2>3, <3>1, SendVersions DEF tableVars
    <3> QED
      BY <2>1, <3>2 DEF Listing, InUse, tableVars
  <2> QED
    BY <1>2, <2>2, <2>3 DEF AcceptConnection, send_routing_table_to_client
<1>3. CASE ReadClient
  <2>1. PICK slot \in ReadySlots :
          \/ ReceiveRoute(owner[monitor_fd_set[slot]])
          \/ DropClient(owner[monitor_fd_set[slot]], slot)
    BY <1>3 DEF ReadClient
  <2>2. UNCHANGED seen /\ pc = "scan"
    BY <1>3 DEF ReadClient, clientVars
  <2>3. CASE DropClient(owner[monitor_fd_set[slot]], slot)
    BY <2>2, <2>3, SilentStepVersions DEF DropClient, routeVars
  <2>4. CASE ReceiveRoute(owner[monitor_fd_set[slot]])
    <3>1. owner[monitor_fd_set[slot]] \in Clients
      BY <2>2, ReadySlot, OwnedSlot
    <3>2. up[owner[monitor_fd_set[slot]]] \in Seq(Offered)
      BY <3>1 DEF RouteInv, TypeOK
    <3> QED
      BY <2>2, <2>4, <3>1, <3>2, ReceiveVersions
  <2> QED
    BY <2>1, <2>3, <2>4
<1>4. CASE TypeAtConsole
  BY <1>4, SilentStepVersions
     DEF TypeAtConsole, serverVars, routeVars, netVars, clientVars
<1>5. ASSUME NEW c \in Clients, ClientStep(c)
      PROVE  VersionsInv' /\ [Feed!FeedNext]_<<Listing, seen>>
  <2>1. CASE ReadListing(c)
    BY <2>1, ReadVersions DEF Feed!FeedNext
  <2>2. CASE ~ReadListing(c)
    BY <1>5, <2>2, SilentStepVersions
       DEF ClientStep, Connect, ConnectRefused, SendRoute, ServerClosed, Leave,
           serverVars, routeVars, netVars
  <2> QED
    BY <2>1, <2>2
<1>6. CASE UNCHANGED vars
  BY <1>6, SilentStepVersions DEF vars, serverVars, routeVars, netVars, clientVars
<1> QED
  BY <1>1, <1>2, <1>3, <1>4, <1>5, <1>6 DEF Next, ServerStep

LEMMA InitVersions == Init => VersionsInv /\ Feed!FeedInit
<1> SUFFICES ASSUME Init PROVE VersionsInv /\ Feed!FeedInit
  OBVIOUS
<1>1. /\ table_size = 1 /\ 0 \in Entries
      /\ routing_table = [n \in Entries |-> IF n = 0 THEN FirstRoute ELSE NoRoute]
      /\ seen = [c \in Clients |-> Nothing] /\ \A c \in Clients : down[c] = <<>>
  BY RoutingTableAssumption DEF Init, Entries
<1>2. InUse = {0}
  BY <1>1 DEF InUse, Entries
<1>3. Listing = [n \in {0} |-> FirstRoute]
  BY <1>1, <1>2 DEF Listing
<1>4. Nothing = [n \in {} |-> FirstRoute]
  BY DEF Nothing
<1>5. IsVersion(Nothing)
  <2>1. 0 .. (0 - 1) = {}
    OBVIOUS
  <2>2. TableOf(0) = Nothing
    BY <2>1 DEF TableOf, Nothing
  <2> QED
    BY <1>1, <2>2 DEF IsVersion
<1>6. \A c \in Clients : 1 .. Len(down[c]) = {} /\ seen[c] = Nothing
  BY <1>1
<1>7. VersionsInv
  BY <1>5, <1>6 DEF VersionsInv
<1> QED
  BY <1>1, <1>3, <1>4, <1>7 DEF Feed!FeedInit

\* Whoever reads the server's listings sees one list grow: what is on a screen
\* is a version of it, and the next one is as new or newer.
THEOREM ScreensFollowTheList == Spec => ImplementsFeed
<1>1. [Feed!FeedNext]_<<Listing, seen>> <=> [Feed!FeedNext]_(Feed!feedVars)
  BY DEF Feed!feedVars
<1> QED
  BY <1>1, InitVersions, NextVersions, RoutingInvariance, PTL
     DEF Spec, ImplementsFeed, Feed!FeedSpec
=============================================================================
