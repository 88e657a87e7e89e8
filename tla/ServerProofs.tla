---------------------------- MODULE ServerProofs ----------------------------
(***************************************************************************)
(* Proofs about the server, for every Capacity and every set of ClientIDs, *)
(* addresses, listeners, sessions and streams.  First the address memory:  *)
(* the lookup map of clientIDMap stays consistent with its circular buffer *)
(* and together they implement RecentAddrs.  Then the server built on it:  *)
(* every step of the server is a step of the memory or leaves it alone, a  *)
(* session is credited with its client's newest address or none, and a     *)
(* bindaddr that was refused is not served.  Last the way packets take from *)
(* a client's KCP to the server's: what the encapsulation writes is what    *)
(* its reader finds, and packets of a client come out of the queue that all *)
(* share in the order written.                                              *)
(***************************************************************************)
EXTENDS Server, Upstream, FiniteSetTheorems, TLAPS

(* Advancing oldest wraps from the last slot to slot 0.                    *)
LEMMA WrapAround ==
    ASSUME Capacity > 0, NEW o \in Slots
    PROVE  (o + 1) % Capacity = IF o = Capacity - 1 THEN 0 ELSE o + 1
BY CapacityNat DEF Slots

(* TypeOK is preserved by Set: oldest stays a slot, current a slot or      *)
(* NoIndex.                                                                *)
LEMMA SetTypeOK ==
    ASSUME TypeOK, NEW c \in ClientIDs, NEW a \in Addrs, Set(c, a)
    PROVE  TypeOK'
<1> USE CapacityNat DEF Slots, NoIndex
<1>1. oldest \in Slots
  BY DEF TypeOK, Set
<1>2. entries' \in [Slots -> [clientID : ClientIDs, addr : Addrs \cup {NoAddr}]]
  BY <1>1 DEF TypeOK, Set
<1>3. oldest' \in Slots
  BY <1>1, WrapAround DEF Set
<1>4. current' \in [ClientIDs -> Slots \cup {NoIndex}]
  BY <1>1 DEF TypeOK, Set, Forget
<1> QED BY <1>2, <1>3, <1>4 DEF TypeOK, Set

(* Every reachable state of clientIDMap is well typed.                     *)
THEOREM TypeCorrect == Spec => []TypeOK
<1>1. Init => TypeOK
  BY CapacityNat, ZeroIsID DEF Init, newClientIDMap, TypeOK, Slots, NoIndex
<1>2. TypeOK /\ [Next]_vars => TypeOK'
  <2> SUFFICES ASSUME TypeOK, [Next]_vars PROVE TypeOK'
    OBVIOUS
  <2>1. CASE Next
    BY <2>1, SetTypeOK DEF Next
  <2>2. CASE UNCHANGED vars
    BY <2>2 DEF vars, TypeOK
  <2> QED BY <2>1, <2>2
<1> QED BY <1>1, <1>2, PTL DEF Spec

-----------------------------------------------------------------------------
(* Advancing oldest ages every other slot by one and makes the written     *)
(* slot the newest.                                                        *)
LEMMA RankAfterSet ==
    ASSUME TypeOK, NEW c \in ClientIDs, NEW a \in Addrs, Set(c, a), NEW i \in Slots
    PROVE  /\ Rank(i) \in 0..Capacity-1
           /\ i = oldest => Rank(i)' = Capacity - 1
           /\ i # oldest => Rank(i)' = Rank(i) - 1
<1>1. oldest \in Slots /\ Capacity > 0
  BY DEF TypeOK, Set
<1>2. oldest' = IF oldest = Capacity - 1 THEN 0 ELSE oldest + 1
  BY <1>1, WrapAround DEF Set
<1> QED BY <1>1, <1>2, CapacityNat DEF Rank, Slots

(* Set keeps every key of the lookup map on an entry of its own ClientID:  *)
(* the one key that could be left dangling is the one Forget drops.        *)
LEMMA SetPointsHome ==
    ASSUME Inv, NEW c \in ClientIDs, NEW a \in Addrs, Set(c, a)
    PROVE  CurrentPointsHome'
<1> SUFFICES ASSUME NEW d \in ClientIDs, current'[d] # NoIndex
             PROVE  /\ entries'[current'[d]].clientID = d
                    /\ entries'[current'[d]].addr # NoAddr
  BY DEF CurrentPointsHome
<1>1. oldest \in Slots /\ TypeOK
  BY CapacityNat DEF Inv, TypeOK, Set, Slots
<1>2. CASE d = c
  BY <1>1, <1>2, NilIsNoAddr DEF TypeOK, Set, Forget
<1>3. CASE d # c
  <2>1. current'[d] = Forget[d] /\ Forget[d] # NoIndex
    BY <1>1, <1>3 DEF TypeOK, Set, Forget
  <2>2. current'[d] = current[d] /\ current[d] \in Slots
    BY <1>1, <2>1 DEF TypeOK, Forget, NoIndex
  <2>3. entries[current[d]].clientID = d /\ entries[current[d]].addr # NoAddr
    BY <2>1, <2>2 DEF Inv, CurrentPointsHome
  <2>4. current[d] # oldest
    BY <1>1, <2>1, <2>2, <2>3 DEF TypeOK, Forget
  <2> QED BY <1>1, <2>2, <2>3, <2>4 DEF TypeOK, Set
<1> QED BY <1>2, <1>3

(* Set keeps the lookup map on the newest entry of every ClientID: a       *)
(* ClientID that Forget drops had no other entry, since any other would    *)
(* have been newer than the oldest.                                        *)
LEMMA SetIsNewest ==
    ASSUME Inv, NEW c \in ClientIDs, NEW a \in Addrs, Set(c, a)
    PROVE  CurrentIsNewest'
<1> SUFFICES ASSUME NEW d \in ClientIDs, NEW i \in Slots,
                    entries'[i].clientID = d, entries'[i].addr # NoAddr
             PROVE  current'[d] # NoIndex /\ Rank(i)' <= Rank(current[d])'
  BY DEF CurrentIsNewest, Slots
<1>1. oldest \in Slots /\ TypeOK /\ Capacity > 0
  BY CapacityNat DEF Inv, TypeOK, Set, Slots
<1>2. CASE d = c
  <2>1. current'[d] = oldest
    BY <1>1, <1>2 DEF TypeOK, Set, Forget
  <2>2. Rank(current[d])' = Capacity - 1
    BY <1>1, <2>1, RankAfterSet DEF Rank
  <2>3. Rank(i)' <= Capacity - 1
    BY <1>1, RankAfterSet, CapacityNat
  <2> QED BY <1>1, <2>1, <2>2, <2>3 DEF Slots, NoIndex
<1>3. CASE d # c
  <2>1. i # oldest /\ entries'[i] = entries[i]
    BY <1>1, <1>3 DEF TypeOK, Set
  <2>2. current[d] # NoIndex /\ Rank(i) <= Rank(current[d])
    BY <2>1 DEF Inv, CurrentIsNewest
  <2>3. current[d] \in Slots
    BY <1>1, <2>2 DEF TypeOK
  <2>4. Rank(i) > 0 /\ Rank(oldest) = 0
    BY <1>1, <2>1, CapacityNat DEF Rank, Slots
  <2>5. current[d] # oldest
    BY <1>1, <2>2, <2>3, <2>4, RankAfterSet, CapacityNat
  <2>6. current'[d] = current[d]
    BY <1>1, <1>3, <2>5 DEF TypeOK, Set, Forget
  <2>7. Rank(i)' = Rank(i) - 1
    BY <1>1, <2>1, RankAfterSet
  <2>8. Rank(current[d])' = Rank(current[d]) - 1
    <3>1. \A j \in Slots : j # oldest => Rank(j)' = Rank(j) - 1
      BY <1>1, RankAfterSet
    <3>2. Rank(current[d])' = IF current[d] >= oldest' THEN current[d] - oldest' ELSE current[d] - oldest' + Capacity
      BY <2>6 DEF Rank
    <3> QED BY <2>3, <2>5, <3>1, <3>2 DEF Rank
  <2>9. Rank(i) \in Int /\ Rank(current[d]) \in Int
    BY <1>1, <2>3, CapacityNat DEF Rank, Slots
  <2> QED BY <2>2, <2>6, <2>7, <2>8, <2>9
<1> QED BY <1>2, <1>3

(* An empty clientIDMap satisfies the invariant.                           *)
LEMMA InitInv == Init => Inv
BY CapacityNat, ZeroIsID
DEF Init, newClientIDMap, Inv, TypeOK, CurrentPointsHome, CurrentIsNewest, Slots, NoIndex

(* Every step of clientIDMap keeps the invariant.                          *)
LEMMA NextInv == Inv /\ [Next]_vars => Inv'
<1> SUFFICES ASSUME Inv, [Next]_vars PROVE Inv'
  OBVIOUS
<1>1. CASE Next
  BY <1>1, SetTypeOK, SetPointsHome, SetIsNewest DEF Next, Inv
<1>2. CASE UNCHANGED vars
  BY <1>2 DEF vars, Inv, TypeOK, CurrentPointsHome, CurrentIsNewest, Rank
<1> QED BY <1>1, <1>2

(* The inductive invariant of clientIDMap: its types and both directions   *)
(* of the agreement between lookup map and buffer.                         *)
THEOREM InvHolds == Spec => []Inv
BY InitInv, NextInv, PTL DEF Spec

(* In every reachable state, the lookup map of clientIDMap holds exactly   *)
(* the ClientIDs with a remembered Set, each at its newest entry.          *)
THEOREM LookupMapCorrect == Spec => [](CurrentPointsHome /\ CurrentIsNewest)
<1>1. Inv => CurrentPointsHome /\ CurrentIsNewest
  BY DEF Inv
<1> QED BY InvHolds, <1>1, PTL

-----------------------------------------------------------------------------
(* The window of the last Capacity Sets, as it is read off the buffer.     *)
LEMMA SlotRange ==
    ASSUME TypeOK, Capacity > 0, NEW i \in 1..Capacity
    PROVE  SlotOf(i) \in Slots /\ (SlotOf(i) = oldest <=> i = 1)
<1>1. oldest \in Slots
  BY DEF TypeOK
<1> QED BY <1>1, CapacityNat DEF SlotOf, Slots

(* Every slot is one of the window.                                        *)
LEMMA SlotCover ==
    ASSUME TypeOK, Capacity > 0, NEW j \in Slots
    PROVE  Rank(j) + 1 \in 1..Capacity /\ SlotOf(Rank(j) + 1) = j
<1>1. oldest \in Slots
  BY DEF TypeOK
<1> QED BY <1>1, CapacityNat DEF SlotOf, Slots, Rank

(* A Set moves the window up by one call: what was the (i+1)-th oldest     *)
(* slot becomes the i-th oldest, the overwritten slot the newest.          *)
LEMMA WindowShifts ==
    ASSUME TypeOK, NEW c \in ClientIDs, NEW a \in Addrs, Set(c, a), NEW i \in 1..Capacity
    PROVE  SlotOf(i)' = IF i = Capacity THEN oldest ELSE SlotOf(i + 1)
<1>1. oldest \in Slots /\ Capacity > 0
  BY DEF TypeOK, Set
<1>2. oldest' = IF oldest = Capacity - 1 THEN 0 ELSE oldest + 1
  BY <1>1, WrapAround DEF Set
<1> QED BY <1>1, <1>2, CapacityNat DEF SlotOf, Slots

(* Set changes the answers of Get exactly as RecentAddrs says.             *)
LEMMA SetAnswers ==
    ASSUME Inv, NEW c \in ClientIDs, NEW a \in Addrs, Set(c, a), NEW d \in ClientIDs
    PROVE  Get(d)' = IF d = c THEN a
                     ELSE IF d = entries[oldest].clientID
                             /\ ~(\E j \in Slots : j # oldest /\ entries[j].clientID = d
                                                  /\ entries[j].addr # NoAddr)
                          THEN NoAddr ELSE Get(d)
<1>1. oldest \in Slots /\ TypeOK /\ Capacity > 0
  BY CapacityNat DEF Inv, TypeOK, Set, Slots
<1>2. CASE d = c
  BY <1>1, <1>2 DEF TypeOK, Set, Forget, Get, Slots, NoIndex
<1>3. CASE d # c /\ current[d] = oldest
  <2>1. current'[d] = NoIndex /\ entries[oldest].clientID = d
    BY <1>1, <1>3 DEF Inv, CurrentPointsHome, TypeOK, Set, Forget, Slots, NoIndex
  <2>2. ASSUME NEW j \in Slots, j # oldest, entries[j].clientID = d, entries[j].addr # NoAddr
        PROVE  FALSE
    <3>1. Rank(j) <= Rank(oldest)
      BY <1>3, <2>2 DEF Inv, CurrentIsNewest
    <3> QED BY <1>1, <2>2, <3>1, CapacityNat DEF Rank, Slots
  <2> QED BY <1>3, <2>1, <2>2 DEF Get
<1>4. CASE d # c /\ current[d] # oldest
  <2>1. current'[d] = current[d]
    BY <1>1, <1>4 DEF TypeOK, Set, Forget
  <2>2. Get(d)' = Get(d)
    BY <1>1, <1>4, <2>1 DEF TypeOK, Set, Get
  <2>3. CASE current[d] = NoIndex
    BY <1>4, <2>2, <2>3 DEF Get
  <2>4. CASE current[d] # NoIndex
    <3>1. current[d] \in Slots /\ entries[current[d]].clientID = d /\ entries[current[d]].addr # NoAddr
      BY <1>1, <2>4 DEF Inv, CurrentPointsHome, TypeOK
    <3> QED BY <1>4, <2>2, <3>1
  <2> QED BY <2>3, <2>4
<1> QED BY <1>2, <1>3, <1>4

(* Set of clientIDMap is RSet of RecentAddrs under the refinement mapping. *)
LEMMA SetRefines ==
    ASSUME Inv, NEW c \in ClientIDs, NEW a \in Addrs, Set(c, a)
    PROVE  Recent!RSet(c, a)
<1>1. oldest \in Slots /\ TypeOK /\ Capacity > 0
  BY CapacityNat DEF Inv, TypeOK, Set, Slots
<1>2. [i \in 1..Capacity |-> entries[SlotOf(i)]]' =
        [i \in 1..Capacity |->
            IF i = Capacity THEN [clientID |-> c, addr |-> a]
            ELSE [k \in 1..Capacity |-> entries[SlotOf(k)]][i + 1]]
  <2> SUFFICES ASSUME NEW i \in 1..Capacity
               PROVE  entries'[SlotOf(i)'] = IF i = Capacity THEN [clientID |-> c, addr |-> a]
                                             ELSE entries[SlotOf(i + 1)]
    BY CapacityNat
  <2>1. CASE i = Capacity
    BY <1>1, <2>1, WindowShifts DEF Set, TypeOK
  <2>2. CASE i # Capacity
    <3>1. i + 1 \in 1..Capacity
      BY <2>2, CapacityNat
    <3>2. SlotOf(i + 1) \in Slots /\ SlotOf(i + 1) # oldest
      BY <1>1, <3>1, SlotRange, CapacityNat
    <3>3. SlotOf(i)' = SlotOf(i + 1)
      BY <1>1, <2>2, WindowShifts
    <3> QED BY <1>1, <2>2, <3>2, <3>3 DEF Set, TypeOK
  <2> QED BY <2>1, <2>2
<1>3. SlotOf(1) = oldest
  BY <1>1, CapacityNat, SlotRange
<1>4. ASSUME NEW d \in ClientIDs
      PROVE  Recent!RememberedLater(d) <=>
               \E j \in Slots : j # oldest /\ entries[j].clientID = d /\ entries[j].addr # NoAddr
  <2>1. ASSUME NEW i \in 2..Capacity, entries[SlotOf(i)].clientID = d, entries[SlotOf(i)].addr # NoAddr
        PROVE  \E j \in Slots : j # oldest /\ entries[j].clientID = d /\ entries[j].addr # NoAddr
    BY <1>1, <2>1, SlotRange, CapacityNat
  <2>2. ASSUME NEW j \in Slots, j # oldest, entries[j].clientID = d, entries[j].addr # NoAddr
        PROVE  \E i \in 2..Capacity : entries[SlotOf(i)].clientID = d /\ entries[SlotOf(i)].addr # NoAddr
    <3>1. Rank(j) + 1 \in 1..Capacity /\ SlotOf(Rank(j) + 1) = j
      BY <1>1, SlotCover
    <3>2. Rank(j) + 1 # 1
      BY <1>1, <1>3, <2>2, <3>1
    <3>3. Rank(j) + 1 \in 2..Capacity
      BY <3>1, <3>2, CapacityNat
    <3> QED BY <2>2, <3>1, <3>3
  <2>3. Recent!RememberedLater(d) <=>
          \E i \in 2..Capacity : entries[SlotOf(i)].clientID = d /\ entries[SlotOf(i)].addr # NoAddr
    <3>1. \A i \in 2..Capacity : i \in 1..Capacity
      BY CapacityNat
    <3> QED BY <3>1 DEF Recent!RememberedLater
  <2> QED BY <2>1, <2>2, <2>3
<1>5. [d \in ClientIDs |-> Get(d)]' =
        [d \in ClientIDs |->
            IF d = c THEN a
            ELSE IF d = entries[SlotOf(1)].clientID /\ ~Recent!RememberedLater(d) THEN NoAddr
            ELSE Get(d)]
  BY <1>3, <1>4, SetAnswers
<1> QED BY <1>1, <1>2, <1>5, CapacityNat DEF Recent!RSet

(* clientIDMap implements the window of the last Capacity Sets, whatever   *)
(* its capacity.                                                           *)
THEOREM Refinement == Spec => ImplementsRecentAddrs
<1>1. Init => Recent!RInit
  <2> SUFFICES ASSUME Init PROVE Recent!RInit
    OBVIOUS
  <2>1. \A i \in 1..Capacity : SlotOf(i) \in Slots
    BY CapacityNat DEF Init, newClientIDMap, SlotOf, Slots
  <2> QED BY <2>1 DEF Init, newClientIDMap, Recent!RInit, Get
<1>2. Inv /\ [Next]_vars => [Recent!RNext]_(Recent!rvars)
  <2> SUFFICES ASSUME Inv, [Next]_vars PROVE [Recent!RNext]_(Recent!rvars)
    OBVIOUS
  <2>1. CASE Next
    BY <2>1, SetRefines DEF Next, Recent!RNext
  <2>2. CASE UNCHANGED vars
    BY <2>2 DEF vars, Recent!rvars, SlotOf, Get
  <2> QED BY <2>1, <2>2
<1> QED BY InvHolds, <1>1, <1>2, PTL DEF Spec, ImplementsRecentAddrs, Recent!RSpec

(* A Set makes at most the mapping in the overwritten slot disappear.      *)
THEOREM ForgetsOldest == Spec => ForgetsOnlyTheOldest
<1>1. ASSUME Inv, Next
      PROVE  ForgetStep
  <2> SUFFICES ASSUME NEW d \in ClientIDs, entries'[oldest].clientID # d, Get(d) # NoAddr, Get(d)' # Get(d)
               PROVE  Get(d)' = NoAddr /\ current[d] = oldest
    BY DEF ForgetStep
  <2>1. PICK c \in ClientIDs, a \in Addrs : Set(c, a)
    BY <1>1 DEF Next
  <2>2. oldest \in Slots /\ TypeOK
    BY <1>1, <2>1, CapacityNat DEF Inv, TypeOK, Set, Slots
  <2>3. d # c
    BY <2>1, <2>2 DEF Set, TypeOK
  <2>4. Get(d)' = NoAddr
    BY <1>1, <2>1, <2>3, SetAnswers
  <2>5. ASSUME current[d] # oldest PROVE FALSE
    <3>1. current'[d] = current[d]
      BY <2>1, <2>2, <2>3, <2>5 DEF TypeOK, Set, Forget
    <3> QED BY <2>1, <2>2, <2>5, <3>1 DEF TypeOK, Set, Get
  <2> QED BY <2>4, <2>5
<1>2. Inv /\ [Next]_vars => [ForgetStep]_vars
  BY <1>1
<1> QED BY InvHolds, <1>2, PTL DEF Spec, ForgetsOnlyTheOldest

-----------------------------------------------------------------------------
(* What clientAddr makes of the query parameter is an address.             *)
LEMMA ClientAddrType == \A p \in Params : clientAddr(p) \in Addrs
BY ServerConstants DEF clientAddr

\* ServeHTTP is the one action of the server that touches the memory.
OtherNext ==
    \/ MainNext \/ BindNext \/ Signal \/ HTTP01Fatal \/ SessionNext
    \/ \E l \in Ls : Accept(l) \/ AcceptSessionsEnds(l)
    \/ \E k \in Streams : HandleNext(k) \/ \E who \in {"client", "or"} : PeerEnds(k, who)

(* Every other step of the server leaves the memory alone.                 *)
LEMMA OthersLeaveMemory == OtherNext => UNCHANGED mapState
<1>1. MainNext => UNCHANGED mapState
  BY Zenon DEF MainNext, ListenGetsError, ListenReturns, ListenFails, MainCloses, MainClosesHTTP01, MainReturns
<1>2. BindNext => UNCHANGED mapState
  BY DEF BindNext, BindRefused, BindMisconfigured, ListenStarts, ServerBinds, ServerFails
<1>3. Signal \/ HTTP01Fatal => UNCHANGED mapState
  BY DEF Signal, HTTP01Fatal
<1>4. SessionNext => UNCHANGED mapState
  BY Zenon DEF SessionNext, LookUpAddress, QueueConn, SessionEnds, AcceptStream, AcceptSession
<1>5. (\E l \in Ls : Accept(l) \/ AcceptSessionsEnds(l)) => UNCHANGED mapState
  BY DEF Accept, AcceptSessionsEnds
<1>6. ASSUME NEW k \in Streams
      PROVE  HandleNext(k) \/ (\E who \in {"client", "or"} : PeerEnds(k, who)) => UNCHANGED mapState
  BY DEF HandleNext, HandleConnPanics, DialFails, ProxyStarts, ProxyReturns, CopierEnds, PeerEnds
<1> QED BY <1>1, <1>2, <1>3, <1>4, <1>5, <1>6 DEF OtherNext

(* A step of the server is another step or a WebSocket's.                  *)
LEMMA SNextSplit ==
    ASSUME SNext
    PROVE  OtherNext \/ \E l \in Ls, c \in ClientIDs, p \in Params : ServeHTTP(l, c, p)
BY DEF SNext, OtherNext

(* Every step of the server is a Set of the memory or none of its steps.   *)
LEMMA ServerStepsMemory == [SNext]_svars => [Next]_vars
<1> SUFFICES ASSUME [SNext]_svars PROVE [Next]_vars
  OBVIOUS
<1>1. CASE SNext
  <2>1. CASE OtherNext
    BY <2>1, OthersLeaveMemory DEF mapState, vars
  <2>2. ASSUME NEW l \in Ls, NEW c \in ClientIDs, NEW p \in Params, ServeHTTP(l, c, p)
        PROVE  Next
    BY <2>2, ClientAddrType DEF ServeHTTP, Next
  <2> QED BY <1>1, <2>1, <2>2, SNextSplit
<1>2. CASE UNCHANGED svars
  BY <1>2 DEF svars, mapState, vars
<1> QED BY <1>1, <1>2

(* The server uses its memory only as clientIDMap allows, so all that is   *)
(* proved of the memory holds in the server, whichever listener's          *)
(* WebSocket handler calls it and whatever client_ip says.                 *)
THEOREM ServerRunsMemory == SSpec => Spec
<1>1. SInit => Init
  BY DEF SInit, Init
<1> QED BY <1>1, ServerStepsMemory, PTL DEF SSpec, Spec

(* The server's address memory is the window of the last Sets.             *)
THEOREM ServerRemembersWindow == SSpec => ImplementsRecentAddrs
BY ServerRunsMemory, Refinement, PTL

(* In the server, the lookup map holds every remembered ClientID at its    *)
(* newest entry.                                                           *)
THEOREM ServerFindsNewest == SSpec => []CurrentIsNewest
BY ServerRunsMemory, LookupMapCorrect, PTL

-----------------------------------------------------------------------------
\* The types of the server's records, with the values IdleSess and IdleConn have.
SessRec == [pc : {"none", "accepted", "streams", "queueing", "ended"}, client : ClientIDs,
            ln : Ls \cup {Bindaddrs[1]}, addr : Addrs \cup {NoAddr}, k : Streams \cup {NoStream}]
ConnRec == [pc : {"none", "offered", "queued", "refused", "accepted", "panicked", "proxy", "done"},
            sess : Sessions \cup {CHOOSE s \in Sessions : TRUE}, ln : Ls \cup {Bindaddrs[1]},
            addr : Addrs \cup {NoAddr}, ends : SUBSET {"client", "or"}, copiers : SUBSET {"down", "up"}]

(* Sessions and streams are well typed, and a session that queues a stream *)
(* has one in hand.                                                        *)
SessionsOK ==
    /\ sess \in [Sessions -> SessRec] /\ conn \in [Streams -> ConnRec]
    /\ \A s \in Sessions : sess[s].pc = "queueing" => sess[s].k \in Streams

(* The accept queues hold streams and stay within their capacity.          *)
QueuesOK ==
    /\ lns = [l \in Ls |-> lns[l]]
    /\ \A l \in Ls : /\ DOMAIN lns[l] = {"closed", "queue", "accept", "kcp"}
                     /\ lns[l].queue \in Seq(Streams) /\ Len(lns[l].queue) <= QueueCap

MainRec == [pc : {"binding", "listening", "closing", "deferred", "exited"}, next : Int]
SrvStates == {"none", "starting", "open", "failed", "closed"}

\* What a bindaddr's server is once tor was told that it failed.
NotServing == {"none", "failed", "closed"}

(* While main binds, the bindaddrs it has not reached have neither a       *)
(* server nor a report, and the one it is at has no report: so a server    *)
(* starts only for a bindaddr that was not reported.                       *)
BindingOK ==
    /\ main \in MainRec /\ srv \in [Ls -> SrvStates]
    /\ reported \in [Ls -> {"", "ok", "error"}]
    /\ \A l \in Ls : reported[l] = "error" => srv[l] \in NotServing
    /\ main.pc \in {"binding", "listening"} =>
        /\ main.next > 0
        /\ \A i \in DOMAIN Bindaddrs : i >= main.next =>
            /\ reported[Bindaddrs[i]] = ""
            /\ (main.pc = "binding" \/ i > main.next) => srv[Bindaddrs[i]] = "none"

(* The answer of the memory for a client is its newest address or none.    *)
AnswersNewest ==
    /\ last \in [ClientIDs -> Addrs \cup {NoAddr}]
    /\ \A c \in ClientIDs : Get(c) \in {last[c], NoAddr}

SInv == Inv /\ SessionsOK /\ QueuesOK /\ BindingOK /\ AnswersNewest

(* The indices of Bindaddrs.                                               *)
LEMMA Indices ==
    /\ Len(Bindaddrs) \in Nat /\ DOMAIN Bindaddrs = 1..Len(Bindaddrs)
    /\ \A i \in DOMAIN Bindaddrs : Bindaddrs[i] \in Ls
    /\ \A i, j \in DOMAIN Bindaddrs : Bindaddrs[i] = Bindaddrs[j] => i = j
<1>1. Bindaddrs \in Seq(Ls) /\ IsInjective(Bindaddrs)
  BY ServerConstants DEF Ls
<1>2. \A i, j \in DOMAIN Bindaddrs : Bindaddrs[i] = Bindaddrs[j] => i = j
  BY <1>1 DEF IsInjective
<1> QED BY <1>1, <1>2

(* The first state satisfies the invariant.                                *)
LEMMA SInitInv == SInit => SInv
<1> SUFFICES ASSUME SInit PROVE SInv
  OBVIOUS
<1>1. Inv
  BY InitInv DEF SInit, Init
<1>2. IdleSess \in SessRec /\ IdleSess.pc = "none"
  BY ZeroIsID DEF IdleSess, SessRec
<1>3. IdleConn \in ConnRec
  BY DEF IdleConn, ConnRec
<1>4. SessionsOK
  BY <1>2, <1>3 DEF SInit, SessionsOK
<1>5. QueuesOK
  <2>1. <<>> \in Seq(Streams) /\ Len(<<>>) <= QueueCap
    BY ServerConstants
  <2> QED BY <2>1 DEF SInit, QueuesOK
<1>6. BindingOK
  <2>0. main = [pc |-> "binding", next |-> 1]
    BY DEF SInit
  <2>1. main \in MainRec
    BY <2>0 DEF MainRec
  <2>2. \A l \in Ls : srv[l] = "none" /\ reported[l] = ""
    BY DEF SInit
  <2>3. srv \in [Ls -> SrvStates] /\ reported \in [Ls -> {"", "ok", "error"}]
    BY DEF SInit, SrvStates
  <2>4. main.pc = "binding" /\ main.next > 0
    BY <2>0
  <2>5. \A i \in DOMAIN Bindaddrs : Bindaddrs[i] \in Ls
    BY Indices
  <2> QED BY <2>1, <2>2, <2>3, <2>4, <2>5 DEF BindingOK
<1>7. AnswersNewest
  BY DEF SInit, newClientIDMap, AnswersNewest, Get, NoIndex
<1> QED BY <1>1, <1>4, <1>5, <1>6, <1>7 DEF SInv


(* A report moves main to the next bindaddr; what it says of a server that *)
(* does not serve keeps the order of binding.                              *)
LEMMA ReportKeepsOrder ==
    ASSUME BindingOK, NEW l \in Ls, NEW r \in {"ok", "error"}, Report(l, r), At(l),
           main.pc \in {"binding", "listening"},
           srv' \in [Ls -> SrvStates], \A x \in Ls : x # l => srv'[x] = srv[x],
           r = "error" => srv'[l] \in NotServing
    PROVE  BindingOK'
<1>1. main' \in MainRec /\ main'.pc = "binding" /\ main'.next = main.next + 1 /\ main.next \in Int
  <2>1. main \in MainRec /\ main.next \in Int
    BY DEF BindingOK, MainRec
  <2>2. main.next + 1 \in Int /\ main' = [main EXCEPT !.pc = "binding", !.next = main.next + 1]
    BY <2>1 DEF Report
  <2> QED BY <2>1, <2>2 DEF MainRec
<1>2. reported' \in [Ls -> {"", "ok", "error"}] /\ reported'[l] = r
      /\ \A x \in Ls : x # l => reported'[x] = reported[x]
  BY DEF BindingOK, Report
<1>3. \A x \in Ls : reported'[x] = "error" => srv'[x] \in NotServing
  BY <1>2 DEF BindingOK
<1>4. ASSUME NEW i \in DOMAIN Bindaddrs, i >= main'.next
      PROVE  reported'[Bindaddrs[i]] = "" /\ srv'[Bindaddrs[i]] = "none"
  <2>0. main.next > 0 /\ main.next <= Len(Bindaddrs)
    BY DEF At, BindingOK
  <2>1. i > main.next /\ main.next \in DOMAIN Bindaddrs
    BY <1>1, <1>4, <2>0, Indices
  <2>2. Bindaddrs[i] # l /\ Bindaddrs[i] \in Ls
    BY <2>1, <1>1, Indices DEF At
  <2>3. i >= main.next
    BY <2>1, <1>1, Indices
  <2>4. reported[Bindaddrs[i]] = "" /\ srv[Bindaddrs[i]] = "none"
    BY <2>1, <2>3 DEF BindingOK
  <2> QED BY <1>2, <2>2, <2>4
<1>5. main'.next > 0
  <2>1. main.next > 0
    BY DEF BindingOK
  <2> QED BY <1>1, <2>1
<1> QED BY <1>1, <1>2, <1>3, <1>4, <1>5 DEF BindingOK

(* main's steps from bindaddr to bindaddr, and the servers'.               *)
LEMMA BindSteps ==
    ASSUME SInv, NEW l \in Ls,
           \/ BindRefused(l) \/ BindMisconfigured(l) \/ ListenStarts(l)
           \/ ServerBinds(l) \/ ServerFails(l)
    PROVE  BindingOK' /\ UNCHANGED <<lns, sess, conn>>
<1> USE DEF SInv
<1>1. srv \in [Ls -> SrvStates] /\ main \in MainRec /\ main.next \in Int
  BY DEF BindingOK, MainRec
<1>2. ASSUME At(l), main.pc \in {"binding", "listening"}
      PROVE  /\ reported[l] = "" /\ (main.pc = "binding" => srv[l] = "none")
             /\ \A i \in DOMAIN Bindaddrs : i > main.next => Bindaddrs[i] # l
  <2>1. main.next > 0 /\ main.next <= Len(Bindaddrs) /\ l = Bindaddrs[main.next]
    BY <1>2 DEF At, BindingOK
  <2>2. main.next \in DOMAIN Bindaddrs /\ main.next >= main.next
    BY <1>1, <2>1, Indices
  <2>3. reported[l] = "" /\ (main.pc = "binding" => srv[l] = "none")
    BY <1>2, <2>1, <2>2 DEF BindingOK
  <2>4. \A i \in DOMAIN Bindaddrs : Bindaddrs[i] = l => i = main.next
    BY <2>1, <2>2, Indices
  <2>5. \A i \in DOMAIN Bindaddrs : i > main.next => i # main.next
    BY <1>1, Indices
  <2> QED BY <2>3, <2>4, <2>5
<1>3. CASE BindRefused(l)
  BY <1>1, <1>2, <1>3, ReportKeepsOrder DEF BindRefused, NotServing
<1>4. CASE BindMisconfigured(l)
  BY <1>1, <1>2, <1>4, ReportKeepsOrder DEF BindMisconfigured, NotServing
<1>5. CASE ListenStarts(l)
  <2>1. main' \in MainRec /\ main'.pc = "listening" /\ main'.next = main.next
    BY <1>1, <1>5 DEF ListenStarts, MainRec
  <2>2. srv' \in [Ls -> SrvStates] /\ \A x \in Ls : x # l => srv'[x] = srv[x]
    BY <1>1, <1>5 DEF ListenStarts, SrvStates
  <2> QED BY <1>2, <1>5, <2>1, <2>2, Indices DEF ListenStarts, BindingOK
<1>6. CASE ServerBinds(l) \/ ServerFails(l)
  <2>1. srv' \in [Ls -> SrvStates] /\ \A x \in Ls : x # l => srv'[x] = srv[x]
    BY <1>1, <1>6 DEF ServerBinds, ServerFails, SrvStates
  <2>2. srv[l] = "starting" /\ UNCHANGED <<main, reported, lns, sess, conn>>
    BY <1>6 DEF ServerBinds, ServerFails
  <2> QED BY <2>1, <2>2, Indices DEF BindingOK, NotServing
<1> QED BY <1>3, <1>4, <1>5, <1>6

(* Listen returns: what it answers is what main reports.                   *)
LEMMA ListenSteps ==
    ASSUME SInv, NEW l \in Ls, ListenGetsError(l) \/ ListenReturns(l) \/ ListenFails(l)
    PROVE  BindingOK' /\ QueuesOK' /\ UNCHANGED <<sess, conn>>
<1> USE DEF SInv
<1>0. srv \in [Ls -> SrvStates]
  BY DEF BindingOK
<1>1. CASE ListenGetsError(l)
  BY <1>0, <1>1, ReportKeepsOrder DEF ListenGetsError, QueuesOK, NotServing
<1>2. CASE ListenReturns(l)
  <2>1. QueuesOK'
    BY <1>2 DEF ListenReturns, QueuesOK
  <2> QED BY <1>0, <1>2, <2>1, ReportKeepsOrder DEF ListenReturns
<1>3. CASE ListenFails(l)
  <2>1. srv' \in [Ls -> SrvStates] /\ srv'[l] \in NotServing /\ \A x \in Ls : x # l => srv'[x] = srv[x]
    BY <1>0, <1>3 DEF ListenFails, Closed, SrvStates, NotServing
  <2> QED BY <1>3, <2>1, ReportKeepsOrder DEF ListenFails, QueuesOK
<1> QED BY <1>1, <1>2, <1>3

(* From the signal to the exit: a Close never lets a server serve.         *)
LEMMA EndSteps ==
    ASSUME SInv, Signal \/ HTTP01Fatal \/ MainCloses \/ MainClosesHTTP01 \/ MainReturns
    PROVE  BindingOK' /\ QueuesOK' /\ UNCHANGED <<sess, conn>>
<1> USE DEF SInv
<1>1. CASE Signal \/ HTTP01Fatal \/ MainClosesHTTP01 \/ MainReturns
  <2>1. UNCHANGED <<srv, reported, lns, sess, conn>>
    BY <1>1 DEF Signal, HTTP01Fatal, MainClosesHTTP01, MainReturns
  <2>2. \/ main' = main \/ main' = [main EXCEPT !.pc = "exited"]
        \/ \E n \in Int : main' = [main EXCEPT !.pc = "closing", !.next = n]
    <3>1. CASE Signal
      <4>1. main' = [main EXCEPT !.pc = "closing", !.next = 1] /\ 1 \in Int
        BY <3>1 DEF Signal
      <4> QED BY <4>1, Zenon
    <3>2. CASE HTTP01Fatal \/ MainClosesHTTP01 \/ MainReturns
      BY <3>2 DEF HTTP01Fatal, MainClosesHTTP01, MainReturns
    <3> QED BY <1>1, <3>1, <3>2
  <2>3. main \in MainRec
    BY DEF BindingOK
  <2>4. main' = main \/ (main' \in MainRec /\ main'.pc \in {"closing", "exited"})
    <3>1. ASSUME main' = [main EXCEPT !.pc = "exited"]
          PROVE  main' \in MainRec /\ main'.pc = "exited"
      BY <2>3, <3>1 DEF MainRec
    <3>2. ASSUME NEW n \in Int, main' = [main EXCEPT !.pc = "closing", !.next = n]
          PROVE  main' \in MainRec /\ main'.pc = "closing"
      BY <2>3, <3>2 DEF MainRec
    <3> QED BY <2>2, <3>1, <3>2
  <2> QED BY <2>1, <2>4 DEF BindingOK, QueuesOK
<1>2. CASE MainCloses
  <2> DEFINE l == Bindaddrs[main.next]
  <2>1. main.pc \in {"closing", "deferred"} /\ l \in Ls /\ UNCHANGED <<reported, sess, conn>>
    BY <1>2, Indices DEF MainCloses
  <2>2. main' \in MainRec /\ main'.pc \in {"closing", "deferred"}
    <3>1. main \in MainRec /\ main.next \in Int
      BY DEF BindingOK, MainRec
    <3> DEFINE last1 == main.pc = "closing" /\ main.next = Len(Bindaddrs)
               p == IF last1 THEN "deferred" ELSE main.pc
               n == CASE last1 -> main.next [] main.pc = "closing" -> main.next + 1 [] OTHER -> main.next - 1
    <3>2. main' = [main EXCEPT !.pc = p, !.next = n]
      BY <1>2 DEF MainCloses
    <3>3. n \in Int
      BY <3>1
    <3>4. p \in {"closing", "deferred"}
      BY <2>1
    <3> HIDE DEF p, n
    <3> QED BY <3>1, <3>2, <3>3, <3>4 DEF MainRec
  <2>3. \/ UNCHANGED <<lns, srv>>
        \/ lns' = [lns EXCEPT ![l].closed = TRUE] /\ srv' = Closed(l)
    BY <1>2 DEF MainCloses, CloseListener
  <2> HIDE DEF l
  <2>4. QueuesOK'
    BY <2>1, <2>3 DEF QueuesOK
  <2>5. srv' \in [Ls -> SrvStates] /\ \A x \in Ls : srv[x] \in NotServing => srv'[x] \in NotServing
    BY <2>1, <2>3, ZenonT(40) DEF BindingOK, Closed, NotServing, SrvStates
  <2> QED BY <2>1, <2>2, <2>4, <2>5 DEF BindingOK
<1> QED BY <1>1, <1>2

(* One session changes to a record of its type.                            *)
LEMMA SessStep ==
    ASSUME SessionsOK, NEW s \in Sessions, NEW r \in SessRec, sess' = [sess EXCEPT ![s] = r],
           r.pc = "queueing" => r.k \in Streams
    PROVE  /\ sess' \in [Sessions -> SessRec]
           /\ \A t \in Sessions : sess'[t].pc = "queueing" => sess'[t].k \in Streams
BY DEF SessionsOK

(* Sessions and their streams.                                             *)
LEMMA SessionSteps ==
    ASSUME SInv, SessionNext
    PROVE  SessionsOK' /\ QueuesOK' /\ UNCHANGED <<main, srv, reported>>
<1> USE DEF SInv, SessionsOK
<1>1. ASSUME NEW s \in Sessions, LookUpAddress(s)
      PROVE  SessionsOK' /\ QueuesOK' /\ UNCHANGED <<main, srv, reported>>
  <2>1. sess[s].client \in ClientIDs
    BY DEF SessRec
  <2>2. Get(sess[s].client) \in Addrs \cup {NoAddr}
    BY <2>1 DEF AnswersNewest
  <2>3. SessionsOK'
    <3> DEFINE u == [sess[s] EXCEPT !.pc = "streams", !.addr = Get(sess[s].client)]
    <3>1. sess' = [sess EXCEPT ![s] = u] /\ conn' = conn
      BY <1>1 DEF LookUpAddress
    <3>2. sess[s] \in SessRec
      OBVIOUS
    <3>3. u \in SessRec /\ u.pc = "streams"
      BY <2>2, <3>2 DEF SessRec
    <3> HIDE DEF u
    <3>4. /\ sess' \in [Sessions -> SessRec]
          /\ \A t \in Sessions : sess'[t].pc = "queueing" => sess'[t].k \in Streams
      BY <3>1, <3>3, SessStep
    <3> QED BY <3>1, <3>4
  <2> QED BY <1>1, <2>3 DEF LookUpAddress, procVars, QueuesOK
<1>2. ASSUME NEW s \in Sessions, NEW k \in Streams, AcceptStream(s, k)
      PROVE  SessionsOK' /\ QueuesOK' /\ UNCHANGED <<main, srv, reported>>
  <2>1. sess' \in [Sessions -> SessRec]
        /\ \A t \in Sessions : sess'[t].pc = "queueing" => sess'[t].k \in Streams
    <3> DEFINE u == [sess[s] EXCEPT !.pc = "queueing", !.k = k]
    <3>1. sess' = [sess EXCEPT ![s] = u] /\ sess[s] \in SessRec
      BY <1>2 DEF AcceptStream
    <3>2. u \in SessRec /\ u.k = k
      BY <3>1 DEF SessRec
    <3> HIDE DEF u
    <3> QED BY <3>1, <3>2, SessStep
  <2>2. [IdleConn EXCEPT !.pc = "offered", !.sess = s, !.ln = sess[s].ln, !.addr = sess[s].addr] \in ConnRec
    BY DEF IdleConn, SessRec, ConnRec
  <2>3. conn' \in [Streams -> ConnRec]
    BY <1>2, <2>2 DEF AcceptStream
  <2> QED BY <1>2, <2>1, <2>3 DEF AcceptStream, procVars, QueuesOK
<1>3. ASSUME NEW s \in Sessions, NEW l \in Ls, NEW c \in ClientIDs, AcceptSession(l, s, c)
      PROVE  SessionsOK' /\ QueuesOK' /\ UNCHANGED <<main, srv, reported>>
  <2>1. [IdleSess EXCEPT !.pc = "accepted", !.client = c, !.ln = l] \in SessRec
    BY DEF IdleSess, SessRec
  <2>2. [IdleSess EXCEPT !.pc = "accepted", !.client = c, !.ln = l].pc = "accepted"
    BY DEF IdleSess
  <2>3. SessionsOK'
    BY <1>3, <2>1, <2>2 DEF AcceptSession
  <2> QED BY <1>3, <2>3 DEF AcceptSession, procVars, QueuesOK
<1>4. ASSUME NEW s \in Sessions, QueueConn(s)
      PROVE  SessionsOK' /\ QueuesOK' /\ UNCHANGED <<main, srv, reported>>
  <2> DEFINE l == sess[s].ln
             k == sess[s].k
  <2>1. k \in Streams /\ UNCHANGED <<main, srv, reported>>
    BY <1>4 DEF QueueConn
  <2>2. sess' \in [Sessions -> SessRec]
        /\ \A t \in Sessions : sess'[t].pc = "queueing" => sess'[t].k \in Streams
    <3>1. sess' = [sess EXCEPT ![s].pc = "streams", ![s].k = NoStream]
      BY <1>4 DEF QueueConn
    <3>2. sess[s] \in SessRec /\ sess \in [Sessions -> SessRec]
      OBVIOUS
    <3>3. [sess[s] EXCEPT !.pc = "streams", !.k = NoStream] \in SessRec
          /\ [sess[s] EXCEPT !.pc = "streams", !.k = NoStream].pc = "streams"
      BY <3>2 DEF SessRec
    <3>4. sess' = [sess EXCEPT ![s] = [sess[s] EXCEPT !.pc = "streams", !.k = NoStream]]
      BY <3>1, <3>2
    <3> QED BY <3>2, <3>3, <3>4
  <2>3. \/ /\ Len(lns[l].queue) < QueueCap
           /\ lns' = [lns EXCEPT ![l].queue = Append(lns[l].queue, k)]
           /\ conn' = [conn EXCEPT ![k].pc = "queued"]
        \/ conn' = [conn EXCEPT ![k].pc = "refused"] /\ UNCHANGED lns
    BY <1>4 DEF QueueConn
  <2> HIDE DEF l, k
  <2>4. conn' \in [Streams -> ConnRec]
    BY <2>1, <2>3 DEF ConnRec
  <2>5. QueuesOK'
    <3>1. CASE UNCHANGED lns
      BY <3>1 DEF QueuesOK
    <3>2. CASE l \notin Ls /\ lns' = [lns EXCEPT ![l].queue = Append(lns[l].queue, k)]
      <4>1. lns' = lns
        BY <3>2 DEF QueuesOK
      <4> QED BY <4>1 DEF QueuesOK
    <3>3. CASE /\ l \in Ls /\ Len(lns[l].queue) < QueueCap
               /\ lns' = [lns EXCEPT ![l].queue = Append(lns[l].queue, k)]
      <4> DEFINE q == Append(lns[l].queue, k)
      <4>1. lns[l].queue \in Seq(Streams)
        BY <3>3 DEF QueuesOK
      <4>2. q \in Seq(Streams) /\ Len(q) <= QueueCap
        BY <2>1, <3>3, <4>1, ServerConstants
      <4> HIDE DEF q
      <4>3. lns' = [lns EXCEPT ![l].queue = q]
        BY <3>3 DEF q
      <4> HIDE <3>3
      <4> QED BY <4>2, <4>3 DEF QueuesOK
    <3> QED BY <2>3, <3>1, <3>2, <3>3
  <2> QED BY <2>1, <2>2, <2>4, <2>5
<1>5. ASSUME NEW s \in Sessions, SessionEnds(s)
      PROVE  SessionsOK' /\ QueuesOK' /\ UNCHANGED <<main, srv, reported>>
  <2>1. sess' \in [Sessions -> SessRec]
        /\ \A t \in Sessions : sess'[t].pc = "queueing" => sess'[t].k \in Streams
    <3> DEFINE u == [sess[s] EXCEPT !.pc = "ended", !.addr = NoAddr]
    <3>1. sess' = [sess EXCEPT ![s] = u] /\ sess[s] \in SessRec
      BY <1>5 DEF SessionEnds
    <3>2. u \in SessRec /\ u.pc = "ended"
      BY <3>1 DEF SessRec
    <3> HIDE DEF u
    <3> QED BY <3>1, <3>2, SessStep
  <2>2. \A k \in Streams : [conn[k] EXCEPT !.ends = @ \cup {"client"}] \in ConnRec
    BY DEF ConnRec
  <2>3. conn' \in [Streams -> ConnRec]
    BY <1>5, <2>2 DEF SessionEnds
  <2> QED BY <1>5, <2>1, <2>3 DEF SessionEnds, procVars, QueuesOK
<1> QED BY <1>1, <1>2, <1>3, <1>4, <1>5 DEF SessionNext

(* acceptLoop and acceptSessions of a listener.                            *)
LEMMA AcceptSteps ==
    ASSUME SInv, NEW l \in Ls, Accept(l) \/ AcceptSessionsEnds(l)
    PROVE  SessionsOK' /\ QueuesOK' /\ UNCHANGED <<main, srv, reported>>
<1> USE DEF SInv
<1>1. CASE Accept(l) /\ lns[l].queue # <<>> /\ lns' = [lns EXCEPT ![l].queue = Tail(@)]
            /\ conn' = [conn EXCEPT ![Head(lns[l].queue)].pc = "accepted"]
  <2> DEFINE q == Tail(lns[l].queue)
             k == Head(lns[l].queue)
  <2>1. lns[l].queue \in Seq(Streams) /\ Len(lns[l].queue) <= QueueCap
    BY DEF QueuesOK
  <2>2. q \in Seq(Streams) /\ Len(q) <= QueueCap /\ k \in Streams
    BY <1>1, <2>1, ServerConstants
  <2>3. lns' = [lns EXCEPT ![l].queue = q] /\ conn' = [conn EXCEPT ![k].pc = "accepted"]
    BY <1>1
  <2> HIDE DEF q, k
  <2>4. conn' \in [Streams -> ConnRec]
    BY <2>2, <2>3, SMTT(20) DEF SessionsOK, ConnRec
  <2>5. QueuesOK'
    BY <2>2, <2>3 DEF QueuesOK
  <2> QED BY <1>1, <2>4, <2>5 DEF Accept, SessionsOK
<1>2. CASE /\ UNCHANGED <<main, srv, reported, sess, conn>>
           /\ \/ lns' = [lns EXCEPT ![l].accept = "ended"]
              \/ lns' = [lns EXCEPT ![l].kcp = "ended"]
  <2>1. QueuesOK'
    BY <1>2 DEF QueuesOK
  <2> QED BY <1>2, <2>1 DEF SessionsOK
<1> QED BY <1>1, <1>2 DEF Accept, AcceptSessionsEnds

(* handleConn and proxy.                                                   *)
LEMMA HandleSteps ==
    ASSUME SInv, NEW k \in Streams, HandleNext(k) \/ \E who \in {"client", "or"} : PeerEnds(k, who)
    PROVE  SessionsOK' /\ UNCHANGED <<main, srv, reported, lns>>
<1> USE DEF SInv
<1>1. PICK r \in ConnRec : conn' = [conn EXCEPT ![k] = r]
  <2>1. conn[k] \in ConnRec /\ conn \in [Streams -> ConnRec]
    BY DEF SessionsOK
  <2>2. CASE HandleConnPanics(k)
    BY <2>1, <2>2 DEF HandleConnPanics, ConnRec
  <2>3. CASE DialFails(k) \/ ProxyReturns(k)
    BY <2>1, <2>3 DEF DialFails, ProxyReturns, Done, ConnRec
  <2>4. CASE ProxyStarts(k)
    BY <2>1, <2>4 DEF ProxyStarts, ConnRec
  <2>5. ASSUME NEW d \in {"down", "up"}, CopierEnds(k, d)
        PROVE  \E r \in ConnRec : conn' = [conn EXCEPT ![k] = r]
    BY <2>1, <2>5 DEF CopierEnds, ConnRec
  <2>6. ASSUME NEW who \in {"client", "or"}, PeerEnds(k, who)
        PROVE  \E r \in ConnRec : conn' = [conn EXCEPT ![k] = r]
    BY <2>1, <2>6 DEF PeerEnds, ConnRec
  <2> QED BY <2>2, <2>3, <2>4, <2>5, <2>6 DEF HandleNext
<1>2. UNCHANGED <<main, srv, reported, lns, sess>>
  BY DEF HandleNext, HandleConnPanics, DialFails, ProxyStarts, ProxyReturns, CopierEnds, PeerEnds, procVars
<1> QED BY <1>1, <1>2 DEF SessionsOK

(* A WebSocket's Set is answered by its own address, and makes no other    *)
(* client's answer anything but what it was or none.                       *)
LEMMA ServeHTTPAnswers ==
    ASSUME SInv, NEW l \in Ls, NEW c \in ClientIDs, NEW p \in Params, ServeHTTP(l, c, p)
    PROVE  AnswersNewest' /\ UNCHANGED <<main, srv, reported, lns, sess, conn>>
<1> DEFINE a == clientAddr(p)
<1>1. a \in Addrs /\ Set(c, a) /\ last' = [last EXCEPT ![c] = a]
  BY ClientAddrType DEF ServeHTTP
<1> HIDE DEF a
<1>2. ASSUME NEW d \in ClientIDs
      PROVE  Get(d)' = (IF d = c THEN a ELSE Get(d)) \/ (d # c /\ Get(d)' = NoAddr)
  BY <1>1, <1>2, SetAnswers DEF SInv
<1>3. last' \in [ClientIDs -> Addrs \cup {NoAddr}]
      /\ \A d \in ClientIDs : last'[d] = IF d = c THEN a ELSE last[d]
  BY <1>1 DEF SInv, AnswersNewest
<1>4. \A d \in ClientIDs : Get(d)' \in {last'[d], NoAddr}
  BY <1>2, <1>3 DEF SInv, AnswersNewest
<1> QED BY <1>3, <1>4 DEF AnswersNewest, ServeHTTP, procVars

(* The parts of the invariant depend on these variables only.              *)
LEMMA PartsUnchanged ==
    /\ SInv /\ UNCHANGED mapState => AnswersNewest'
    /\ SInv /\ UNCHANGED <<sess, conn>> => SessionsOK'
    /\ SInv /\ UNCHANGED lns => QueuesOK'
    /\ SInv /\ UNCHANGED <<main, srv, reported>> => BindingOK'
BY DEF SInv, mapState, AnswersNewest, Get, SessionsOK, QueuesOK, BindingOK

(* Every step of the server keeps the invariant.                           *)
LEMMA SNextInv == SInv /\ [SNext]_svars => SInv'
<1> SUFFICES ASSUME SInv, [SNext]_svars PROVE SInv'
  OBVIOUS
<1>1. Inv'
  BY ServerStepsMemory, NextInv DEF SInv
<1>2. ASSUME OtherNext
      PROVE  SessionsOK' /\ QueuesOK' /\ BindingOK' /\ AnswersNewest'
  <2>1. AnswersNewest'
    BY <1>2, OthersLeaveMemory, PartsUnchanged
  <2>2. ASSUME NEW l \in Ls, ListenGetsError(l) \/ ListenReturns(l) \/ ListenFails(l)
        PROVE  SessionsOK' /\ QueuesOK' /\ BindingOK'
    BY <2>2, ListenSteps, PartsUnchanged
  <2>3. CASE Signal \/ HTTP01Fatal \/ MainCloses \/ MainClosesHTTP01 \/ MainReturns
    BY <2>1, <2>3, EndSteps, PartsUnchanged
  <2>4. CASE BindNext
    BY <2>1, <2>4, BindSteps, PartsUnchanged DEF BindNext
  <2>5. CASE SessionNext
    BY <2>1, <2>5, SessionSteps, PartsUnchanged
  <2>6. ASSUME NEW l \in Ls, Accept(l) \/ AcceptSessionsEnds(l)
        PROVE  SessionsOK' /\ QueuesOK' /\ BindingOK'
    BY <2>6, AcceptSteps, PartsUnchanged
  <2>7. ASSUME NEW k \in Streams, HandleNext(k) \/ \E who \in {"client", "or"} : PeerEnds(k, who)
        PROVE  SessionsOK' /\ QueuesOK' /\ BindingOK'
    BY <2>7, HandleSteps, PartsUnchanged
  <2> QED BY <1>2, <2>1, <2>2, <2>3, <2>4, <2>5, <2>6, <2>7 DEF OtherNext, MainNext
<1>3. ASSUME NEW l \in Ls, NEW c \in ClientIDs, NEW p \in Params, ServeHTTP(l, c, p)
      PROVE  SessionsOK' /\ QueuesOK' /\ BindingOK' /\ AnswersNewest'
  BY <1>3, ServeHTTPAnswers, PartsUnchanged
<1>4. ASSUME UNCHANGED svars
      PROVE  SessionsOK' /\ QueuesOK' /\ BindingOK' /\ AnswersNewest'
  BY <1>4, PartsUnchanged DEF svars, procVars
<1>5. SessionsOK' /\ QueuesOK' /\ BindingOK' /\ AnswersNewest'
  BY <1>2, <1>3, <1>4, SNextSplit
<1> QED BY <1>1, <1>5 DEF SInv

(* The inductive invariant of the server.                                  *)
THEOREM SInvHolds == SSpec => []SInv
BY SInitInv, SNextInv, PTL DEF SSpec

(* Whatever the servers, the clients and the network do: no bindaddr that  *)
(* tor was told has failed is served, no accept queue exceeds its          *)
(* capacity, and the lookup map points into the buffer at its own client.  *)
THEOREM ServerListenersSound == SSpec => []ListenersSound
<1>1. SInv => ListenersSound
  <2> SUFFICES ASSUME SInv PROVE ListenersSound
    OBVIOUS
  <2>1. \A l \in Ls : Len(lns[l].queue) <= QueueCap /\ reported[l] \in {"", "ok", "error"}
    BY DEF SInv, QueuesOK, BindingOK
  <2>2. \A k \in Streams : conn[k].addr \in Addrs \cup {NoAddr}
    BY DEF SInv, SessionsOK, ConnRec
  <2>3. ServerTypeOK /\ CurrentPointsHome
    BY <2>1, <2>2 DEF SInv, Inv, AnswersNewest, ServerTypeOK
  <2>4. RefusedIsNotServed
    BY DEF SInv, BindingOK, NotServing, RefusedIsNotServed
  <2> QED BY <2>3, <2>4 DEF ListenersSound
<1> QED BY SInvHolds, <1>1, PTL

(* A session is credited with the address of its client's most recent      *)
(* WebSocket or with none, never with an older one or another client's.    *)
THEOREM ServerCreditsMostRecent == SSpec => CreditsMostRecent
<1>1. ASSUME SInv, SNext
      PROVE  LookUpStep
  <2> SUFFICES ASSUME NEW s \in Sessions, sess[s].pc = "accepted", sess'[s].pc = "streams"
               PROVE  sess'[s].addr \in {last[sess[s].client], NoAddr}
    BY DEF LookUpStep
  <2>1. sess[s] \in SessRec /\ sess \in [Sessions -> SessRec] /\ sess' # sess
    BY Zenon, <1>1 DEF SInv, SessionsOK
  <2>2. LookUpAddress(s)
    <3>1. PICK t \in Sessions :
              \/ LookUpAddress(t) \/ QueueConn(t) \/ SessionEnds(t)
              \/ \E k \in Streams : AcceptStream(t, k)
              \/ \E l \in Ls, c \in ClientIDs : AcceptSession(l, t, c)
      <4>1. SessionNext
        BY Zenon, <1>1, <2>1, SNextSplit, BindSteps, ListenSteps, EndSteps, HandleSteps, ServeHTTPAnswers
        DEF OtherNext, BindNext, MainNext, Accept, AcceptSessionsEnds,
            HandleNext, HandleConnPanics, DialFails, ProxyStarts, ProxyReturns, CopierEnds, PeerEnds
      <4> QED BY Zenon, <4>1 DEF SessionNext
    <3>2. t = s
      BY <2>1, <3>1 DEF LookUpAddress, QueueConn, SessionEnds, AcceptStream, AcceptSession
    <3> QED BY Zenon, <3>1, <3>2 DEF QueueConn, SessionEnds, AcceptStream, AcceptSession
  <2>3. sess'[s].addr = Get(sess[s].client) /\ sess[s].client \in ClientIDs
    BY <2>1, <2>2 DEF LookUpAddress, SessRec
  <2> QED BY <1>1, <2>3 DEF SInv, AnswersNewest
<1>2. SInv /\ [SNext]_svars => [LookUpStep]_svars
  BY <1>1
<1> QED BY SInvHolds, <1>2, PTL DEF SSpec, CreditsMostRecent
-----------------------------------------------------------------------------
(***************************************************************************)
(* Encapsulation.  What ReadData finds out from a prefix is what WriteData  *)
(* and WritePadding wrote: whether another byte follows, the length, and    *)
(* whether it is data.  A stream is framed when whatever begins a chunk is  *)
(* followed by all of it, or by the end of the stream.                      *)
(***************************************************************************)
Items == [kind : {"byte", "run"}, n : Nat, id : Nat, last : BOOLEAN]

GoodPrefix(p, n) ==
    /\ p \in Seq(Nat) /\ Len(p) \in 1..3 /\ n \in Nat
    /\ p[1] % 128 >= 64 <=> Len(p) > 1
    /\ Len(p) = 2 => p[2] < 128
    /\ Len(p) = 3 => p[2] >= 128 /\ p[3] < 128
    /\ Len(p) = 1 => p[1] % 64 = n
    /\ Len(p) = 2 => (p[1] % 64) * 128 + (p[2] % 128) = n
    /\ Len(p) = 3 => (p[1] % 64) * 16384 + (p[2] % 128) * 128 + (p[3] % 128) = n

(* Prefixes of one, two and three bytes.                                    *)
LEMMA OneByte ==
    ASSUME NEW x \in Nat, NEW n \in Nat, x % 128 < 64, x % 64 = n
    PROVE  GoodPrefix(<<x>>, n) /\ Len(<<x>>) = 1 /\ <<x>>[1] = x
<1>1. <<x>> \in Seq(Nat) /\ Len(<<x>>) = 1 /\ <<x>>[1] = x /\ ~(x % 128 >= 64)
  BY SMT
<1> QED BY SMT, <1>1 DEF GoodPrefix

LEMMA TwoBytes ==
    ASSUME NEW x \in Nat, NEW y \in Nat, NEW n \in Nat, NEW e \in Nat, NEW f \in Nat,
           x % 128 >= 64, y < 128, x % 64 = e, y % 128 = f, e * 128 + f = n
    PROVE  GoodPrefix(<<x, y>>, n) /\ Len(<<x, y>>) = 2 /\ <<x, y>>[1] = x
<1>1. <<x, y>> \in Seq(Nat) /\ Len(<<x, y>>) = 2 /\ <<x, y>>[1] = x /\ <<x, y>>[2] = y
  BY SMT
<1> DEFINE p == <<x, y>>
<1> HIDE DEF p
<1>2. /\ Len(p) = 2 /\ p[1] % 128 >= 64 /\ p[2] < 128 /\ p \in Seq(Nat)
      /\ (p[1] % 64) * 128 + (p[2] % 128) = n
  <2>1. (x % 64) * 128 + (y % 128) = n
    BY SMT
  <2> QED BY SMT, <1>1, <2>1 DEF p
<1>3. GoodPrefix(p, n)
  BY SMT, <1>2 DEF GoodPrefix
<1> QED BY <1>1, <1>3 DEF p

LEMMA ThreeBytes ==
    ASSUME NEW x \in Nat, NEW y \in Nat, NEW z \in Nat, NEW n \in Nat, NEW e \in Nat, NEW f \in Nat, NEW g \in Nat,
           x % 128 >= 64, y >= 128, z < 128, x % 64 = e, y % 128 = f, z % 128 = g, e * 16384 + f * 128 + g = n
    PROVE  GoodPrefix(<<x, y, z>>, n) /\ Len(<<x, y, z>>) = 3 /\ <<x, y, z>>[1] = x
<1>1. /\ <<x, y, z>> \in Seq(Nat) /\ Len(<<x, y, z>>) = 3
      /\ <<x, y, z>>[1] = x /\ <<x, y, z>>[2] = y /\ <<x, y, z>>[3] = z
  BY SMT
<1> DEFINE p == <<x, y, z>>
<1> HIDE DEF p
<1>2. /\ Len(p) = 3 /\ p[1] % 128 >= 64 /\ p[2] >= 128 /\ p[3] < 128 /\ p \in Seq(Nat)
      /\ (p[1] % 64) * 16384 + (p[2] % 128) * 128 + (p[3] % 128) = n
  <2>1. (x % 64) * 16384 + (y % 128) * 128 + (z % 128) = n
    BY SMT
  <2> QED BY SMT, <1>1, <2>1 DEF p
<1>3. GoodPrefix(p, n)
  BY SMT, <1>2 DEF GoodPrefix
<1> QED BY <1>1, <1>3 DEF p

(* The prefix of data says how much follows, and that it is data.           *)
LEMMA DataPrefixIs ==
    ASSUME NEW n \in Nat, dataPrefixForLength(n) # <<>>
    PROVE  GoodPrefix(dataPrefixForLength(n), n) /\ dataPrefixForLength(n)[1] >= 128
<1>1. CASE n < 64
  <2>1. dataPrefixForLength(n) = <<128 + n>>
    BY SMT, <1>1 DEF dataPrefixForLength
  <2>2. (128 + n) % 128 = n /\ (128 + n) % 64 = n /\ 128 + n \in Nat /\ 128 + n >= 128
    BY SMT, <1>1
  <2> QED BY SMT, <1>1, <2>1, <2>2, OneByte
<1>2. CASE n >= 64 /\ n < 8192
  <2> DEFINE a == n \div 128
             b == n % 128
  <2>1. dataPrefixForLength(n) = <<192 + a, b>>
    BY SMT, <1>2 DEF dataPrefixForLength
  <2>2. a \in 0..63 /\ b \in 0..127 /\ a * 128 + b = n
    BY SMT, <1>2
  <2> HIDE DEF a, b
  <2>3. (192 + a) % 128 = 64 + a /\ (192 + a) % 64 = a /\ b % 128 = b
    BY SMT, <2>2
  <2>4. 192 + a \in Nat /\ 192 + a >= 128 /\ b \in Nat /\ b < 128 /\ (192 + a) % 128 >= 64
    BY SMT, <2>2, <2>3
  <2> QED BY SMT, <2>1, <2>2, <2>3, <2>4, TwoBytes
<1>3. CASE n >= 8192 /\ n < 1048576
  <2> DEFINE a == n \div 16384
             b == (n \div 128) % 128
             d == n % 128
  <2>1. dataPrefixForLength(n) = <<192 + a, 128 + b, d>>
    BY SMT, <1>3 DEF dataPrefixForLength
  <2>2. a \in 0..63 /\ b \in 0..127 /\ d \in 0..127 /\ a * 16384 + b * 128 + d = n
    BY SMT, <1>3
  <2> HIDE DEF a, b, d
  <2>3. (192 + a) % 128 = 64 + a /\ (192 + a) % 64 = a /\ (128 + b) % 128 = b /\ d % 128 = d
    BY SMT, <2>2
  <2>4. /\ 192 + a \in Nat /\ 192 + a >= 128 /\ 128 + b \in Nat /\ 128 + b >= 128 /\ d \in Nat /\ d < 128
        /\ (192 + a) % 128 >= 64
    BY SMT, <2>2, <2>3
  <2> QED BY SMT, <2>1, <2>2, <2>3, <2>4, ThreeBytes
<1>4. CASE n >= 1048576
  BY SMT, <1>4 DEF dataPrefixForLength
<1> QED BY SMT, <1>1, <1>2, <1>3, <1>4

(* The prefix of padding says how much follows, and that it is none.        *)
LEMMA PaddingPrefixIs ==
    ASSUME NEW q \in Nat, q > 0, q <= 1024
    PROVE  /\ GoodPrefix(PaddingPrefix(q), q - Len(PaddingPrefix(q)))
           /\ PaddingPrefix(q)[1] < 128 /\ Len(PaddingPrefix(q)) \in {1, 2}
<1>1. CASE q - 1 < 64
  <2>1. PaddingPrefix(q) = <<q - 1>>
    BY SMT, <1>1 DEF PaddingPrefix
  <2>2. (q - 1) % 128 < 64 /\ (q - 1) % 64 = q - 1 /\ q - 1 \in Nat /\ q - 1 < 128
    BY SMT, <1>1
  <2> QED BY SMT, <2>1, <2>2, OneByte
<1>2. CASE ~(q - 1 < 64)
  <2> DEFINE k == q - 2
             a == k \div 128
             b == k % 128
  <2>1. PaddingPrefix(q) = <<64 + a, b>>
    BY SMT, <1>2 DEF PaddingPrefix
  <2>2. k \in Nat /\ k >= 63 /\ k <= 1022
    BY SMT, <1>2
  <2> HIDE DEF k
  <2>3. a \in 0..7 /\ b \in 0..127 /\ a * 128 + b = k /\ k \in Nat
    BY SMT, <2>2
  <2> HIDE DEF a, b
  <2>4. (64 + a) % 128 = 64 + a /\ (64 + a) % 64 = a /\ b % 128 = b
    BY SMT, <2>3
  <2>5. 64 + a \in Nat /\ 64 + a < 128 /\ b \in Nat /\ b < 128 /\ (64 + a) % 128 >= 64
    BY SMT, <2>3, <2>4
  <2>6. GoodPrefix(<<64 + a, b>>, k) /\ Len(<<64 + a, b>>) = 2 /\ <<64 + a, b>>[1] = 64 + a
    BY SMT, <2>3, <2>4, <2>5, TwoBytes
  <2> QED BY SMT, <2>1, <2>5, <2>6 DEF k
<1> QED BY SMT, <1>1, <1>2

ChunkSize(p, n) == Len(p) + (IF n = 0 THEN 0 ELSE 1)

\* Item j of a chunk, and a chunk in s after the first o items, as far as s goes; its content may be cut.
IsByteOf(x, p, n, id, j) == x.kind = "byte" /\ x.n = p[j] /\ x.id = id /\ (x.last = TRUE <=> n = 0 /\ j = Len(p))
LiesAt(s, o, p, n, id) ==
    /\ \A j \in 1..Len(p) : o + j <= Len(s) => IsByteOf(s[o + j], p, n, id, j)
    /\ n > 0 /\ o + Len(p) + 1 <= Len(s) => LET x == s[o + Len(p) + 1] IN
          /\ x.kind = "run" /\ x.id = id
          /\ (x.last = TRUE <=> x.n = n) /\ (x.last # TRUE => o + Len(p) + 1 = Len(s))

(* What Chunk builds: the items of the prefix and of the content, of which  *)
(* the last is marked.                                                      *)
LEMMA IsSeq ==
    ASSUME NEW X, NEW n \in Nat, NEW f, f \in [1..n -> X]
    PROVE  f \in Seq(X) /\ Len(f) = n
  OBVIOUS

IsChunk(u, p, n, id) ==
    /\ u \in Seq(Items) /\ Len(u) = ChunkSize(p, n)
    /\ \A j \in 1..Len(p) : IsByteOf(u[j], p, n, id, j)
    /\ n > 0 => LET x == u[Len(p) + 1] IN x.kind = "run" /\ x.n = n /\ x.id = id /\ x.last = TRUE

LEMMA ChunkIs ==
    ASSUME NEW p, NEW n, GoodPrefix(p, n), NEW id \in Nat
    PROVE  IsChunk(Chunk(p, n, id), p, n, id)
<1> DEFINE byte(i) == [kind |-> "byte", n |-> p[i], id |-> id, last |-> (n = 0 /\ i = Len(p))]
           run == [kind |-> "run", n |-> n, id |-> id, last |-> TRUE]
           bytes == [i \in 1..Len(p) |-> byte(i)]
<1>1. p \in Seq(Nat) /\ Len(p) \in 1..3 /\ Len(p) \in Nat /\ n \in Nat
  BY DEF GoodPrefix
<1>2. ASSUME NEW i \in 1..Len(p)
      PROVE  byte(i) \in Items /\ IsByteOf(byte(i), p, n, id, i)
  <2>1. p[i] \in Nat /\ (n = 0 /\ i = Len(p)) \in BOOLEAN
    BY <1>1
  <2>2. byte(i).kind = "byte" /\ byte(i).n = p[i] /\ byte(i).id = id
    OBVIOUS
  <2>3. byte(i).last = TRUE <=> n = 0 /\ i = Len(p)
    OBVIOUS
  <2>4. byte(i) \in Items
    BY <2>1 DEF Items
  <2> QED BY <2>2, <2>3, <2>4 DEF IsByteOf
<1>3. run \in Items /\ run.kind = "run" /\ run.n = n /\ run.id = id /\ run.last = TRUE
  BY <1>1 DEF Items
<1>4. Chunk(p, n, id) = IF n = 0 THEN bytes ELSE Append(bytes, run)
  BY DEF Chunk
<1> HIDE DEF byte, run
<1>5. bytes \in [1..Len(p) -> Items] /\ \A i \in 1..Len(p) : bytes[i] = byte(i)
  BY <1>2
<1> HIDE DEF bytes
<1>6. bytes \in Seq(Items) /\ Len(bytes) = Len(p)
  <2>1. bytes \in [1..Len(p) -> Items] /\ Len(p) \in Nat
    BY <1>1, <1>5
  <2> QED BY <2>1, IsSeq
<1>7. CASE n = 0
  <2>1. Chunk(p, n, id) = bytes /\ ChunkSize(p, n) = Len(p) /\ ~(n > 0)
    BY <1>1, <1>4, <1>7 DEF ChunkSize
  <2> QED BY <1>1, <1>2, <1>5, <1>6, <2>1 DEF IsChunk
<1>8. CASE n # 0
  <2> DEFINE all == Append(bytes, run)
  <2>1. /\ all \in Seq(Items) /\ Len(all) = Len(p) + 1 /\ all[Len(p) + 1] = run
        /\ \A j \in 1..Len(p) : all[j] = byte(j)
    BY <1>1, <1>3, <1>5, <1>6
  <2>2. Chunk(p, n, id) = all /\ ChunkSize(p, n) = Len(p) + 1
    BY <1>4, <1>8 DEF ChunkSize
  <2> HIDE DEF all
  <2> QED BY <1>1, <1>2, <1>3, <2>1, <2>2 DEF IsChunk
<1> QED BY <1>7, <1>8

(* The greatest element, and the smaller of two.                            *)
LEMMA MaxIs ==
    ASSUME NEW S \in SUBSET Int, NEW m \in S, \A x \in S : x <= m
    PROVE  Max(S) = m
<1>1. \A y \in S : m >= y
  OBVIOUS
<1>2. Max(S) \in S /\ \A y \in S : Max(S) >= y
  BY <1>1 DEF Max
<1>3. Max(S) \in Int /\ Max(S) <= m /\ Max(S) >= m
  BY <1>2
<1> QED BY <1>3

LEMMA MinOfTwo ==
    ASSUME NEW i \in Int, NEW k \in Int
    PROVE  Min({i, k}) = IF i <= k THEN i ELSE k
<1>1. \E x \in {i, k} : \A y \in {i, k} : x =< y
  OBVIOUS
<1>2. Min({i, k}) \in {i, k} /\ \A y \in {i, k} : Min({i, k}) =< y
  BY <1>1 DEF Min
<1> QED BY <1>2

(* ReadData's loop on a stream that begins with a chunk, whole or cut.      *)
LEMMA PrefixIs ==
    ASSUME NEW s \in Seq(Items), s # <<>>, NEW p, NEW n, NEW id, GoodPrefix(p, n), LiesAt(s, 0, p, n, id)
    PROVE  PrefixLength(s) = IF Len(s) < Len(p) THEN Len(s) ELSE Len(p)
<1> DEFINE m == IF Len(s) < Len(p) THEN Len(s) ELSE Len(p)
           good(i) == \A j \in 1..i : IsByte(s, j) /\ (j > 1 => More(s, j - 1))
           S == {0} \cup {i \in 1..3 : good(i)}
<1>1. p \in Seq(Nat) /\ Len(p) \in 1..3 /\ n \in Nat /\ Len(s) \in Nat \ {0} /\ m \in 1..3
  <2>1. p \in Seq(Nat) /\ Len(p) \in 1..3 /\ n \in Nat
    BY DEF GoodPrefix
  <2>2. Len(s) \in Nat \ {0}
    OBVIOUS
  <2>3. CASE Len(s) < Len(p)
    <3> DEFINE l == Len(p)
               k == Len(s)
    <3>1. m = k
      BY <2>3
    <3>2. l \in 1..3 /\ k \in Nat \ {0} /\ k < l
      BY <2>1, <2>2, <2>3
    <3> HIDE DEF l, k, m
    <3>3. k \in 1..3
      BY ONLY <3>2
    <3> QED BY <2>1, <2>2, <3>1, <3>3
  <2>4. CASE ~(Len(s) < Len(p))
    <3>1. m = Len(p)
      BY <2>4
    <3> QED BY <2>1, <2>2, <3>1
  <2> QED BY <2>3, <2>4
<1>2. ASSUME NEW j \in 1..m PROVE s[j].kind = "byte" /\ s[j].n = p[j]
  BY <1>1 DEF LiesAt, IsByteOf
<1>3. ASSUME NEW j \in 1..m
      PROVE  IsByte(s, j) /\ (j > 1 => More(s, j - 1))
  <2>1. IsByte(s, j)
    BY <1>1, <1>2 DEF IsByte
  <2>2. CASE j > 1
    <3>1. j - 1 \in 1..m /\ s[j - 1].n = p[j - 1] /\ j <= Len(p)
      BY <1>1, <1>2, <2>2
    <3>2. Len(p) > 1 /\ (j - 1 = 1 \/ (j - 1 = 2 /\ Len(p) = 3))
      <4> DEFINE l == Len(p)
      <4>1. l \in 1..3 /\ j <= l /\ j > 1
        BY <1>1, <2>2, <3>1
      <4>2. j \in Int
        BY <1>1
      <4> HIDE DEF l, m
      <4>3. l > 1 /\ (j - 1 = 1 \/ (j - 1 = 2 /\ l = 3))
        BY ONLY <4>1, <4>2
      <4> QED BY <4>3 DEF l
    <3>3. p[1] % 128 >= 64 /\ (Len(p) = 3 => p[2] >= 128)
      BY <1>1, <3>2 DEF GoodPrefix
    <3>4. More(s, j - 1)
      BY <3>1, <3>2, <3>3 DEF More
    <3> QED BY <2>1, <3>4
  <2> QED BY <2>1, <2>2
<1>4. good(m)
  BY <1>3
<1>5. ASSUME NEW i \in 1..3, good(i), i > m PROVE FALSE
  <2>1. m + 1 \in 1..i /\ m + 1 > 1 /\ (m + 1) - 1 = m
    <3> HIDE DEF m
    <3> QED BY <1>1, <1>5
  <2> HIDE DEF m
  <2>2. IsByte(s, m + 1) /\ More(s, m)
    BY <1>5, <2>1
  <2>3. m + 1 <= Len(s)
    BY <2>2 DEF IsByte
  <2>4. m = Len(p)
    BY <1>1, <2>3 DEF m
  <2>5. s[m].n = p[m]
    BY <1>1, <1>2
  <2>6. Len(p) = 1 => ~(p[1] % 128 >= 64)
    BY SMT, <1>1 DEF GoodPrefix
  <2>7. (Len(p) = 2 => ~(p[2] >= 128)) /\ (Len(p) = 3 => ~(p[3] >= 128))
    BY SMT, <1>1 DEF GoodPrefix
  <2>8. CASE Len(p) = 1
    <3>1. m = 1 /\ s[1].n % 128 >= 64
      BY <2>2, <2>4, <2>8 DEF More
    <3> QED BY <2>5, <2>6, <2>8, <3>1
  <2>9. CASE Len(p) # 1
    <3>1. s[m].n >= 128
      BY <2>2, <2>4, <2>9 DEF More
    <3>2. Len(p) = 2 \/ Len(p) = 3
      BY <1>1, <2>9
    <3>3. p[Len(p)] >= 128
      BY <2>4, <2>5, <3>1
    <3> QED BY <2>7, <3>2, <3>3
  <2> QED BY <2>8, <2>9
<1>6. m \in S /\ S \in SUBSET Int
  <2>1. S \in SUBSET Int
    OBVIOUS
  <2>2. m \in S
    <3> HIDE DEF m, good
    <3> QED BY <1>1, <1>4
  <2> QED BY <2>1, <2>2
<1>7. \A x \in S : x <= m
  BY SMTT(30), <1>1, <1>5
<1>8. Max(S) = m
  <2> HIDE DEF S, m
  <2> QED BY <1>6, <1>7, MaxIs
<1> QED BY <1>8 DEF PrefixLength

(* A prefix that is not whole, and one that is.                             *)
LEMMA PartOfPrefix ==
    ASSUME NEW s \in Seq(Items), s # <<>>, NEW p, NEW n, NEW id, GoodPrefix(p, n), LiesAt(s, 0, p, n, id), Len(s) < Len(p)
    PROVE  ~TooLong(s) /\ ~HasPrefix(s)
<1> DEFINE l == Len(p)
           k == Len(s)
<1>1. l \in 1..3 /\ k \in Nat \ {0} /\ k < l
  <2>1. Len(p) \in 1..3
    BY DEF GoodPrefix
  <2> QED BY <2>1
<1>2. PrefixLength(s) = k
  BY PrefixIs
<1>3. s[k].n = p[k]
  <2>1. k \in 1..Len(p) /\ 0 + k <= Len(s) /\ 0 + k = k
    BY <1>1
  <2> QED BY ZenonT(30), <2>1 DEF LiesAt, IsByteOf
<1>4. p[1] % 128 >= 64 /\ (l = 3 => p[2] >= 128)
  <2>1. Len(p) > 1
    BY <1>1
  <2> QED BY <2>1 DEF GoodPrefix
<1> HIDE DEF l, k
<1>5. k = 1 \/ (k = 2 /\ l = 3)
  BY ONLY <1>1
<1>6. More(s, k)
  BY <1>3, <1>4, <1>5 DEF More
<1> QED BY <1>2, <1>5, <1>6 DEF TooLong, HasPrefix

LEMMA WholePrefix ==
    ASSUME NEW s \in Seq(Items), s # <<>>, NEW p, NEW n, NEW id, GoodPrefix(p, n), LiesAt(s, 0, p, n, id), Len(s) >= Len(p)
    PROVE  /\ PrefixLength(s) = Len(p) /\ ~TooLong(s) /\ HasPrefix(s)
           /\ s[1].n = p[1] /\ ChunkLength(s) = n
<1> DEFINE l == Len(p)
           k == Len(s)
<1>1. l \in 1..3 /\ k \in Nat /\ k >= l
  <2>1. Len(p) \in 1..3
    BY DEF GoodPrefix
  <2> QED BY <2>1
<1>2. PrefixLength(s) = l
  <2>1. ~(Len(s) < Len(p))
    BY <1>1
  <2> QED BY <2>1, PrefixIs
<1>3. \A j \in 1..l : s[j].n = p[j]
  <2>1. ASSUME NEW j \in 1..l PROVE 0 + j <= Len(s) /\ 0 + j = j
    BY <1>1
  <2> QED BY <2>1 DEF LiesAt, IsByteOf
<1>4. (l = 1 => ~(p[1] % 128 >= 64)) /\ (l = 2 => ~(p[2] >= 128)) /\ (l = 3 => ~(p[3] >= 128))
  <2>1. p[1] % 128 >= 64 <=> l > 1
    BY DEF GoodPrefix
  <2>2. CASE l = 2
    <3>1. p \in Seq(Nat) /\ Len(p) = 2 /\ p[2] < 128
      BY <2>2 DEF GoodPrefix
    <3>2. p[2] \in Nat
      <4>1. 2 \in 1..Len(p) /\ p \in Seq(Nat)
        BY ONLY <3>1
      <4> QED BY ONLY <4>1
    <3>3. ~(p[2] >= 128)
      BY ONLY <3>1, <3>2
    <3> QED BY <2>2, <3>3
  <2>3. CASE l = 3
    <3>1. p \in Seq(Nat) /\ Len(p) = 3 /\ p[3] < 128
      BY <2>3 DEF GoodPrefix
    <3>2. p[3] \in Nat
      <4>1. 3 \in 1..Len(p) /\ p \in Seq(Nat)
        BY ONLY <3>1
      <4> QED BY ONLY <4>1
    <3>3. ~(p[3] >= 128)
      BY ONLY <3>1, <3>2
    <3> QED BY <2>3, <3>3
  <2>4. CASE l = 1
    BY <2>1, <2>4
  <2> HIDE DEF l
  <2>5. l = 1 \/ l = 2 \/ l = 3
    BY <1>1
  <2> QED BY <2>2, <2>3, <2>4, <2>5
<1>5. /\ l = 1 => p[1] % 64 = n
      /\ l = 2 => (p[1] % 64) * 128 + (p[2] % 128) = n
      /\ l = 3 => (p[1] % 64) * 16384 + (p[2] % 128) * 128 + (p[3] % 128) = n
  BY SMT DEF GoodPrefix
<1> HIDE DEF l, k
<1>6. CASE l = 1
  <2>1. s[1].n = p[1]
    BY <1>3, <1>6
  <2>2. ~More(s, 1)
    BY <1>4, <1>6, <2>1 DEF More
  <2>3. ChunkLength(s) = n
    BY SMT, <1>2, <1>5, <1>6, <2>1 DEF ChunkLength
  <2> QED BY <1>2, <1>6, <2>1, <2>2, <2>3 DEF TooLong, HasPrefix, l
<1>7. CASE l = 2
  <2>1. s[1].n = p[1] /\ s[2].n = p[2]
    BY <1>3, <1>7
  <2>2. ~More(s, 2)
    BY <1>4, <1>7, <2>1 DEF More
  <2>3. ChunkLength(s) = n
    BY SMT, <1>2, <1>5, <1>7, <2>1 DEF ChunkLength
  <2> QED BY <1>2, <1>7, <2>1, <2>2, <2>3 DEF TooLong, HasPrefix, l
<1>8. CASE l = 3
  <2>1. s[1].n = p[1] /\ s[2].n = p[2] /\ s[3].n = p[3]
    BY <1>3, <1>8
  <2>2. ~More(s, 3)
    BY <1>4, <1>8, <2>1 DEF More
  <2>3. ChunkLength(s) = n
    BY SMT, <1>2, <1>5, <1>8, <2>1 DEF ChunkLength
  <2> QED BY <1>2, <1>8, <2>1, <2>2, <2>3 DEF TooLong, HasPrefix, l
<1> QED BY <1>1, <1>6, <1>7, <1>8

\* The last item of s is one that ends a chunk.
EndsChunk(s) == s # <<>> => s[Len(s)].last = TRUE

(* A stream that begins with a chunk and ends one has all of the first, and *)
(* the reader has a chunk exactly if all of the first is there.             *)
FindsChunk(s, p, n, id) ==
    LET z == ChunkSize(p, n) IN
    /\ z \in Nat \ {0} /\ ~TooLong(s)
    /\ EndsChunk(s) => HasChunk(s)
    /\ HasChunk(s) => /\ z <= Len(s) /\ s[z].last = TRUE /\ \A j \in 1..z - 1 : s[j].last # TRUE
                      /\ AfterChunk(s) = SubSeq(s, z + 1, Len(s)) /\ ChunkLength(s) = n
                      /\ (IsData(s) <=> p[1] >= 128)
                      /\ s[1].id = id /\ (n # 0 => Content(s)[1].id = id)

LEMMA WholeChunk ==
    ASSUME NEW s \in Seq(Items), s # <<>>, NEW p, NEW n, NEW id, GoodPrefix(p, n), LiesAt(s, 0, p, n, id)
    PROVE  FindsChunk(s, p, n, id)
<1> DEFINE l == Len(p)
           k == Len(s)
           z == ChunkSize(p, n)
<1>1. l \in 1..3 /\ k \in Nat \ {0} /\ n \in Nat
  <2>1. Len(p) \in 1..3 /\ n \in Nat
    BY DEF GoodPrefix
  <2> QED BY <2>1
<1>2. \A j \in 1..l : j <= k => IsByteOf(s[j], p, n, id, j)
  <2>1. ASSUME NEW j \in 1..l PROVE 0 + j = j
    BY <1>1
  <2> QED BY <2>1 DEF LiesAt
<1>3. n > 0 /\ l + 1 <= k => /\ s[l + 1].kind = "run" /\ s[l + 1].id = id /\ (s[l + 1].last = TRUE <=> s[l + 1].n = n)
                             /\ (s[l + 1].last # TRUE => l + 1 = k)
  <2>1. 0 + l + 1 = l + 1
    BY <1>1
  <2> QED BY <2>1 DEF LiesAt
<1>4. z = l + (IF n = 0 THEN 0 ELSE 1)
  BY DEF ChunkSize
<1>5. EndsChunk(s) => s[k].last = TRUE
  BY DEF EndsChunk
<1> HIDE DEF z
<1> SUFFICES /\ z \in Nat \ {0} /\ ~TooLong(s)
             /\ EndsChunk(s) => HasChunk(s)
             /\ HasChunk(s) => /\ z <= k /\ s[z].last = TRUE /\ \A j \in 1..z - 1 : s[j].last # TRUE
                               /\ AfterChunk(s) = SubSeq(s, z + 1, k) /\ ChunkLength(s) = n
                               /\ (IsData(s) <=> p[1] >= 128)
                               /\ s[1].id = id /\ (n # 0 => Content(s)[1].id = id)
  BY DEF FindsChunk, z
<1>6. CASE k < l
  <2>1. ~TooLong(s) /\ ~HasPrefix(s)
    BY <1>6, PartOfPrefix
  <2>2. k \in 1..l /\ k # l
    <3> HIDE DEF k, l
    <3> QED BY <1>1, <1>6
  <2>3. s[k].last # TRUE
    <3>1. k <= k
      BY <1>1
    <3>2. IsByteOf(s[k], p, n, id, k)
      BY <1>2, <2>2, <3>1
    <3> QED BY <2>2, <3>2 DEF IsByteOf
  <2>4. z \in Nat \ {0}
    <3> HIDE DEF k, l
    <3> QED BY <1>1, <1>4
  <2> QED BY <1>5, <2>1, <2>3, <2>4 DEF HasChunk
<1>7. CASE k >= l
  <2>1. PrefixLength(s) = l /\ ~TooLong(s) /\ HasPrefix(s) /\ s[1].n = p[1] /\ ChunkLength(s) = n
    BY <1>7, WholePrefix
  <2>2. Content(s) = SubSeq(s, l + 1, IF l + 1 <= k THEN l + 1 ELSE k)
    <3>1. l + 1 \in Int /\ k \in Int
      <4> HIDE DEF k, l
      <4> QED BY <1>1
    <3> QED BY <2>1, <3>1, MinOfTwo DEF Content
  <2>3. /\ IsData(s) <=> p[1] >= 128
        /\ AfterChunk(s) = SubSeq(s, l + (IF n = 0 THEN 1 ELSE 2), k)
    BY <2>1 DEF IsData, AfterChunk
  <2>4. s[1].id = id
    <3>1. 1 \in 1..l /\ 1 <= k
      <4> HIDE DEF k, l
      <4> QED BY <1>1, <1>7
    <3> QED BY <1>2, <3>1 DEF IsByteOf
  <2>5. CASE n = 0
    <3>1. z = l /\ l + 1 = z + 1 /\ z \in Nat \ {0} /\ z \in 1..l /\ z <= k
      <4> HIDE DEF k, l
      <4> QED BY <1>1, <1>4, <1>7, <2>5
    <3>2. HasChunk(s)
      BY <2>1, <2>5 DEF HasChunk
    <3>3. s[z].last = TRUE
      BY <1>2, <2>5, <3>1 DEF IsByteOf
    <3>4. ASSUME NEW j \in 1..z - 1 PROVE s[j].last # TRUE
      <4>1. j \in 1..l /\ j # l /\ j <= k
        <5> HIDE DEF k, l
        <5> QED BY <1>1, <1>7, <3>1
      <4> QED BY <1>2, <4>1 DEF IsByteOf
    <3>5. AfterChunk(s) = SubSeq(s, z + 1, k)
      BY <2>3, <2>5, <3>1
    <3> QED BY <2>1, <2>3, <2>4, <2>5, <3>1, <3>2, <3>3, <3>4, <3>5
  <2>6. CASE n # 0
    <3>1. z = l + 1 /\ l + 2 = z + 1 /\ z \in Nat \ {0} /\ n > 0
      <4> HIDE DEF k, l
      <4> QED BY <1>1, <1>4, <2>6
    <3>2. ASSUME NEW j \in 1..l PROVE s[j].last # TRUE
      <4>1. j <= k
        <5> HIDE DEF k, l
        <5> QED BY <1>1, <1>7
      <4> QED BY <1>2, <2>6, <4>1 DEF IsByteOf
    <3>3. CASE k = l
      <4>1. Content(s) = <<>>
        <5>1. ~(l + 1 <= k) /\ l + 1 > k
          <6> HIDE DEF k, l
          <6> QED BY <1>1, <3>3
        <5> QED BY <2>2, <5>1
      <4>2. ~HasChunk(s)
        BY <2>1, <2>6, <4>1 DEF HasChunk
      <4>3. ~EndsChunk(s)
        <5>1. k \in 1..l
          <6> HIDE DEF k, l
          <6> QED BY <1>1, <3>3
        <5> QED BY <1>5, <3>2, <5>1
      <4> QED BY <2>1, <3>1, <4>2, <4>3
    <3>4. CASE k # l
      <4>1. l + 1 <= k /\ l + 1 \in 1..k
        <5> HIDE DEF k, l
        <5> QED BY <1>1, <1>7, <3>4
      <4>2. Content(s) = SubSeq(s, l + 1, l + 1)
        BY <2>2, <4>1
      <4>3. Len(SubSeq(s, l + 1, l + 1)) = 1 /\ SubSeq(s, l + 1, l + 1)[1] = s[l + 1]
        <5>1. l + 1 \in 1..Len(s)
          BY <4>1
        <5> HIDE DEF k, l
        <5>2. l + 1 \in Int
          BY <1>1
        <5> DEFINE m == l + 1
        <5> HIDE DEF m
        <5>3. m \in 1..Len(s) /\ m \in Int
          BY <5>1, <5>2 DEF m
        <5>4. Len(SubSeq(s, m, m)) = 1 /\ SubSeq(s, m, m)[1] = s[m]
          BY <5>3
        <5> QED BY <5>4 DEF m
      <4>4. Content(s) # <<>> /\ Content(s)[1] = s[l + 1]
        BY <4>2, <4>3
      <4>5. HasChunk(s) <=> s[l + 1].last = TRUE
        BY <1>3, <2>1, <2>6, <3>1, <4>1, <4>4 DEF HasChunk
      <4>6. EndsChunk(s) => HasChunk(s)
        BY <1>3, <1>5, <3>1, <4>1, <4>5
      <4>7. z <= k /\ (s[z].last = TRUE <=> HasChunk(s))
        BY <3>1, <4>1, <4>5
      <4>8. \A j \in 1..z - 1 : s[j].last # TRUE
        <5>1. 1..z - 1 = 1..l
          <6> HIDE DEF k, l
          <6> QED BY <1>1, <3>1
        <5> QED BY <3>2, <5>1
      <4>9. Content(s)[1].id = id
        BY <1>3, <3>1, <4>1, <4>4
      <4>10. AfterChunk(s) = SubSeq(s, z + 1, k)
        BY <2>3, <2>6, <3>1
      <4> QED BY <2>1, <2>3, <2>4, <3>1, <4>6, <4>7, <4>8, <4>9, <4>10
    <3> QED BY <3>3, <3>4
  <2> QED BY <2>5, <2>6
<1>8. k < l \/ k >= l
  <2> HIDE DEF k, l
  <2> QED BY <1>1
<1> QED BY <1>6, <1>7, <1>8

(***************************************************************************)
(* Streams.  Chunks begin at the start of the stream and after the marked   *)
(* items; each is padding, or the packet that its id says.                  *)
(***************************************************************************)
Starts(s) == {i \in 1..Len(s) : i = 1 \/ s[i - 1].last = TRUE}
Tells(p, n, id, lens) == IF p[1] >= 128 THEN id \in 1..Len(lens) /\ n = lens[id] ELSE id = 0
ChunkAt(s, i, lens) == \E p, n : GoodPrefix(p, n) /\ LiesAt(s, i - 1, p, n, s[i].id) /\ Tells(p, n, s[i].id, lens)
Framed(s, lens) == s \in Seq(Items) /\ \A i \in Starts(s) : ChunkAt(s, i, lens)

(* In a stream that ends a chunk every chunk is whole.                      *)
LEMMA AllWhole ==
    ASSUME NEW s \in Seq(Items), s # <<>>, EndsChunk(s), NEW i \in 1..Len(s), NEW p, NEW n, NEW id,
           GoodPrefix(p, n), LiesAt(s, i - 1, p, n, id)
    PROVE  /\ \A j \in 1..Len(p) : (i - 1) + j <= Len(s)
           /\ n > 0 => (i - 1) + Len(p) + 1 <= Len(s) /\ s[(i - 1) + Len(p) + 1].last = TRUE
<1> DEFINE l == Len(p)
           k == Len(s)
           o == i - 1
<1>1. l \in 1..3 /\ k \in Nat /\ n \in Nat /\ o \in 0..k - 1
  <2>1. Len(p) \in 1..3 /\ n \in Nat
    BY DEF GoodPrefix
  <2> QED BY <2>1
<1>2. s[k].last = TRUE
  BY DEF EndsChunk
<1>3. \A j \in 1..l : o + j <= k => (s[o + j].last = TRUE <=> n = 0 /\ j = l)
  BY DEF LiesAt, IsByteOf
<1>4. n > 0 /\ o + l + 1 <= k => (s[o + l + 1].last # TRUE => o + l + 1 = k)
  BY DEF LiesAt
<1> HIDE DEF l, k, o
<1>5. ~(k < o + l)
  <2> SUFFICES ASSUME k < o + l PROVE FALSE
    OBVIOUS
  <2> DEFINE j == k - o
  <2>1. j \in 1..l /\ o + j = k /\ j # l
    BY <1>1
  <2> HIDE DEF j
  <2>2. o + j <= k /\ s[o + j].last = TRUE
    BY <1>1, <1>2, <2>1
  <2> QED BY <1>3, <2>1, <2>2
<1>6. n > 0 => k # o + l
  <2> SUFFICES ASSUME n > 0, k = o + l PROVE FALSE
    OBVIOUS
  <2>1. l \in 1..l /\ o + l <= k /\ n # 0
    BY <1>1
  <2> QED BY <1>2, <1>3, <2>1
<1>7. (\A j \in 1..l : o + j <= k) /\ (n > 0 => o + l + 1 <= k)
  BY <1>1, <1>5, <1>6
<1>8. n > 0 => s[o + l + 1].last = TRUE
  BY <1>1, <1>2, <1>4, <1>7
<1> QED BY <1>7, <1>8 DEF l, k, o

(* The chunks of a stream are those of a longer one that begins with it.    *)
LEMMA SameChunk ==
    ASSUME NEW s \in Seq(Items), s # <<>>, EndsChunk(s), NEW t, Len(t) \in Nat, Len(t) >= Len(s), \A j \in 1..Len(s) : t[j] = s[j],
           NEW i \in 1..Len(s), NEW p, NEW n, NEW id, GoodPrefix(p, n), LiesAt(s, i - 1, p, n, id)
    PROVE  LiesAt(t, i - 1, p, n, id)
<1> DEFINE l == Len(p)
           k == Len(s)
           o == i - 1
<1>1. l \in 1..3 /\ k \in Nat /\ n \in Nat /\ o \in 0..k - 1
  <2>1. Len(p) \in 1..3 /\ n \in Nat
    BY DEF GoodPrefix
  <2> QED BY <2>1
<1>2. (\A j \in 1..l : o + j <= k) /\ (n > 0 => o + l + 1 <= k /\ s[o + l + 1].last = TRUE)
  BY AllWhole
<1>3. /\ \A j \in 1..l : o + j <= k => IsByteOf(s[o + j], p, n, id, j)
      /\ n > 0 /\ o + l + 1 <= k => /\ s[o + l + 1].kind = "run" /\ s[o + l + 1].id = id
                                    /\ (s[o + l + 1].last = TRUE <=> s[o + l + 1].n = n)
  BY DEF LiesAt
<1> HIDE DEF l, k, o
<1>4. \A j \in 1..k : t[j] = s[j]
  BY DEF k
<1>5. ASSUME NEW j \in 1..l PROVE IsByteOf(t[o + j], p, n, id, j)
  <2>1. o + j \in 1..k
    BY <1>1, <1>2
  <2> QED BY <1>2, <1>3, <1>4, <2>1
<1>6. ASSUME n > 0 PROVE LET x == t[o + l + 1] IN x.kind = "run" /\ x.id = id /\ (x.last = TRUE <=> x.n = n) /\ x.last = TRUE
  <2>1. o + l + 1 \in 1..k
    BY <1>1, <1>2, <1>6
  <2> QED BY <1>2, <1>3, <1>4, <1>6, <2>1
<1> QED BY <1>5, <1>6 DEF LiesAt, l, o

(* A chunk written to a stream that ends one.                               *)
LEMMA Concatenated ==
    ASSUME NEW s \in Seq(Items), NEW u \in Seq(Items)
    PROVE  /\ s \o u \in Seq(Items) /\ Len(s \o u) = Len(s) + Len(u)
           /\ \A j \in 1..Len(s) : (s \o u)[j] = s[j]
           /\ \A j \in 1..Len(u) : (s \o u)[Len(s) + j] = u[j]
  OBVIOUS

\* t is s and a chunk.
Longer(s, t, p, n, id) ==
    /\ t \in Seq(Items) /\ Len(t) = Len(s) + ChunkSize(p, n) /\ ChunkSize(p, n) \in Nat \ {0}
    /\ \A j \in 1..Len(s) : t[j] = s[j]
    /\ LiesAt(t, Len(s), p, n, id) /\ t[Len(s) + 1].id = id
    /\ t[Len(t)].last = TRUE /\ \A i \in 1..Len(t) : i \in Starts(t) <=> i \in Starts(s) \/ i = Len(s) + 1

LEMMA Appended ==
    ASSUME NEW s \in Seq(Items), EndsChunk(s), NEW p, NEW n, GoodPrefix(p, n), NEW id \in Nat,
           NEW t, t = s \o Chunk(p, n, id)
    PROVE  Longer(s, t, p, n, id)
<1> DEFINE l == Len(p)
           k == Len(s)
           z == ChunkSize(p, n)
           u == Chunk(p, n, id)
<1>1. l \in 1..3 /\ k \in Nat /\ n \in Nat
  <2>1. Len(p) \in 1..3 /\ n \in Nat
    BY DEF GoodPrefix
  <2> QED BY <2>1
<1>2. z = l + (IF n = 0 THEN 0 ELSE 1)
  BY DEF ChunkSize
<1>3. /\ u \in Seq(Items) /\ Len(u) = z
      /\ \A j \in 1..l : IsByteOf(u[j], p, n, id, j)
      /\ n > 0 => u[l + 1].kind = "run" /\ u[l + 1].n = n /\ u[l + 1].id = id /\ u[l + 1].last = TRUE
  <2>1. IsChunk(Chunk(p, n, id), p, n, id)
    BY ChunkIs
  <2> QED BY <2>1 DEF IsChunk
<1>4. EndsChunk(s) => (k > 0 => s[k].last = TRUE)
  BY DEF EndsChunk
<1> HIDE DEF l, z, u
<1>5. t \in Seq(Items) /\ Len(t) = k + z /\ (\A j \in 1..k : t[j] = s[j]) /\ \A j \in 1..z : t[k + j] = u[j]
  BY ZenonT(30), <1>3, Concatenated DEF u
<1> HIDE DEF k
<1>6. z \in Nat \ {0} /\ (n = 0 => z = l) /\ (n # 0 => z = l + 1 /\ n > 0)
  BY <1>1, <1>2
<1>7. \A j \in 1..l : IsByteOf(t[k + j], p, n, id, j)
  <2>1. \A j \in 1..l : j \in 1..z
    BY <1>1, <1>6
  <2> QED BY <1>3, <1>5, <2>1
<1>8. n > 0 => LET x == t[k + l + 1] IN x.kind = "run" /\ x.n = n /\ x.id = id /\ x.last = TRUE
  <2>1. n > 0 => l + 1 \in 1..z /\ k + l + 1 = k + (l + 1)
    BY <1>1, <1>6
  <2> QED BY <1>3, <1>5, <2>1
<1>9. LiesAt(t, k, p, n, id)
  BY <1>7, <1>8 DEF LiesAt, l
<1>10. t[k + 1].id = id
  <2>1. 1 \in 1..l
    BY <1>1
  <2> QED BY <1>7, <2>1 DEF IsByteOf
<1>11. ASSUME NEW j \in 1..z PROVE t[k + j].last = TRUE <=> j = z
  <2>1. CASE n = 0
    <3>1. j \in 1..l /\ z = l
      BY <1>6, <2>1
    <3> QED BY <1>7, <2>1, <3>1 DEF IsByteOf, l
  <2>2. CASE n # 0
    <3>1. CASE j = z
      <4>1. k + l + 1 = k + z
        BY <1>1, <1>6, <2>2
      <4> QED BY <1>6, <1>8, <2>2, <3>1, <4>1
    <3>2. CASE j # z
      <4>1. j \in 1..l
        BY <1>1, <1>6, <2>2, <3>2
      <4> QED BY <1>7, <2>2, <3>2, <4>1 DEF IsByteOf
    <3> QED BY <3>1, <3>2
  <2> QED BY <2>1, <2>2
<1>12. t[k + z].last = TRUE
  <2>1. z \in 1..z
    BY <1>6
  <2> QED BY <1>11, <2>1
<1>13. ASSUME NEW i \in 1..(k + z) PROVE i \in Starts(t) <=> i \in Starts(s) \/ i = k + 1
  <2>1. i \in Starts(t) <=> i = 1 \/ t[i - 1].last = TRUE
    BY <1>5 DEF Starts
  <2>2. CASE i <= k
    <3>1. i \in 1..k /\ i # k + 1
      BY <1>1, <1>6, <2>2
    <3>2. i = 1 \/ (i - 1 \in 1..k /\ t[i - 1] = s[i - 1])
      <4>1. i = 1 \/ i - 1 \in 1..k
        BY <1>1, <3>1
      <4> QED BY <1>5, <4>1
    <3>3. i \in Starts(s) <=> i = 1 \/ s[i - 1].last = TRUE
      BY <3>1 DEF Starts, k
    <3> QED BY <2>1, <3>1, <3>2, <3>3
  <2>3. CASE i = k + 1
    <3>1. CASE k = 0
      BY <2>1, <2>3, <3>1
    <3>2. CASE k # 0
      <4>1. k \in 1..k /\ k > 0 /\ i - 1 = k
        BY <1>1, <2>3, <3>2
      <4> QED BY <1>4, <1>5, <2>1, <2>3, <4>1
    <3> QED BY <3>1, <3>2
  <2>4. CASE i > k + 1
    <3>1. ~(i \in 1..k) /\ i # k + 1 /\ i # 1 /\ i - 1 = k + (i - 1 - k) /\ (i - 1 - k) \in 1..z /\ (i - 1 - k) # z
      BY <1>1, <1>6, <2>4
    <3>2. t[i - 1].last # TRUE
      BY <1>11, <3>1
    <3>3. i \notin Starts(s)
      BY <3>1 DEF Starts, k
    <3> QED BY <2>1, <3>1, <3>2, <3>3
  <2> QED BY <1>1, <1>6, <2>2, <2>3, <2>4
<1> QED BY <1>5, <1>6, <1>9, <1>10, <1>12, <1>13 DEF k, z, Longer

LEMMA AppendedFramed ==
    ASSUME NEW s, NEW lens, Framed(s, lens), EndsChunk(s), NEW p, NEW n, GoodPrefix(p, n), NEW id \in Nat,
           NEW more, Tells(p, n, id, more),
           NEW t, t = s \o Chunk(p, n, id), Len(lens) \in Nat, Len(more) \in Nat,
           \A i \in 1..Len(lens) : i \in 1..Len(more) /\ more[i] = lens[i]
    PROVE  Framed(t, more) /\ EndsChunk(t)
<1>1. s \in Seq(Items) /\ \A i \in Starts(s) : ChunkAt(s, i, lens)
  BY DEF Framed
<1>2. /\ t \in Seq(Items) /\ Len(t) = Len(s) + ChunkSize(p, n) /\ ChunkSize(p, n) \in Nat \ {0}
      /\ \A j \in 1..Len(s) : t[j] = s[j]
      /\ LiesAt(t, Len(s), p, n, id) /\ t[Len(s) + 1].id = id
      /\ t[Len(t)].last = TRUE /\ \A i \in 1..Len(t) : i \in Starts(t) <=> i \in Starts(s) \/ i = Len(s) + 1
  <2>1. s \in Seq(Items)
    BY <1>1
  <2>2. Longer(s, t, p, n, id)
    BY <2>1, Appended
  <2> QED BY <2>2 DEF Longer
<1>3. Len(s) \in Nat /\ Len(t) \in Nat /\ Len(t) >= Len(s)
  <2>1. Len(s) \in Nat
    BY <1>1
  <2> QED BY <1>2, <2>1
<1>4. ASSUME NEW i \in Starts(t) PROVE ChunkAt(t, i, more)
  <2>1. i \in 1..Len(t) /\ (i \in Starts(s) \/ i = Len(s) + 1)
    BY <1>2 DEF Starts
  <2>2. CASE i \in Starts(s)
    <3>1. i \in 1..Len(s) /\ s # <<>> /\ t[i] = s[i]
      <4>1. i \in 1..Len(s)
        BY <2>2 DEF Starts
      <4>2. s # <<>>
        BY <4>1
      <4> QED BY <1>2, <4>1, <4>2
    <3>2. PICK q, m : GoodPrefix(q, m) /\ LiesAt(s, i - 1, q, m, s[i].id) /\ Tells(q, m, s[i].id, lens)
      BY <1>1, <2>2 DEF ChunkAt
    <3>3. LiesAt(t, i - 1, q, m, s[i].id)
      BY <1>1, <1>2, <1>3, <3>1, <3>2, SameChunk
    <3>4. Tells(q, m, s[i].id, more)
      BY <3>2 DEF Tells
    <3> QED BY <3>1, <3>2, <3>3, <3>4 DEF ChunkAt
  <2>3. CASE i = Len(s) + 1
    <3>1. i - 1 = Len(s) /\ t[i].id = id
      BY <1>2, <1>3, <2>3
    <3> QED BY <1>2, <3>1 DEF ChunkAt
  <2> QED BY <2>1, <2>2, <2>3
<1> QED BY <1>2, <1>4 DEF Framed, EndsChunk

(* The stream without its first z items, of which the last ends a chunk.    *)
Shorter(s, t, z) ==
    /\ t \in Seq(Items) /\ Len(t) = Len(s) - z /\ \A j \in 1..Len(t) : t[j] = s[j + z]
    /\ \A i \in 1..Len(t) : i \in Starts(t) <=> i + z \in Starts(s)
    /\ EndsChunk(s) => EndsChunk(t)
    /\ s[Len(s)].last # TRUE => t # <<>> /\ t[Len(t)].last # TRUE

LEMMA TailFramed ==
    ASSUME NEW s, NEW lens, Framed(s, lens), NEW z \in 1..Len(s), s[z].last = TRUE, NEW t, t = SubSeq(s, z + 1, Len(s))
    PROVE  Framed(t, lens) /\ Shorter(s, t, z)
<1>1. s \in Seq(Items) /\ \A i \in Starts(s) : ChunkAt(s, i, lens)
  BY DEF Framed
<1>2. t \in Seq(Items) /\ Len(t) = Len(s) - z /\ \A j \in 1..Len(t) : t[j] = s[j + z]
  <2>1. Len(s) \in Nat /\ z + 1 \in 1..Len(s) + 1
    BY <1>1
  <2> QED BY <1>1, <2>1
<1> DEFINE k == Len(s)
           m == Len(t)
<1>3. k \in Nat /\ m = k - z /\ m \in Nat /\ z \in 1..k
  BY <1>1, <1>2
<1> HIDE DEF k, m
<1>4. \A j \in 1..m : t[j] = s[j + z]
  BY <1>2 DEF m
<1>5. ASSUME NEW i \in 1..m PROVE i \in Starts(t) <=> i + z \in Starts(s)
  <2>1. i \in Starts(t) <=> i = 1 \/ t[i - 1].last = TRUE
    BY DEF Starts, m
  <2>2. i + z \in 1..k /\ i + z # 1
    BY <1>3
  <2>3. i + z \in Starts(s) <=> s[i + z - 1].last = TRUE
    BY <2>2 DEF Starts, k
  <2>4. CASE i = 1
    <3>1. i + z - 1 = z
      BY <1>3, <2>4
    <3> QED BY <2>1, <2>3, <2>4, <3>1
  <2>5. CASE i # 1
    <3>1. i - 1 \in 1..m /\ i + z - 1 = (i - 1) + z
      BY <1>3, <2>5
    <3>2. t[i - 1] = s[i + z - 1]
      BY <1>4, <3>1
    <3> QED BY <2>1, <2>3, <2>5, <3>2
  <2> QED BY <2>4, <2>5
<1>6. ASSUME NEW i \in Starts(t) PROVE ChunkAt(t, i, lens)
  <2>1. i \in 1..m
    BY DEF Starts, m
  <2>2. i + z \in Starts(s) /\ t[i] = s[i + z]
    BY <1>4, <1>5, <2>1
  <2>3. PICK p, n : GoodPrefix(p, n) /\ LiesAt(s, (i + z) - 1, p, n, s[i + z].id) /\ Tells(p, n, s[i + z].id, lens)
    BY <1>1, <2>2 DEF ChunkAt
  <2>4. Len(p) \in Nat
    BY <2>3 DEF GoodPrefix
  <2> DEFINE l == Len(p)
             id == s[i + z].id
             o == (i + z) - 1
  <2>5. /\ \A j \in 1..l : o + j <= k => IsByteOf(s[o + j], p, n, id, j)
        /\ n > 0 /\ o + l + 1 <= k => /\ s[o + l + 1].kind = "run" /\ s[o + l + 1].id = id
                                      /\ (s[o + l + 1].last = TRUE <=> s[o + l + 1].n = n)
                                      /\ (s[o + l + 1].last # TRUE => o + l + 1 = k)
    BY <2>3 DEF LiesAt, k
  <2> HIDE DEF l, id
  <2>6. ASSUME NEW j \in 1..l, i - 1 + j <= m PROVE IsByteOf(t[i - 1 + j], p, n, id, j)
    <3>1. i - 1 + j \in 1..m /\ o + j = (i - 1 + j) + z /\ o + j <= k
      BY <1>3, <2>1, <2>6
    <3> HIDE DEF o
    <3> QED BY <1>4, <2>5, <3>1
  <2>7. ASSUME n > 0, i - 1 + l + 1 <= m
        PROVE  LET x == t[i - 1 + l + 1] IN
               x.kind = "run" /\ x.id = id /\ (x.last = TRUE <=> x.n = n) /\ (x.last # TRUE => i - 1 + l + 1 = m)
    <3>1. i - 1 + l + 1 \in 1..m /\ o + l + 1 = (i - 1 + l + 1) + z /\ o + l + 1 <= k /\ (o + l + 1 = k => i - 1 + l + 1 = m)
      BY <1>3, <2>1, <2>4, <2>7 DEF l
    <3> HIDE DEF o
    <3> QED BY <1>4, <2>5, <2>7, <3>1
  <2>8. LiesAt(t, i - 1, p, n, id)
    BY <2>6, <2>7 DEF LiesAt, l, m
  <2> QED BY <2>2, <2>3, <2>8 DEF ChunkAt, id
<1>7. m # 0 => t[m] = s[k]
  <2>1. m # 0 => m \in 1..m /\ m + z = k
    BY <1>3
  <2> QED BY <1>4, <2>1
<1>8. EndsChunk(s) => EndsChunk(t)
  <2>1. s # <<>> /\ (t # <<>> => m # 0)
    BY <1>1, <1>2, <1>3 DEF k, m
  <2> QED BY <1>7, <2>1 DEF EndsChunk, k, m
<1>9. s[k].last # TRUE => m # 0 /\ t # <<>> /\ t[m].last # TRUE
  <2>1. s[k].last # TRUE => k # z
    OBVIOUS
  <2>2. s[k].last # TRUE => m # 0
    BY <1>3, <2>1
  <2>3. t = <<>> => m = 0
    BY DEF m
  <2> QED BY <1>7, <2>2, <2>3
<1> QED BY <1>2, <1>5, <1>6, <1>8, <1>9 DEF Framed, Shorter, k, m

\* t is the first k items of s, the last perhaps a run cut to one byte.
CutAt(s, t, k) ==
    /\ k \in 0..Len(s) /\ t \in Seq(Items) /\ Len(t) = k /\ \A j \in 1..k : j < k => t[j] = s[j]
    /\ k > 0 => \/ t[k] = s[k]
                \/ /\ s[k].kind = "run" /\ s[k].n > 1
                   /\ t[k].kind = "run" /\ t[k].n = 1 /\ t[k].id = s[k].id /\ t[k].last # TRUE

LEMMA CutRun ==
    ASSUME NEW x \in Items, NEW y, y = [x EXCEPT !.n = 1, !.last = FALSE]
    PROVE  y \in Items /\ y.kind = x.kind /\ y.n = 1 /\ y.id = x.id /\ y.last # TRUE
<1>1. y.kind = x.kind /\ y.n = 1 /\ y.id = x.id
  BY DEF Items
<1>2. y.last = FALSE
  BY DEF Items
<1>3. y \in Items
  BY DEF Items
<1> QED BY <1>1, <1>2, <1>3

LEMMA CutWhere ==
    ASSUME NEW s \in Seq(Items), NEW t \in Remains(s)
    PROVE  \E k : CutAt(s, t, k)
<1>1. Len(s) \in Nat
  OBVIOUS
<1>2. CASE \E k \in 0..Len(s) : t = SubSeq(s, 1, k)
  <2>1. PICK k \in 0..Len(s) : t = SubSeq(s, 1, k)
    BY <1>2
  <2>2. t \in Seq(Items) /\ Len(t) = k /\ \A j \in 1..k : t[j] = s[j]
    BY <1>1, <2>1
  <2>3. k > 0 => k \in 1..k
    BY <1>1
  <2> QED BY <2>2, <2>3 DEF CutAt
<1>3. CASE \E k \in {k \in 1..Len(s) : s[k].kind = "run" /\ s[k].n > 1} :
              t = [SubSeq(s, 1, k) EXCEPT ![k].n = 1, ![k].last = FALSE]
  <2>1. PICK k \in 1..Len(s) : s[k].kind = "run" /\ s[k].n > 1 /\ t = [SubSeq(s, 1, k) EXCEPT ![k].n = 1, ![k].last = FALSE]
    BY <1>3
  <2> DEFINE u == SubSeq(s, 1, k)
             y == [s[k] EXCEPT !.n = 1, !.last = FALSE]
  <2>2. u \in Seq(Items) /\ Len(u) = k /\ \A j \in 1..k : u[j] = s[j]
    BY <1>1
  <2>3. k \in 1..k /\ k \in Nat
    BY <1>1
  <2>4. t = [u EXCEPT ![k].n = 1, ![k].last = FALSE]
    BY <2>1
  <2> HIDE DEF u
  <2>5. u[k] = s[k]
    BY <2>2, <2>3
  <2>6. t = [u EXCEPT ![k] = [u[k] EXCEPT !.n = 1, !.last = FALSE]]
    BY <2>2, <2>3, <2>4
  <2>7. t = [u EXCEPT ![k] = y]
    BY <2>5, <2>6
  <2>8. y \in Items /\ y.kind = s[k].kind /\ y.n = 1 /\ y.id = s[k].id /\ y.last # TRUE
    <3>1. s[k] \in Items
      OBVIOUS
    <3> QED BY <3>1, CutRun
  <2> HIDE DEF y
  <2>9. t \in Seq(Items) /\ Len(t) = k /\ t[k] = y /\ \A j \in 1..k : j < k => t[j] = s[j]
    BY <2>2, <2>3, <2>7, <2>8
  <2>10. k \in 0..Len(s)
    BY <1>1
  <2>11. t[k].kind = "run" /\ t[k].n = 1 /\ t[k].id = s[k].id /\ t[k].last # TRUE
    BY <2>1, <2>8, <2>9
  <2>12. CutAt(s, t, k)
    BY <2>1, <2>9, <2>10, <2>11 DEF CutAt
  <2> QED BY <2>12
<1> QED BY <1>2, <1>3 DEF Remains

LEMMA CutFramed ==
    ASSUME NEW s, NEW lens, Framed(s, lens), EndsChunk(s), NEW t \in Remains(s)
    PROVE  /\ Framed(t, lens) /\ Len(t) <= Len(s)
           /\ \A i \in 1..Len(t) : t[i].id = s[i].id /\ (i \in Starts(t) <=> i \in Starts(s))
<1>1. s \in Seq(Items) /\ \A i \in Starts(s) : ChunkAt(s, i, lens)
  BY DEF Framed
<1>2. PICK k : CutAt(s, t, k)
  BY <1>1, CutWhere
<1> DEFINE K == Len(s)
<1>3. K \in Nat /\ (K > 0 => s[K].last = TRUE)
  BY <1>1 DEF EndsChunk
<1> HIDE DEF K
<1>4. /\ k \in 0..K /\ t \in Seq(Items) /\ Len(t) = k /\ \A j \in 1..k : j < k => t[j] = s[j]
      /\ k > 0 => \/ t[k] = s[k]
                  \/ /\ s[k].kind = "run" /\ s[k].n > 1
                     /\ t[k].kind = "run" /\ t[k].n = 1 /\ t[k].id = s[k].id /\ t[k].last # TRUE
  BY <1>2 DEF CutAt, K
<1>5. ASSUME NEW i \in 1..k PROVE t[i].id = s[i].id /\ (i \in Starts(t) <=> i \in Starts(s))
  <2>1. i \in 1..Len(t) /\ i \in 1..K
    BY <1>3, <1>4
  <2>2. t[i].id = s[i].id
    <3>1. i < k \/ (i = k /\ k > 0)
      BY <1>3, <1>4
    <3> QED BY <1>4, <3>1
  <2>3. CASE i = 1
    BY <2>1, <2>2, <2>3 DEF Starts, K
  <2>4. CASE i # 1
    <3>1. i - 1 \in 1..k /\ i - 1 < k
      BY <1>3, <1>4, <2>4
    <3>2. t[i - 1] = s[i - 1]
      BY <1>4, <3>1
    <3> QED BY <2>1, <2>2, <3>2 DEF Starts, K
  <2> QED BY <2>3, <2>4
<1>6. ASSUME NEW i \in Starts(t) PROVE ChunkAt(t, i, lens)
  <2>1. i \in 1..k
    BY <1>4 DEF Starts
  <2>2. i \in Starts(s) /\ t[i].id = s[i].id
    BY <1>5, <2>1
  <2>3. PICK p, n : GoodPrefix(p, n) /\ LiesAt(s, i - 1, p, n, s[i].id) /\ Tells(p, n, s[i].id, lens)
    BY <1>1, <2>2 DEF ChunkAt
  <2> DEFINE l == Len(p)
             id == s[i].id
             o == i - 1
  <2>4. l \in Nat /\ n \in Nat /\ o \in Nat
    <3>1. Len(p) \in 1..3 /\ n \in Nat
      BY <2>3 DEF GoodPrefix
    <3> QED BY <1>3, <1>4, <2>1, <3>1
  <2>5. /\ \A j \in 1..l : o + j <= K => IsByteOf(s[o + j], p, n, id, j)
        /\ n > 0 /\ o + l + 1 <= K => /\ s[o + l + 1].kind = "run" /\ s[o + l + 1].id = id
                                      /\ (s[o + l + 1].last = TRUE <=> s[o + l + 1].n = n)
                                      /\ (s[o + l + 1].last # TRUE => o + l + 1 = K)
    BY <2>3 DEF LiesAt, K
  <2> HIDE DEF l, id, o
  <2>6. ASSUME NEW j \in 1..l, o + j <= k PROVE IsByteOf(t[o + j], p, n, id, j)
    <3> DEFINE r == o + j
    <3>1. r \in 1..k /\ r <= K
      BY <1>3, <1>4, <2>4, <2>6
    <3>2. IsByteOf(s[r], p, n, id, j)
      BY <2>5, <3>1
    <3> HIDE DEF r
    <3>3. s[r].kind = "byte"
      BY <3>2 DEF IsByteOf
    <3>4. t[r] = s[r]
      <4>1. r < k \/ (r = k /\ k > 0)
        BY <1>3, <1>4, <3>1
      <4> QED BY <1>4, <3>1, <3>3, <4>1
    <3> QED BY <3>2, <3>4 DEF r
  <2>7. ASSUME n > 0, o + l + 1 <= k
        PROVE  LET x == t[o + l + 1] IN
               x.kind = "run" /\ x.id = id /\ (x.last = TRUE <=> x.n = n) /\ (x.last # TRUE => o + l + 1 = k)
    <3> DEFINE r == o + l + 1
    <3>1. r \in 1..k /\ r <= K
      BY <1>3, <1>4, <2>4, <2>7
    <3>2. s[r].kind = "run" /\ s[r].id = id /\ (s[r].last = TRUE <=> s[r].n = n) /\ (s[r].last # TRUE => r = K)
      BY <2>5, <2>7, <3>1
    <3> HIDE DEF r
    <3>3. s[r].last = TRUE /\ s[r].n = n
      <4>1. r = K => K > 0
        BY <3>1, <1>3
      <4> QED BY <1>3, <3>2, <4>1
    <3>4. CASE t[r] = s[r]
      BY <3>2, <3>3, <3>4 DEF r
    <3>5. CASE t[r] # s[r]
      <4>1. r = k /\ k > 0
        <5>1. r < k \/ (r = k /\ k > 0)
          BY <1>3, <1>4, <3>1
        <5> QED BY <1>4, <3>1, <3>5, <5>1
      <4>2. s[r].n > 1 /\ t[r].kind = "run" /\ t[r].n = 1 /\ t[r].id = s[r].id /\ t[r].last # TRUE
        BY <1>4, <3>5, <4>1
      <4>3. t[r].n # n
        BY <2>4, <3>3, <4>2
      <4> QED BY <3>2, <4>1, <4>2, <4>3 DEF r
    <3> QED BY <3>4, <3>5
  <2>8. LiesAt(t, i - 1, p, n, id)
    BY <1>4, <2>6, <2>7 DEF LiesAt, l, o
  <2> QED BY <2>2, <2>3, <2>8 DEF ChunkAt, id
<1>7. k <= K
  BY <1>3, <1>4
<1> QED BY <1>4, <1>5, <1>6, <1>7 DEF Framed, K

\* The packets in a stream, and that they are there in the order of their ids.
DataStarts(s) == {i \in Starts(s) : s[i].id > 0}
Ids(s) == {s[i].id : i \in DataStarts(s)}
Rising(s) == \A i, j \in DataStarts(s) : i < j => s[i].id < s[j].id

LEMMA IdsEmpty == Ids(<<>>) = {} /\ Rising(<<>>)
BY DEF Ids, Rising, DataStarts, Starts

LEMMA IdsAppended ==
    ASSUME NEW s \in Seq(Items), NEW t, NEW p, NEW n, NEW id \in Nat, Longer(s, t, p, n, id),
           Rising(s), id > 0 => \A x \in Ids(s) : x < id
    PROVE  Rising(t) /\ Ids(t) = Ids(s) \cup (IF id > 0 THEN {id} ELSE {})
<1>1. /\ t \in Seq(Items) /\ Len(t) = Len(s) + ChunkSize(p, n) /\ ChunkSize(p, n) \in Nat \ {0}
      /\ (\A j \in 1..Len(s) : t[j] = s[j]) /\ t[Len(s) + 1].id = id
      /\ \A i \in 1..Len(t) : i \in Starts(t) <=> i \in Starts(s) \/ i = Len(s) + 1
  BY DEF Longer
<1> DEFINE k == Len(s)
<1>2. k \in Nat /\ k + 1 \in 1..Len(t) /\ Starts(s) \subseteq 1..k /\ Starts(t) \subseteq 1..Len(t)
  BY <1>1 DEF Starts
<1> HIDE DEF k
<1>3. Starts(t) = Starts(s) \cup {k + 1}
  <2>1. ASSUME NEW i \in Starts(s) PROVE i \in 1..Len(t)
    BY <1>1, <1>2 DEF k
  <2> QED BY <1>1, <1>2, <2>1 DEF k
<1>4. \A i \in Starts(s) : t[i] = s[i]
  BY <1>1, <1>2 DEF k
<1>5. t[k + 1].id = id
  BY <1>1 DEF k
<1>6. DataStarts(t) = DataStarts(s) \cup (IF id > 0 THEN {k + 1} ELSE {})
  BY <1>3, <1>4, <1>5 DEF DataStarts
<1>7. \A i \in DataStarts(s) : t[i] = s[i] /\ i < k + 1 /\ i \in Nat
  BY <1>2, <1>4 DEF DataStarts
<1>8. Ids(t) = Ids(s) \cup (IF id > 0 THEN {id} ELSE {})
  <2>1. CASE id > 0
    BY <1>5, <1>6, <1>7, <2>1 DEF Ids
  <2>2. CASE ~(id > 0)
    BY <1>6, <1>7, <2>2 DEF Ids
  <2> QED BY <2>1, <2>2
<1>9. ASSUME NEW i \in DataStarts(t), NEW j \in DataStarts(t), i < j PROVE t[i].id < t[j].id
  <2>1. CASE j \in DataStarts(s)
    <3>1. i \in DataStarts(s)
      BY <1>2, <1>6, <1>7, <1>9, <2>1
    <3> QED BY <1>7, <1>9, <2>1, <3>1 DEF Rising
  <2>2. CASE j \notin DataStarts(s)
    <3>1. id > 0 /\ j = k + 1
      BY <1>6, <2>2
    <3>2. i \in DataStarts(s)
      BY <1>2, <1>6, <1>9, <3>1
    <3> QED BY <1>5, <1>7, <3>1, <3>2 DEF Ids
  <2> QED BY <2>1, <2>2
<1> QED BY <1>8, <1>9 DEF Rising

LEMMA IdsTail ==
    ASSUME NEW s, NEW lens, Framed(s, lens), NEW z \in 1..Len(s), s[z].last = TRUE, \A j \in 1..z - 1 : s[j].last # TRUE,
           NEW t, t = SubSeq(s, z + 1, Len(s)), Rising(s)
    PROVE  /\ Rising(t) /\ Ids(t) = Ids(s) \ {s[1].id}
           /\ s[1].id > 0 => s[1].id \in Ids(s) /\ \A x \in Ids(t) : s[1].id < x
<1>1. /\ t \in Seq(Items) /\ Len(t) = Len(s) - z /\ \A j \in 1..Len(t) : t[j] = s[j + z]
      /\ \A i \in 1..Len(t) : i \in Starts(t) <=> i + z \in Starts(s)
  <2>1. Shorter(s, t, z)
    BY TailFramed
  <2> QED BY <2>1 DEF Shorter
<1> DEFINE k == Len(s)
<1>2. k \in Nat /\ z \in 1..k /\ Len(t) = k - z
  <2>1. s \in Seq(Items)
    BY DEF Framed
  <2> QED BY <1>1, <2>1
<1>3. Starts(s) \subseteq 1..k /\ Starts(t) \subseteq 1..(k - z) /\ 1 \in Starts(s)
  BY <1>2 DEF Starts
<1> HIDE DEF k
<1>4. ASSUME NEW i \in Starts(s), i # 1 PROVE i - z \in Starts(t) /\ i > z
  <2>1. i \in 1..k /\ s[i - 1].last = TRUE
    BY <1>3, <1>4 DEF Starts
  <2>2. ~(i - 1 \in 1..z - 1)
    BY <2>1
  <2>3. i > z
    BY <1>2, <1>4, <2>1, <2>2
  <2>4. i - z \in 1..Len(t) /\ (i - z) + z = i
    BY SMTT(30), <1>2, <2>1, <2>3
  <2> QED BY <1>1, <2>3, <2>4
<1>5. ASSUME NEW i \in Starts(t) PROVE i + z \in Starts(s) /\ t[i] = s[i + z] /\ i \in Nat /\ i + z # 1 /\ 1 < i + z
  <2>1. i \in 1..Len(t)
    BY <1>2, <1>3
  <2> QED BY <1>1, <1>2, <2>1
<1>6. DataStarts(t) = {i \in Starts(t) : i + z \in DataStarts(s)}
  BY <1>5 DEF DataStarts
<1>7. Rising(t)
  <2>1. ASSUME NEW i \in DataStarts(t), NEW j \in DataStarts(t), i < j PROVE t[i].id < t[j].id
    <3>1. i + z \in DataStarts(s) /\ j + z \in DataStarts(s) /\ i + z < j + z /\ t[i] = s[i + z] /\ t[j] = s[j + z]
      <4>1. i \in Starts(t) /\ j \in Starts(t) /\ i + z \in DataStarts(s) /\ j + z \in DataStarts(s)
        BY <1>6
      <4>2. t[i] = s[i + z] /\ t[j] = s[j + z] /\ i \in Nat /\ j \in Nat
        BY <1>5, <4>1
      <4>3. z \in Nat
        BY <1>2
      <4>4. i + z < j + z
        BY <2>1, <4>2, <4>3
      <4> QED BY <4>1, <4>2, <4>4
    <3> QED BY <3>1 DEF Rising
  <2> QED BY <2>1 DEF Rising
<1>8. s[1].id > 0 => 1 \in DataStarts(s)
  BY <1>3 DEF DataStarts
<1>9. ASSUME NEW x \in Ids(t) PROVE x \in Ids(s) /\ (s[1].id > 0 => s[1].id < x) /\ x > 0
  <2>1. PICK i \in DataStarts(t) : x = t[i].id
    BY DEF Ids
  <2>2. i + z \in DataStarts(s) /\ x = s[i + z].id /\ 1 < i + z
    BY <1>5, <1>6, <2>1
  <2> QED BY <1>8, <2>2 DEF Ids, Rising, DataStarts
<1>10. ASSUME NEW x \in Ids(s), x # s[1].id PROVE x \in Ids(t)
  <2>1. PICK i \in DataStarts(s) : x = s[i].id
    BY DEF Ids
  <2>2. i \in Starts(s) /\ i # 1
    BY <1>10, <2>1 DEF DataStarts
  <2>3. i - z \in Starts(t) /\ (i - z) + z = i
    BY <1>2, <1>3, <1>4, <2>2
  <2>4. i - z \in DataStarts(t) /\ t[i - z] = s[i]
    BY <1>5, <1>6, <2>3
  <2> QED BY <2>1, <2>4 DEF Ids
<1>11. s[1].id > 0 => s[1].id \in Ids(s)
  BY <1>8 DEF Ids
<1>12. ASSUME NEW x \in Ids(t) PROVE x # s[1].id
  <2>1. s[1].id \in Nat
    <3>1. s \in Seq(Items) /\ 1 \in 1..Len(s)
      BY <1>3 DEF Framed, k
    <3>2. s[1] \in Items
      BY <3>1
    <3> QED BY <3>2 DEF Items
  <2>2. x > 0 /\ (s[1].id > 0 => s[1].id < x)
    BY <1>9
  <2> QED BY <2>1, <2>2
<1> QED BY <1>7, <1>9, <1>10, <1>11, <1>12

LEMMA IdsCut ==
    ASSUME NEW s \in Seq(Items), NEW t, Len(t) \in Nat, Len(t) <= Len(s),
           \A i \in 1..Len(t) : t[i].id = s[i].id /\ (i \in Starts(t) <=> i \in Starts(s)), Rising(s)
    PROVE  Rising(t) /\ Ids(t) \subseteq Ids(s) /\ \A x \in Ids(t), y \in Ids(s) : y < x => y \in Ids(t)
<1>1. DataStarts(t) = {i \in DataStarts(s) : i <= Len(t)} /\ (\A i \in DataStarts(s) : i \in Nat /\ s[i].id \in Nat)
  <2>1. \A i \in 1..Len(s) : s[i].id \in Nat
    <3>1. \A i \in 1..Len(s) : s[i] \in Items
      OBVIOUS
    <3> QED BY <3>1 DEF Items
  <2>2. Len(s) \in Nat
    OBVIOUS
  <2> QED BY <2>1, <2>2 DEF DataStarts, Starts
<1>2. \A i \in DataStarts(t) : t[i].id = s[i].id
  BY DEF DataStarts, Starts
<1>3. Rising(t)
  BY <1>1, <1>2 DEF Rising
<1>4. Ids(t) \subseteq Ids(s)
  BY <1>1, <1>2 DEF Ids
<1>5. ASSUME NEW x \in Ids(t), NEW y \in Ids(s), y < x PROVE y \in Ids(t)
  <2>1. PICK i \in DataStarts(t) : x = s[i].id
    BY <1>2 DEF Ids
  <2>2. PICK j \in DataStarts(s) : y = s[j].id
    BY DEF Ids
  <2>3. i \in DataStarts(s) /\ i <= Len(t)
    BY <1>1
  <2>4. ~(i < j)
    <3>1. i < j => s[i].id < s[j].id
      BY <2>3 DEF Rising
    <3> QED BY <1>1, <1>5, <2>1, <2>2, <2>3, <3>1
  <2>5. j <= Len(t)
    BY <1>1, <2>3, <2>4
  <2>6. j \in DataStarts(t)
    BY <1>1, <2>5
  <2> QED BY <1>2, <2>2, <2>6 DEF Ids
<1> QED BY <1>3, <1>4, <1>5

(* Sizes: a padding chunk has the size asked for, and what MaxDataForSize   *)
(* allows fits its budget and leaves at most one byte of it.                *)
LEMMA PaddingSize ==
    ASSUME NEW q \in Nat, q > 0, q <= 1024
    PROVE  Size(PaddingChunk(q)) = q
<1> DEFINE p == PaddingPrefix(q)
           n == q - Len(p)
           id == 0
           u == Chunk(p, n, id)
           l == Len(p)
<1>1. GoodPrefix(p, n) /\ l \in {1, 2}
  BY SMT, PaddingPrefixIs
<1>2. n \in Nat
  BY <1>1 DEF GoodPrefix
<1> HIDE DEF p, n
<1>3. /\ u \in Seq(Items) /\ Len(u) = ChunkSize(p, n)
      /\ \A j \in 1..Len(p) : IsByteOf(u[j], p, n, id, j)
      /\ n > 0 => u[Len(p) + 1].kind = "run" /\ u[Len(p) + 1].n = n
  <2>1. id \in Nat
    OBVIOUS
  <2> HIDE DEF id
  <2>2. IsChunk(Chunk(p, n, id), p, n, id)
    BY <1>1, <2>1, ChunkIs
  <2> QED BY <2>2 DEF IsChunk
<1>4. PaddingChunk(q) = u /\ q = l + n
  <2>1. q = l + n
    BY <1>1 DEF n
  <2> QED BY <2>1 DEF PaddingChunk, p, n
<1> HIDE DEF u
<1>5. CASE n = 0
  <2>1. Len(u) = l /\ u[l].kind = "byte"
    <3>1. l \in 1..l /\ Len(u) = l
      BY <1>1, <1>3, <1>5 DEF ChunkSize
    <3> QED BY <1>3, <3>1 DEF IsByteOf
  <2>2. Size(u) = l
    BY <2>1 DEF Size, Last
  <2>3. q = l
    <3> HIDE DEF l
    <3> QED BY <1>1, <1>4, <1>5
  <2> QED BY <1>4, <2>2, <2>3
<1>6. CASE n # 0
  <2>1. Len(u) = l + 1 /\ u[l + 1].kind = "run" /\ u[l + 1].n = n
    BY <1>1, <1>2, <1>3, <1>6 DEF ChunkSize
  <2>2. Size(u) = (l + 1) - 1 + n
    BY <2>1 DEF Size, Last
  <2> QED BY <1>1, <1>2, <1>4, <2>2
<1> QED BY <1>5, <1>6

LEMMA DataPrefixLength ==
    ASSUME NEW n \in Nat, n < 1048576
    PROVE  Len(dataPrefixForLength(n)) = IF n < 64 THEN 1 ELSE IF n < 8192 THEN 2 ELSE 3
BY SMT DEF dataPrefixForLength

LEMMA MaxDataFits ==
    ASSUME NEW b \in Nat, b > 0, b < 1048576
    PROVE  MaxDataForSize(b) + Len(dataPrefixForLength(MaxDataForSize(b))) \in {b - 1, b}
<1> DEFINE l == Len(dataPrefixForLength(b))
           n == b - l
<1>1. b \in Nat /\ b < 1048576 /\ b >= 1
  OBVIOUS
<1>2. l = IF b < 64 THEN 1 ELSE IF b < 8192 THEN 2 ELSE 3
  BY SMT, <1>1, DataPrefixLength
<1>3. MaxDataForSize(b) = n
  <2>1. dataPrefixForLength(b) # <<>>
    BY SMT, <1>1 DEF dataPrefixForLength
  <2> QED BY SMT, <2>1 DEF MaxDataForSize
<1> HIDE DEF l
<1>4. n \in Nat /\ n < 1048576
  BY SMT, <1>1, <1>2
<1> HIDE DEF n
<1>5. Len(dataPrefixForLength(n)) = IF n < 64 THEN 1 ELSE IF n < 8192 THEN 2 ELSE 3
  BY SMT, <1>4, DataPrefixLength
<1> DEFINE m == Len(dataPrefixForLength(n))
<1> HIDE DEF m
<1>6. m = IF n < 64 THEN 1 ELSE IF n < 8192 THEN 2 ELSE 3
  BY SMT, <1>5 DEF m
<1>7. n + m \in {b - 1, b}
  BY SMT, <1>1, <1>2, <1>6 DEF n
<1> QED BY SMT, <1>3, <1>7 DEF m

(* What the read loop takes off a stream, and when it cannot.               *)
LEMMA EmptyStream ==
    ASSUME NEW s, s = <<>>
    PROVE  PrefixLength(s) = 0 /\ ~HasChunk(s) /\ ~TooLong(s)
<1> DEFINE S == {0} \cup {i \in 1..3 : \A j \in 1..i : IsByte(s, j) /\ (j > 1 => More(s, j - 1))}
<1>1. ASSUME NEW i \in 1..3 PROVE ~IsByte(s, 1) /\ 1 \in 1..i
  BY DEF IsByte
<1>2. S = {0}
  BY <1>1
<1>3. Max(S) = 0
  BY <1>2, MaxIs
<1>4. PrefixLength(s) = 0
  BY <1>3 DEF PrefixLength
<1> QED BY <1>4 DEF HasChunk, HasPrefix, TooLong

LEMMA HeadOf ==
    ASSUME NEW s, NEW lens, Framed(s, lens), s # <<>>
    PROVE  \E p, n : GoodPrefix(p, n) /\ LiesAt(s, 0, p, n, s[1].id) /\ Tells(p, n, s[1].id, lens) /\ s \in Seq(Items)
<1>1. s \in Seq(Items) /\ 1 \in Starts(s) /\ 1 - 1 = 0
  BY DEF Framed, Starts
<1>2. ChunkAt(s, 1, lens)
  BY <1>1 DEF Framed
<1>3. PICK p, n : GoodPrefix(p, n) /\ LiesAt(s, 1 - 1, p, n, s[1].id) /\ Tells(p, n, s[1].id, lens)
  BY <1>2 DEF ChunkAt
<1> QED BY <1>1, <1>3

LEMMA Waits ==
    ASSUME NEW s, NEW lens, Framed(s, lens)
    PROVE  ~TooLong(s) /\ (s # <<>> /\ EndsChunk(s) => HasChunk(s)) /\ (HasChunk(s) => s # <<>>)
<1>1. CASE s = <<>>
  BY <1>1, EmptyStream
<1>2. CASE s # <<>>
  <2>1. PICK p, n : GoodPrefix(p, n) /\ LiesAt(s, 0, p, n, s[1].id) /\ Tells(p, n, s[1].id, lens) /\ s \in Seq(Items)
    BY <1>2, HeadOf
  <2>2. ~TooLong(s) /\ (EndsChunk(s) => HasChunk(s))
    <3>1. FindsChunk(s, p, n, s[1].id)
      BY <1>2, <2>1, WholeChunk
    <3> QED BY <3>1 DEF FindsChunk
  <2> QED BY <1>2, <2>2
<1> QED BY <1>1, <1>2

\* t is s without its first chunk, which is padding or the packet with the smallest id.
TakenOff(s, t, lens) ==
    /\ Framed(t, lens) /\ Rising(t) /\ Ids(t) = Ids(s) \ {s[1].id}
    /\ EndsChunk(s) => EndsChunk(t)
    /\ s[Len(s)].last # TRUE => t # <<>> /\ t[Len(t)].last # TRUE
    /\ IsData(s) => LET id == s[1].id IN
          /\ id \in Ids(s) /\ (\A x \in Ids(t) : id < x) /\ id \in 1..Len(lens) /\ ChunkLength(s) = lens[id]
          /\ (IF ChunkLength(s) = 0 THEN id ELSE Content(s)[1].id) = id
    /\ ~IsData(s) => s[1].id = 0

LEMMA TakesOff ==
    ASSUME NEW s, NEW lens, Framed(s, lens), Rising(s), HasChunk(s), NEW t, t = AfterChunk(s)
    PROVE  TakenOff(s, t, lens)
<1>1. s # <<>>
  BY Waits
<1>2. PICK p, n : GoodPrefix(p, n) /\ LiesAt(s, 0, p, n, s[1].id) /\ Tells(p, n, s[1].id, lens) /\ s \in Seq(Items)
  BY <1>1, HeadOf
<1> DEFINE z == ChunkSize(p, n)
<1>3. /\ z \in Nat \ {0} /\ z <= Len(s) /\ s[z].last = TRUE /\ \A j \in 1..z - 1 : s[j].last # TRUE
      /\ AfterChunk(s) = SubSeq(s, z + 1, Len(s)) /\ ChunkLength(s) = n
      /\ (IsData(s) <=> p[1] >= 128) /\ (n # 0 => Content(s)[1].id = s[1].id)
  <2>1. FindsChunk(s, p, n, s[1].id)
    BY <1>1, <1>2, WholeChunk
  <2> QED BY <1>1, <1>2, <2>1 DEF FindsChunk
<1> HIDE DEF z
<1>4. z \in 1..Len(s) /\ t = SubSeq(s, z + 1, Len(s))
  <2>1. Len(s) \in Nat
    BY <1>2
  <2> QED BY <1>3, <2>1
<1>5. Framed(t, lens) /\ Shorter(s, t, z)
  BY <1>3, <1>4, TailFramed
<1>6. /\ Rising(t) /\ Ids(t) = Ids(s) \ {s[1].id}
      /\ s[1].id > 0 => s[1].id \in Ids(s) /\ \A x \in Ids(t) : s[1].id < x
  BY <1>3, <1>4, IdsTail
<1>7. ASSUME IsData(s)
      PROVE  /\ s[1].id \in 1..Len(lens) /\ ChunkLength(s) = lens[s[1].id] /\ s[1].id > 0
             /\ (IF ChunkLength(s) = 0 THEN s[1].id ELSE Content(s)[1].id) = s[1].id
  <2>1. s[1].id \in 1..Len(lens) /\ n = lens[s[1].id]
    BY <1>2, <1>3, <1>7 DEF Tells
  <2> QED BY <1>3, <2>1
<1>8. ~IsData(s) => s[1].id = 0
  BY <1>2, <1>3 DEF Tells
<1> QED BY <1>5, <1>6, <1>7, <1>8 DEF TakenOff, Shorter

\* Ids in a stream are those of packets written.
LEMMA IdsWritten ==
    ASSUME NEW s, NEW lens, Framed(s, lens)
    PROVE  Ids(s) \subseteq 1..Len(lens)
<1>1. ASSUME NEW i \in DataStarts(s) PROVE s[i].id \in 1..Len(lens)
  <2>1. i \in Starts(s) /\ s[i].id > 0
    BY DEF DataStarts
  <2>2. PICK p, n : Tells(p, n, s[i].id, lens)
    BY <2>1 DEF Framed, ChunkAt
  <2>3. s[i].id # 0
    BY <2>1
  <2> QED BY <2>2, <2>3 DEF Tells
<1> QED BY <1>1 DEF Ids

(***************************************************************************)
(* The invariant.  A packet is delivered, queued, in the reader's hand or   *)
(* still in the stream; in each place the ids rise, and those of an earlier *)
(* place are smaller than those of a later one.  A buffer is in one place.  *)
(***************************************************************************)
Packets == [len : Nat, id : Nat]
Readers == [pc : {"reading", "queueing", "copied", "ended"}, packet : Packets, buffers : SUBSET Buffers,
            error : {"none", "EOF", "unexpected EOF", "too long"}]

UpTyped ==
    /\ sent \in [Clients -> Seq(Lengths)] /\ stream \in [Clients -> Seq(Items)]
    /\ cut \in [Clients -> {"no", "boundary", "middle"}] /\ reader \in [Clients -> Readers]
    /\ content \in [Buffers -> Packets] /\ bufPool \subseteq Buffers
    /\ recvQueue \in Seq([buffer : Buffers, addr : Clients]) /\ Len(recvQueue) <= QueueSize
    /\ delivered \in Seq([packet : Packets, addr : Clients])
    /\ closed \in BOOLEAN /\ kcp \in {"idle", "selecting", "ended"}
    /\ padded \in [asked : Nat, left : Nat, by : SUBSET Clients, written : Nat]
    /\ padded.left <= padded.asked /\ padded.written = padded.asked - padded.left

StreamInv(c) ==
    /\ Framed(stream[c], sent[c]) /\ Rising(stream[c])
    /\ cut[c] # "middle" => EndsChunk(stream[c])
    /\ cut[c] = "middle" => stream[c] # <<>> /\ stream[c][Len(stream[c])].last # TRUE
    /\ reader[c].pc = "ended" => cut[c] # "no" /\ reader[c].error = IF cut[c] = "boundary" THEN "EOF" ELSE "unexpected EOF"

InQueue(b) == \E k \in 1..Len(recvQueue) : recvQueue[k].buffer = b
InHand(b) == \E c \in Clients : b \in reader[c].buffers
BufferInv ==
    /\ \A j, k \in 1..Len(recvQueue) : recvQueue[j].buffer = recvQueue[k].buffer => j = k
    /\ \A c \in Clients : /\ reader[c].pc = "copied" => \E b \in Buffers : reader[c].buffers = {b}
                          /\ reader[c].pc # "copied" => reader[c].buffers = {}
    /\ \A c, d \in Clients : c # d => reader[c].buffers \cap reader[d].buffers = {}
    /\ \A b \in Buffers : /\ b \in bufPool => ~InQueue(b) /\ ~InHand(b)
                          /\ b \notin bufPool => InQueue(b) \/ InHand(b)
                          /\ ~(InQueue(b) /\ InHand(b))

Queued(c) == {k \in 1..Len(recvQueue) : recvQueue[k].addr = c}
DelIds(c) == {delivered[k].packet.id : k \in Mine(c)}
QueIds(c) == {content[recvQueue[k].buffer].id : k \in Queued(c)}
HandIds(c) == (IF reader[c].pc = "queueing" THEN {reader[c].packet.id} ELSE {}) \cup {content[b].id : b \in reader[c].buffers}

\* A packet cut to the MTU, of those written.
PacketOf(lens, packet) == packet.id \in 1..Len(lens) /\ packet.len = Min({lens[packet.id], MTU})
Ordered(D, Q, H, S) ==
    /\ \A x \in D : \A y \in Q \cup H \cup S : x < y
    /\ \A x \in Q : \A y \in H \cup S : x < y
    /\ \A x \in H : \A y \in S : x < y
Gapless(A, n, all) == (\A x \in A : 1..x \subseteq A) /\ (all => 1..n \subseteq A)

DelInv(c) == \A k \in Mine(c) : /\ PacketOf(sent[c], delivered[k].packet)
                                /\ \A j \in Mine(c) : j < k => delivered[j].packet.id < delivered[k].packet.id
QueInv(c) == \A k \in Queued(c) :
    /\ PacketOf(sent[c], content[recvQueue[k].buffer])
    /\ \A j \in Queued(c) : j < k => content[recvQueue[j].buffer].id < content[recvQueue[k].buffer].id
HandInv(c) ==
    /\ reader[c].pc = "queueing" =>
          reader[c].packet.id \in 1..Len(sent[c]) /\ reader[c].packet.len = sent[c][reader[c].packet.id]
    /\ \A b \in reader[c].buffers : PacketOf(sent[c], content[b])
PipeInv(c) ==
    /\ DelInv(c) /\ QueInv(c) /\ HandInv(c)
    /\ Ordered(DelIds(c), QueIds(c), HandIds(c), Ids(stream[c]))
    /\ c \notin dropped => Gapless(DelIds(c) \cup QueIds(c) \cup HandIds(c) \cup Ids(stream[c]), Len(sent[c]), cut[c] = "no")

UpInv == UpTyped /\ BufferInv /\ \A c \in Clients : StreamInv(c) /\ PipeInv(c)

LEMMA UpSizes ==
    Lengths \subseteq Nat /\ MTU \in Nat /\ QueueSize \in Nat /\ Paddings \subseteq Nat
BY SMT, UpstreamConstants
LEMMA BudgetSizes == \A b \in Budgets : b \in Nat /\ b > 0 /\ b < 1048576
BY SMT, UpstreamConstants

LEMMA UpInitInv == UpInit => UpInv
<1> SUFFICES ASSUME UpInit PROVE UpInv
  OBVIOUS
<1>1. MTU \in Nat /\ QueueSize \in Nat
  BY UpSizes
<1>2. UpTyped
  <2>1. NoPacket \in Packets
    BY DEF NoPacket, Packets
  <2>2. [pc |-> "reading", packet |-> NoPacket, buffers |-> {}, error |-> "none"] \in Readers
    BY <2>1 DEF Readers
  <2>3. reader \in [Clients -> Readers] /\ content \in [Buffers -> Packets]
    BY <2>1, <2>2 DEF UpInit
  <2>4. padded \in [asked : Nat, left : Nat, by : SUBSET Clients, written : Nat] /\ padded.left <= padded.asked
        /\ padded.written = padded.asked - padded.left
    BY DEF UpInit
  <2>5. sent \in [Clients -> Seq(Lengths)] /\ stream \in [Clients -> Seq(Items)] /\ cut \in [Clients -> {"no", "boundary", "middle"}]
    BY DEF UpInit
  <2>6. /\ recvQueue \in Seq([buffer : Buffers, addr : Clients]) /\ Len(recvQueue) <= QueueSize
        /\ delivered \in Seq([packet : Packets, addr : Clients])
    BY <1>1 DEF UpInit
  <2>7. closed \in BOOLEAN /\ kcp \in {"idle", "selecting", "ended"} /\ bufPool \subseteq Buffers
    BY DEF UpInit
  <2> QED BY <2>3, <2>4, <2>5, <2>6, <2>7 DEF UpTyped
<1>3. \A c \in Clients : reader[c].pc = "reading" /\ reader[c].buffers = {} /\ stream[c] = <<>> /\ sent[c] = <<>> /\ cut[c] = "no"
  BY DEF UpInit
<1>4. BufferInv
  BY <1>3 DEF BufferInv, InQueue, InHand, UpInit
<1>5. ASSUME NEW c \in Clients PROVE StreamInv(c)
  <2>1. Framed(<<>>, <<>>) /\ EndsChunk(<<>>)
    BY DEF Framed, Starts, EndsChunk
  <2> QED BY <1>3, <2>1, IdsEmpty DEF StreamInv
<1>6. ASSUME NEW c \in Clients PROVE PipeInv(c)
  <2>1. Mine(c) = {} /\ Queued(c) = {} /\ HandIds(c) = {}
    BY <1>3 DEF Mine, Queued, HandIds, UpInit
  <2>2. DelIds(c) = {} /\ QueIds(c) = {} /\ Ids(stream[c]) = {} /\ Len(sent[c]) = 0
    BY <1>3, <2>1, IdsEmpty DEF DelIds, QueIds
  <2>3. DelInv(c) /\ QueInv(c) /\ HandInv(c)
    BY <1>3, <2>1 DEF DelInv, QueInv, HandInv
  <2> QED BY <2>1, <2>2, <2>3 DEF PipeInv, Ordered, Gapless
<1> QED BY <1>2, <1>4, <1>5, <1>6 DEF UpInv

(* A client of which nothing changes, or only that its WebSocket was cut,   *)
(* that a chunk of padding came or went, or that its reader ended.          *)
LEMMA BuffersKept ==
    ASSUME BufferInv, recvQueue' = recvQueue, bufPool' = bufPool,
           \A c \in Clients : reader'[c].buffers = reader[c].buffers /\ (reader'[c].pc = "copied" <=> reader[c].pc = "copied")
    PROVE  BufferInv'
BY DEF BufferInv, InQueue, InHand

LEMMA PipeKept ==
    ASSUME NEW c \in Clients, PipeInv(c), sent'[c] = sent[c], delivered' = delivered, recvQueue' = recvQueue,
           \A k \in Queued(c) : content'[recvQueue[k].buffer] = content[recvQueue[k].buffer],
           \A b \in reader[c].buffers : content'[b] = content[b],
           reader'[c].packet = reader[c].packet, reader'[c].buffers = reader[c].buffers,
           reader'[c].pc = "queueing" <=> reader[c].pc = "queueing",
           Ids(stream'[c]) = Ids(stream[c]), cut'[c] = "no" => cut[c] = "no", c \in dropped => c \in dropped'
    PROVE  PipeInv(c)'
<1>1. Mine(c)' = Mine(c) /\ Queued(c)' = Queued(c)
  BY DEF Mine, Queued
<1>2. DelIds(c)' = DelIds(c)
  BY <1>1 DEF DelIds
<1>3. QueIds(c)' = QueIds(c)
  BY <1>1 DEF QueIds
<1>4. HandIds(c)' = HandIds(c)
  BY DEF HandIds
<1>5. DelInv(c)'
  BY <1>1 DEF DelInv, PipeInv
<1>6. QueInv(c)'
  BY <1>1 DEF QueInv, PipeInv
<1>7. HandInv(c)'
  BY DEF HandInv, PipeInv
<1> QED BY <1>2, <1>3, <1>4, <1>5, <1>6, <1>7 DEF PipeInv, Gapless

LEMMA StreamKept ==
    ASSUME NEW c \in Clients, StreamInv(c), sent'[c] = sent[c], stream'[c] = stream[c], cut'[c] = cut[c],
           reader'[c].pc = "ended" => reader[c].pc = "ended" /\ reader'[c].error = reader[c].error
    PROVE  StreamInv(c)'
BY DEF StreamInv

(* Every id is that of a packet written.                                    *)
LEMMA PipeRange ==
    ASSUME NEW c \in Clients, PipeInv(c), StreamInv(c)
    PROVE  DelIds(c) \cup QueIds(c) \cup HandIds(c) \cup Ids(stream[c]) \subseteq 1..Len(sent[c])
<1>1. DelIds(c) \subseteq 1..Len(sent[c])
  BY DEF PipeInv, DelInv, DelIds, PacketOf
<1>2. QueIds(c) \subseteq 1..Len(sent[c])
  BY DEF PipeInv, QueInv, QueIds, PacketOf
<1>3. HandIds(c) \subseteq 1..Len(sent[c])
  BY DEF PipeInv, HandInv, HandIds, PacketOf
<1>4. Ids(stream[c]) \subseteq 1..Len(sent[c])
  BY IdsWritten DEF StreamInv
<1> QED BY <1>1, <1>2, <1>3, <1>4

(* What the client does to its stream.                                      *)
Written(s, t, more, id) == Framed(t, more) /\ EndsChunk(t) /\ Rising(t) /\ Ids(t) = Ids(s) \cup (IF id > 0 THEN {id} ELSE {})

LEMMA WritesChunk ==
    ASSUME NEW s, NEW lens, Framed(s, lens), EndsChunk(s), Rising(s), NEW p, NEW n, GoodPrefix(p, n), NEW id \in Nat,
           NEW more, Tells(p, n, id, more), Len(lens) \in Nat, Len(more) \in Nat,
           \A i \in 1..Len(lens) : i \in 1..Len(more) /\ more[i] = lens[i],
           id > 0 => \A x \in Ids(s) : x < id,
           NEW t, t = s \o Chunk(p, n, id)
    PROVE  Written(s, t, more, id)
<1>1. s \in Seq(Items)
  BY DEF Framed
<1>2. Longer(s, t, p, n, id)
  BY <1>1, Appended
<1>3. Framed(t, more) /\ EndsChunk(t)
  BY AppendedFramed
<1>4. Rising(t) /\ Ids(t) = Ids(s) \cup (IF id > 0 THEN {id} ELSE {})
  BY <1>1, <1>2, IdsAppended
<1> QED BY <1>3, <1>4 DEF Written

LEMMA WriteToInv ==
    ASSUME UpInv, NEW c \in Clients, NEW len \in Lengths, WriteTo(c, len)
    PROVE  UpInv'
<1> DEFINE id == Len(sent[c]) + 1
           p == dataPrefixForLength(len)
           more == Append(sent[c], len)
<1>1. /\ cut[c] = "no" /\ WriteData(len, id) # <<>>
      /\ stream' = [stream EXCEPT ![c] = @ \o WriteData(len, id)] /\ sent' = [sent EXCEPT ![c] = more]
      /\ UNCHANGED <<cut, reader, content, bufPool, recvQueue, closed, kcp, delivered, dropped, padded>>
  BY DEF WriteTo
<1>2. UpTyped /\ BufferInv /\ \A d \in Clients : StreamInv(d) /\ PipeInv(d)
  BY DEF UpInv
<1>3. len \in Nat /\ p # <<>> /\ WriteData(len, id) = Chunk(p, len, id)
  BY <1>1, UpSizes DEF WriteData
<1>4. GoodPrefix(p, len) /\ p[1] >= 128
  BY <1>3, DataPrefixIs
<1> HIDE DEF p
<1>5. /\ sent[c] \in Seq(Lengths) /\ stream[c] \in Seq(Items) /\ Len(sent[c]) \in Nat
      /\ sent \in [Clients -> Seq(Lengths)] /\ stream \in [Clients -> Seq(Items)]
  BY <1>2 DEF UpTyped
<1>6. /\ more \in Seq(Lengths) /\ Len(more) = id /\ id \in Nat /\ id > 0 /\ more[id] = len
      /\ \A i \in 1..Len(sent[c]) : i \in 1..Len(more) /\ more[i] = sent[c][i]
  BY <1>5
<1>7. stream'[c] = stream[c] \o Chunk(p, len, id) /\ sent'[c] = more
  BY <1>1, <1>3, <1>5
<1> HIDE DEF more, id
<1>8. Tells(p, len, id, more)
  <2>1. id \in 1..Len(more)
    BY <1>6
  <2> QED BY <1>4, <1>6, <2>1 DEF Tells
<1>9. Framed(stream[c], sent[c]) /\ EndsChunk(stream[c]) /\ Rising(stream[c])
  BY <1>1, <1>2 DEF StreamInv
<1> DEFINE A == DelIds(c) \cup QueIds(c) \cup HandIds(c)
           S == Ids(stream[c])
<1>10. A \cup S \subseteq 1..Len(sent[c])
  BY <1>2, PipeRange
<1> HIDE DEF A, S
<1>11. \A x \in A \cup S : x < id
  BY <1>5, <1>10 DEF id
<1>12. Framed(stream'[c], more) /\ EndsChunk(stream'[c]) /\ Rising(stream'[c]) /\ Ids(stream'[c]) = S \cup {id}
  <2>1. Len(more) \in Nat
    BY <1>6
  <2>2. \A x \in Ids(stream[c]) : x < id
    BY <1>11 DEF S
  <2>3. Written(stream[c], stream'[c], more, id)
    BY <1>4, <1>5, <1>6, <1>7, <1>8, <1>9, <2>1, <2>2, WritesChunk
  <2> QED BY <1>6, <2>3 DEF Written, S
<1>13. UpTyped'
  <2>1. stream'[c] \in Seq(Items)
    BY <1>12 DEF Framed
  <2>2. stream' = [stream EXCEPT ![c] = stream'[c]]
    BY <1>1, <1>5
  <2>3. stream' \in [Clients -> Seq(Items)]
    BY <1>5, <2>1, <2>2
  <2>4. sent' \in [Clients -> Seq(Lengths)]
    BY <1>1, <1>5, <1>6
  <2> QED BY <1>1, <1>2, <2>3, <2>4 DEF UpTyped
<1>14. BufferInv'
  BY <1>1, <1>2, BuffersKept
<1>15. ASSUME NEW d \in Clients PROVE StreamInv(d)'
  <2>1. CASE d = c
    BY <1>1, <1>2, <1>7, <1>12, <2>1 DEF StreamInv
  <2>2. CASE d # c
    <3>1. sent'[d] = sent[d] /\ stream'[d] = stream[d]
      BY <1>1, <1>5, <2>2
    <3> QED BY <1>1, <1>2, <3>1, StreamKept
  <2> QED BY <2>1, <2>2
<1>16. ASSUME NEW d \in Clients PROVE PipeInv(d)'
  <2>1. CASE d # c
    <3>1. sent'[d] = sent[d] /\ stream'[d] = stream[d]
      BY <1>1, <1>5, <2>1
    <3> QED BY <1>1, <1>2, <3>1, PipeKept
  <2>2. CASE d = c
    <3>1. Mine(c)' = Mine(c) /\ Queued(c)' = Queued(c) /\ HandIds(c)' = HandIds(c)
      BY <1>1 DEF Mine, Queued, HandIds
    <3>2. DelIds(c)' = DelIds(c) /\ QueIds(c)' = QueIds(c)
      BY <1>1, <3>1 DEF DelIds, QueIds
    <3>3. ASSUME NEW packet, PacketOf(sent[c], packet) PROVE PacketOf(sent'[c], packet)
      BY <1>6, <1>7, <3>3 DEF PacketOf
    <3>4. PipeInv(c)
      BY <1>2
    <3>5. DelInv(c)'
      BY <1>1, <3>1, <3>3, <3>4 DEF DelInv, PipeInv
    <3>6. QueInv(c)'
      BY <1>1, <3>1, <3>3, <3>4 DEF QueInv, PipeInv
    <3>7. HandInv(c)'
      BY <1>1, <1>6, <1>7, <3>3, <3>4 DEF HandInv, PipeInv
    <3>8. Ordered(DelIds(c), QueIds(c), HandIds(c), S \cup {id})
      <4>1. Ordered(DelIds(c), QueIds(c), HandIds(c), S)
        BY <3>4 DEF PipeInv, S
      <4>2. \A x \in DelIds(c) \cup QueIds(c) \cup HandIds(c) : x < id
        BY <1>11 DEF A
      <4> QED BY <4>1, <4>2 DEF Ordered
    <3>9. c \notin dropped => Gapless(A \cup (S \cup {id}), Len(more), TRUE)
      <4> SUFFICES ASSUME c \notin dropped PROVE Gapless(A \cup (S \cup {id}), id, TRUE)
        BY <1>6
      <4>1. Gapless(A \cup S, Len(sent[c]), TRUE)
        BY <1>1, <3>4 DEF PipeInv, A, S
      <4>2. 1..id = 1..Len(sent[c]) \cup {id}
        BY <1>5 DEF id
      <4> QED BY <4>1, <4>2 DEF Gapless
    <3> QED BY <1>1, <1>7, <1>12, <2>2, <3>2, <3>1, <3>5, <3>6, <3>7, <3>8, <3>9 DEF PipeInv, A
  <2> QED BY <2>1, <2>2
<1> QED BY <1>13, <1>14, <1>15, <1>16 DEF UpInv

(* A step that changes one stream, or padded, and no packet in it.          *)
LEMMA StreamStep ==
    ASSUME UpInv, NEW c \in Clients, NEW t, Framed(t, sent[c]),
           stream' = [stream EXCEPT ![c] = t], cut' = cut, Ids(t) = Ids(stream[c]), Rising(t),
           EndsChunk(stream[c]) => EndsChunk(t), cut[c] = "middle" => t # <<>> /\ t[Len(t)].last # TRUE,
           UNCHANGED <<sent, reader, content, bufPool, recvQueue, closed, kcp, delivered, dropped>>,
           /\ padded' \in [asked : Nat, left : Nat, by : SUBSET Clients, written : Nat]
           /\ padded'.left <= padded'.asked /\ padded'.written = padded'.asked - padded'.left
    PROVE  UpInv'
<1>1. UpTyped /\ BufferInv /\ \A d \in Clients : StreamInv(d) /\ PipeInv(d)
  BY DEF UpInv
<1>2. stream \in [Clients -> Seq(Items)] /\ t \in Seq(Items)
  BY <1>1 DEF UpTyped, Framed
<1>3. stream'[c] = t /\ \A d \in Clients : d # c => stream'[d] = stream[d]
  BY <1>2
<1>4. UpTyped'
  <2>1. stream' \in [Clients -> Seq(Items)]
    BY <1>2
  <2> QED BY <1>1, <2>1 DEF UpTyped
<1>5. BufferInv'
  BY <1>1, BuffersKept
<1>6. ASSUME NEW d \in Clients PROVE StreamInv(d)'
  <2>1. CASE d = c
    <3>1. StreamInv(c)
      BY <1>1
    <3>2. cut[c] # "middle" => EndsChunk(t)
      BY <3>1 DEF StreamInv
    <3> QED BY <1>3, <2>1, <3>1, <3>2 DEF StreamInv
  <2>2. CASE d # c
    BY <1>1, <1>3, <2>2, StreamKept
  <2> QED BY <2>1, <2>2
<1>7. ASSUME NEW d \in Clients PROVE PipeInv(d)'
  <2>1. Ids(stream'[d]) = Ids(stream[d])
    BY <1>3
  <2> QED BY <1>1, <2>1, PipeKept
<1> QED BY <1>4, <1>5, <1>6, <1>7 DEF UpInv

LEMMA PadsChunkInv ==
    ASSUME UpInv, NEW c \in Clients, PadsChunk(c)
    PROVE  UpInv'
<1> DEFINE q == Min({1024, padded.left})
           p == PaddingPrefix(q)
           n == q - Len(p)
           id == 0
           t == stream[c] \o Chunk(p, n, id)
<1>1. UpTyped /\ StreamInv(c)
  BY DEF UpInv
<1>2. /\ padded.left > 0 /\ cut[c] = "no" /\ stream' = [stream EXCEPT ![c] = @ \o PaddingChunk(q)]
      /\ padded' = [padded EXCEPT !.left = @ - q, !.written = @ + Size(PaddingChunk(q))]
      /\ UNCHANGED <<sent, cut, reader, content, bufPool, recvQueue, closed, kcp, delivered, dropped>>
  BY DEF PadsChunk, Padding
<1>3. padded.left \in Nat /\ padded \in [asked : Nat, left : Nat, by : SUBSET Clients, written : Nat]
  BY <1>1 DEF UpTyped
<1>4. q = IF 1024 <= padded.left THEN 1024 ELSE padded.left
  BY <1>3, MinOfTwo
<1> HIDE DEF q
<1>5. q \in Nat /\ q > 0 /\ q <= 1024 /\ q <= padded.left
  <2> DEFINE l == padded.left
  <2>1. l \in Nat /\ l > 0 /\ q = IF 1024 <= l THEN 1024 ELSE l
    BY <1>2, <1>3, <1>4
  <2> HIDE DEF l
  <2>2. q \in Nat /\ q > 0 /\ q <= 1024 /\ q <= l
    BY SMT, <2>1
  <2> QED BY <2>2 DEF l
<1>6. GoodPrefix(p, n) /\ p[1] < 128 /\ Len(p) \in {1, 2}
  BY SMT, <1>5, PaddingPrefixIs
<1>7. Size(PaddingChunk(q)) = q
  BY <1>5, PaddingSize
<1>8. PaddingChunk(q) = Chunk(p, n, id)
  BY DEF PaddingChunk
<1> HIDE DEF p, n
<1>9. p[1] \in Nat
  <2>1. p \in Seq(Nat) /\ 1 \in 1..Len(p)
    BY <1>6 DEF GoodPrefix
  <2> QED BY <2>1
<1>10. Tells(p, n, id, sent[c])
  BY <1>6, <1>9 DEF Tells
<1>11. id \in Nat /\ ~(id > 0)
  OBVIOUS
<1> HIDE DEF id
<1>12. Framed(stream[c], sent[c]) /\ EndsChunk(stream[c]) /\ Rising(stream[c])
  BY <1>1, <1>2 DEF StreamInv
<1>13. Len(sent[c]) \in Nat
  <2>1. sent[c] \in Seq(Lengths)
    BY <1>1 DEF UpTyped
  <2> QED BY <2>1
<1>14. Written(stream[c], t, sent[c], id)
  BY ZenonT(30), <1>6, <1>10, <1>11, <1>12, <1>13, WritesChunk
<1>15. stream' = [stream EXCEPT ![c] = t]
  BY <1>2, <1>8
<1> HIDE DEF t
<1>16. Framed(t, sent[c]) /\ EndsChunk(t) /\ Rising(t) /\ Ids(t) = Ids(stream[c])
  BY <1>11, <1>14 DEF Written
<1>17. /\ padded' \in [asked : Nat, left : Nat, by : SUBSET Clients, written : Nat]
       /\ padded'.left <= padded'.asked /\ padded'.written = padded'.asked - padded'.left
  <2>1. padded' = [asked |-> padded.asked, left |-> padded.left - q, by |-> padded.by, written |-> padded.written + q]
    BY <1>2, <1>3, <1>7
  <2>2. padded.left <= padded.asked /\ padded.written = padded.asked - padded.left
    BY <1>1 DEF UpTyped
  <2>3. padded.left - q \in Nat /\ padded.asked \in Nat /\ padded.written + q \in Nat /\ padded.by \in SUBSET Clients
    BY <1>3, <1>5
  <2>4. padded.left - q <= padded.asked /\ padded.written + q = padded.asked - (padded.left - q)
    BY <1>3, <1>5, <2>2
  <2> QED BY <2>1, <2>3, <2>4
<1> QED BY <1>2, <1>15, <1>16, <1>17, StreamStep

LEMMA SkipsPaddingInv ==
    ASSUME UpInv, NEW c \in Clients, SkipsPadding(c)
    PROVE  UpInv'
<1> DEFINE t == AfterChunk(stream[c])
<1>1. UpTyped /\ StreamInv(c)
  BY DEF UpInv
<1>2. /\ HasChunk(stream[c]) /\ ~IsData(stream[c]) /\ stream' = [stream EXCEPT ![c] = t]
      /\ UNCHANGED <<sent, cut, reader, content, bufPool, recvQueue, closed, kcp, delivered, dropped, padded>>
  BY DEF SkipsPadding
<1>3. Framed(stream[c], sent[c]) /\ Rising(stream[c])
  BY <1>1 DEF StreamInv
<1>4. TakenOff(stream[c], t, sent[c])
  BY <1>2, <1>3, TakesOff
<1> HIDE DEF t
<1>5. Ids(t) = Ids(stream[c])
  <2>1. Ids(t) = Ids(stream[c]) \ {0}
    BY <1>2, <1>4 DEF TakenOff
  <2>2. 0 \notin Ids(stream[c])
    BY DEF Ids, DataStarts
  <2> QED BY <2>1, <2>2
<1>6. /\ Framed(t, sent[c]) /\ Rising(t) /\ (EndsChunk(stream[c]) => EndsChunk(t))
      /\ cut[c] = "middle" => t # <<>> /\ t[Len(t)].last # TRUE
  BY <1>1, <1>4 DEF TakenOff, StreamInv
<1>7. /\ padded' \in [asked : Nat, left : Nat, by : SUBSET Clients, written : Nat]
      /\ padded'.left <= padded'.asked /\ padded'.written = padded'.asked - padded'.left
  BY <1>1, <1>2 DEF UpTyped
<1> QED BY <1>2, <1>5, <1>6, <1>7, StreamStep

LEMMA CutInv ==
    ASSUME UpInv, NEW c \in Clients, Cut(c)
    PROVE  UpInv'
<1>1. UpTyped /\ BufferInv /\ \A d \in Clients : StreamInv(d) /\ PipeInv(d)
  BY DEF UpInv
<1>2. PICK t \in Remains(stream[c]) :
         /\ stream' = [stream EXCEPT ![c] = t]
         /\ cut' = [cut EXCEPT ![c] = IF t = <<>> \/ Last(t).last THEN "boundary" ELSE "middle"]
  BY DEF Cut
<1>3. cut[c] = "no" /\ UNCHANGED <<sent, reader, content, bufPool, recvQueue, closed, kcp, delivered, dropped, padded>>
  BY DEF Cut
<1>4. stream \in [Clients -> Seq(Items)] /\ cut \in [Clients -> {"no", "boundary", "middle"}] /\ stream[c] \in Seq(Items)
  BY <1>1 DEF UpTyped
<1>5. Framed(stream[c], sent[c]) /\ Rising(stream[c]) /\ EndsChunk(stream[c]) /\ reader[c].pc # "ended"
  BY <1>1, <1>3 DEF StreamInv
<1>6. /\ Framed(t, sent[c]) /\ Len(t) <= Len(stream[c])
      /\ \A i \in 1..Len(t) : t[i].id = stream[c][i].id /\ (i \in Starts(t) <=> i \in Starts(stream[c]))
  BY <1>5, CutFramed
<1>7. t \in Seq(Items) /\ Len(t) \in Nat
  <2>1. t \in Seq(Items)
    BY <1>6 DEF Framed
  <2> QED BY <2>1
<1>8. Rising(t) /\ Ids(t) \subseteq Ids(stream[c]) /\ \A x \in Ids(t), y \in Ids(stream[c]) : y < x => y \in Ids(t)
  BY <1>4, <1>5, <1>6, <1>7, IdsCut
<1> DEFINE where == IF t = <<>> \/ Last(t).last THEN "boundary" ELSE "middle"
<1>9. where \in {"boundary", "middle"}
  OBVIOUS
<1>10. (where # "middle" => EndsChunk(t)) /\ (where = "middle" => t # <<>> /\ t[Len(t)].last # TRUE)
  <2>1. CASE t = <<>>
    BY <2>1 DEF EndsChunk
  <2>2. CASE t # <<>>
    <3>1. t[Len(t)] \in Items
      BY <1>7, <2>2
    <3>2. t[Len(t)].last \in BOOLEAN
      BY <3>1 DEF Items
    <3>3. where = IF t[Len(t)].last THEN "boundary" ELSE "middle"
      BY <2>2 DEF Last
    <3>4. CASE t[Len(t)].last = TRUE
      BY <2>2, <3>3, <3>4 DEF EndsChunk
    <3>5. CASE t[Len(t)].last = FALSE
      BY <2>2, <3>3, <3>5 DEF EndsChunk
    <3> QED BY <3>2, <3>4, <3>5
  <2> QED BY <2>1, <2>2
<1> HIDE DEF where
<1>11. cut' = [cut EXCEPT ![c] = where]
  BY <1>2 DEF where
<1>12. UpTyped'
  <2>1. stream' \in [Clients -> Seq(Items)] /\ cut' \in [Clients -> {"no", "boundary", "middle"}]
    BY <1>2, <1>4, <1>7, <1>9, <1>11
  <2> QED BY <1>1, <1>3, <2>1 DEF UpTyped
<1>13. BufferInv'
  BY <1>1, <1>3, BuffersKept
<1>14. /\ stream'[c] = t /\ cut'[c] = where /\ cut'[c] # "no"
       /\ \A d \in Clients : d # c => stream'[d] = stream[d] /\ cut'[d] = cut[d]
  BY <1>2, <1>4, <1>9, <1>11
<1>15. ASSUME NEW d \in Clients PROVE StreamInv(d)'
  <2>1. CASE d = c
    BY <1>3, <1>5, <1>6, <1>8, <1>10, <1>14, <2>1 DEF StreamInv
  <2>2. CASE d # c
    BY <1>1, <1>3, <1>14, <2>2, StreamKept
  <2> QED BY <2>1, <2>2
<1>16. ASSUME NEW d \in Clients PROVE PipeInv(d)'
  <2>1. CASE d # c
    BY <1>1, <1>3, <1>14, <2>1, PipeKept
  <2>2. CASE d = c
    <3>1. Mine(c)' = Mine(c) /\ Queued(c)' = Queued(c) /\ HandIds(c)' = HandIds(c)
      BY <1>3 DEF Mine, Queued, HandIds
    <3>2. DelIds(c)' = DelIds(c) /\ QueIds(c)' = QueIds(c)
      BY <1>3, <3>1 DEF DelIds, QueIds
    <3>3. PipeInv(c)
      BY <1>1
    <3>4. DelInv(c)' /\ QueInv(c)'
      BY <1>3, <3>1, <3>3 DEF DelInv, QueInv, PipeInv
    <3>5. HandInv(c)'
      BY <1>3, <3>3 DEF HandInv, PipeInv
    <3> DEFINE A == DelIds(c) \cup QueIds(c) \cup HandIds(c)
               S == Ids(stream[c])
    <3>6. Ordered(DelIds(c), QueIds(c), HandIds(c), S)
      BY <3>3 DEF PipeInv
    <3>7. Ordered(DelIds(c), QueIds(c), HandIds(c), Ids(t)) /\ \A x \in A : \A y \in S : x < y
      BY <1>8, <3>6 DEF Ordered
    <3>8. A \cup S \subseteq Nat
      <4>1. A \cup S \subseteq 1..Len(sent[c])
        BY <1>1, PipeRange
      <4> QED BY <4>1
    <3>9. c \notin dropped => \A x \in A \cup S : 1..x \subseteq A \cup S
      BY <3>3 DEF PipeInv, Gapless
    <3>10. Ids(t) \subseteq S /\ \A x \in Ids(t), y \in S : y < x => y \in Ids(t)
      BY <1>8
    <3> HIDE DEF A, S
    <3>11. ASSUME c \notin dropped, NEW x \in A \cup Ids(t), NEW m \in 1..x PROVE m \in A \cup Ids(t)
      <4>1. m \in A \cup S /\ x \in Nat /\ m <= x
        BY <3>8, <3>9, <3>10, <3>11
      <4>2. CASE x \in A
        BY <3>7, <3>8, <4>1, <4>2
      <4>3. CASE x \in Ids(t)
        BY <3>8, <3>10, <4>1, <4>3
      <4> QED BY <4>2, <4>3
    <3>12. c \notin dropped => Gapless(A \cup Ids(t), Len(sent[c]), FALSE)
      BY <3>11 DEF Gapless
    <3> QED BY <1>3, <1>14, <2>2, <3>1, <3>2, <3>4, <3>5, <3>7, <3>12 DEF PipeInv, A
  <2> QED BY <2>1, <2>2
<1> QED BY <1>12, <1>13, <1>15, <1>16 DEF UpInv

(* The read loop.                                                           *)
LEMMA ReadFailsInv ==
    ASSUME UpInv, NEW c \in Clients, ReadFails(c)
    PROVE  UpInv'
<1> DEFINE e == IF TooLong(stream[c]) THEN "too long" ELSE ReadError(stream[c])
           r == [reader[c] EXCEPT !.pc = "ended", !.error = e]
<1>1. UpTyped /\ BufferInv /\ \A d \in Clients : StreamInv(d) /\ PipeInv(d)
  BY DEF UpInv
<1>2. /\ reader[c].pc = "reading" /\ ~HasChunk(stream[c]) /\ (cut[c] # "no" \/ TooLong(stream[c]))
      /\ reader' = [reader EXCEPT ![c].pc = "ended", ![c].error = e]
      /\ UNCHANGED <<sent, stream, cut, content, bufPool, recvQueue, closed, kcp, delivered, dropped, padded>>
  BY DEF ReadFails
<1>3. StreamInv(c) /\ reader \in [Clients -> Readers] /\ reader[c] \in Readers
  BY <1>1 DEF UpTyped
<1>4. ~TooLong(stream[c]) /\ (stream[c] # <<>> /\ EndsChunk(stream[c]) => HasChunk(stream[c]))
  <2>1. Framed(stream[c], sent[c])
    BY <1>3 DEF StreamInv
  <2> QED BY <2>1, Waits
<1>5. cut[c] # "no" /\ e = IF cut[c] = "boundary" THEN "EOF" ELSE "unexpected EOF"
  <2>1. cut[c] # "no" /\ cut[c] \in {"no", "boundary", "middle"}
    BY <1>1, <1>2, <1>4 DEF UpTyped
  <2>2. e = IF stream[c] = <<>> THEN "EOF" ELSE "unexpected EOF"
    BY <1>4 DEF ReadError
  <2>3. CASE cut[c] = "boundary"
    <3>1. stream[c] = <<>>
      BY <1>2, <1>3, <1>4, <2>3 DEF StreamInv
    <3> QED BY <2>1, <2>2, <2>3, <3>1
  <2>4. CASE cut[c] = "middle"
    <3>1. stream[c] # <<>>
      BY <1>3, <2>4 DEF StreamInv
    <3> QED BY <2>1, <2>2, <2>4, <3>1
  <2> QED BY <2>1, <2>3, <2>4
<1> HIDE DEF e
<1>6. e \in {"none", "EOF", "unexpected EOF", "too long"}
  BY <1>5
<1>7. r \in Readers
  BY <1>3, <1>6 DEF Readers
<1>8. reader' = [reader EXCEPT ![c] = r]
  BY <1>2, <1>3
<1>9. r.pc = "ended" /\ r.packet = reader[c].packet /\ r.buffers = reader[c].buffers /\ r.error = e
  BY <1>3 DEF Readers
<1> HIDE DEF r
<1>10. reader'[c] = r /\ \A d \in Clients : d # c => reader'[d] = reader[d]
  BY <1>3, <1>8
<1>11. reader' \in [Clients -> Readers]
  BY <1>3, <1>7, <1>8
<1>12. UpTyped'
  BY <1>1, <1>2, <1>11 DEF UpTyped
<1>13. \A d \in Clients : /\ reader'[d].buffers = reader[d].buffers /\ reader'[d].packet = reader[d].packet
                          /\ (reader'[d].pc = "copied" <=> reader[d].pc = "copied")
                          /\ (reader'[d].pc = "queueing" <=> reader[d].pc = "queueing")
  BY <1>2, <1>9, <1>10
<1>14. BufferInv'
  BY <1>1, <1>2, <1>13, BuffersKept
<1>15. ASSUME NEW d \in Clients PROVE StreamInv(d)'
  <2>1. CASE d = c
    BY <1>2, <1>3, <1>5, <1>9, <1>10, <2>1 DEF StreamInv
  <2>2. CASE d # c
    BY <1>1, <1>2, <1>10, <2>2, StreamKept
  <2> QED BY <2>1, <2>2
<1>16. ASSUME NEW d \in Clients PROVE PipeInv(d)'
  BY <1>1, <1>2, <1>13, PipeKept
<1> QED BY <1>12, <1>14, <1>15, <1>16 DEF UpInv

LEMMA ReadsDataInv ==
    ASSUME UpInv, NEW c \in Clients, ReadsData(c)
    PROVE  UpInv'
<1> DEFINE n == ChunkLength(stream[c])
           t == AfterChunk(stream[c])
           i == IF n = 0 THEN stream[c][1].id ELSE Content(stream[c])[1].id
           id == stream[c][1].id
           packet == [len |-> n, id |-> id]
           r == [reader[c] EXCEPT !.pc = "queueing", !.packet = packet]
<1>1. UpTyped /\ BufferInv /\ \A d \in Clients : StreamInv(d) /\ PipeInv(d)
  BY DEF UpInv
<1>2. /\ reader[c].pc = "reading" /\ HasChunk(stream[c]) /\ IsData(stream[c]) /\ stream' = [stream EXCEPT ![c] = t]
      /\ reader' = [reader EXCEPT ![c].pc = "queueing", ![c].packet = [len |-> n, id |-> i]]
      /\ UNCHANGED <<sent, cut, content, bufPool, recvQueue, closed, kcp, delivered, dropped, padded>>
  BY DEF ReadsData
<1>3. /\ StreamInv(c) /\ PipeInv(c) /\ reader \in [Clients -> Readers] /\ reader[c] \in Readers
      /\ stream \in [Clients -> Seq(Items)] /\ sent[c] \in Seq(Lengths)
  BY <1>1 DEF UpTyped
<1>4. Framed(stream[c], sent[c]) /\ Rising(stream[c])
  BY <1>3 DEF StreamInv
<1>5. TakenOff(stream[c], t, sent[c])
  BY <1>2, <1>4, TakesOff
<1> DEFINE S == Ids(stream[c])
<1>6. /\ Framed(t, sent[c]) /\ Rising(t) /\ Ids(t) = S \ {id} /\ (EndsChunk(stream[c]) => EndsChunk(t))
      /\ stream[c][Len(stream[c])].last # TRUE => t # <<>> /\ t[Len(t)].last # TRUE
  BY <1>5 DEF TakenOff
<1>7. id \in S /\ (\A x \in Ids(t) : id < x) /\ id \in 1..Len(sent[c]) /\ n = sent[c][id] /\ i = id
  BY <1>2, <1>5 DEF TakenOff
<1>8. reader[c].buffers = {}
  BY <1>1, <1>2 DEF BufferInv
<1> HIDE DEF n, t, i, id, S
<1>9. n \in Nat /\ id \in Nat
  <2>1. sent[c][id] \in Lengths
    BY <1>3, <1>7
  <2>2. id \in Nat
    BY <1>7
  <2>3. sent[c][id] \in Nat
    BY <2>1, UpSizes
  <2> QED BY <1>7, <2>2, <2>3
<1>10. packet \in Packets /\ packet.id = id /\ packet.len = n
  BY <1>9 DEF Packets
<1>11. reader' = [reader EXCEPT ![c] = r]
  BY <1>2, <1>3, <1>7
<1> HIDE DEF packet
<1>12. r \in Readers
  BY <1>3, <1>10 DEF Readers
<1>13. r.pc = "queueing" /\ r.packet.id = id /\ r.packet.len = n /\ r.buffers = reader[c].buffers
  BY <1>3, <1>10 DEF Readers
<1> HIDE DEF r
<1>14. /\ reader'[c] = r /\ \A d \in Clients : d # c => reader'[d] = reader[d]
       /\ stream'[c] = t /\ \A d \in Clients : d # c => stream'[d] = stream[d]
  BY <1>2, <1>3, <1>11
<1>15. UpTyped'
  <2>1. reader' \in [Clients -> Readers]
    BY <1>3, <1>12, <1>11
  <2>2. stream' \in [Clients -> Seq(Items)]
    BY <1>2, <1>3, <1>6 DEF Framed
  <2> QED BY <1>1, <1>2, <2>1, <2>2 DEF UpTyped
<1>16. BufferInv'
  <2>1. \A d \in Clients : reader'[d].buffers = reader[d].buffers /\ (reader'[d].pc = "copied" <=> reader[d].pc = "copied")
    BY <1>2, <1>13, <1>14
  <2> QED BY <1>1, <1>2, <2>1, BuffersKept
<1>17. ASSUME NEW d \in Clients PROVE StreamInv(d)'
  <2>1. CASE d = c
    BY <1>2, <1>3, <1>6, <1>13, <1>14, <2>1 DEF StreamInv
  <2>2. CASE d # c
    BY <1>1, <1>2, <1>14, <2>2, StreamKept
  <2> QED BY <2>1, <2>2
<1>18. ASSUME NEW d \in Clients PROVE PipeInv(d)'
  <2>1. CASE d # c
    BY <1>1, <1>2, <1>14, <2>1, PipeKept
  <2>2. CASE d = c
    <3>1. Mine(c)' = Mine(c) /\ Queued(c)' = Queued(c) /\ HandIds(c)' = {id} /\ HandIds(c) = {}
      BY <1>2, <1>8, <1>13, <1>14 DEF Mine, Queued, HandIds
    <3>2. DelIds(c)' = DelIds(c) /\ QueIds(c)' = QueIds(c)
      BY <1>2, <3>1 DEF DelIds, QueIds
    <3>3. DelInv(c)' /\ QueInv(c)'
      BY <1>2, <1>3, <3>1 DEF DelInv, QueInv, PipeInv
    <3>4. HandInv(c)'
      BY <1>2, <1>7, <1>8, <1>13, <1>14 DEF HandInv
    <3>5. Ordered(DelIds(c), QueIds(c), {}, S)
      BY <1>3, <3>1 DEF PipeInv, S
    <3>6. Ordered(DelIds(c), QueIds(c), {id}, Ids(t))
      BY <1>6, <1>7, <3>5 DEF Ordered
    <3>7. DelIds(c) \cup QueIds(c) \cup {id} \cup Ids(t) = DelIds(c) \cup QueIds(c) \cup HandIds(c) \cup S
      BY <1>6, <1>7, <3>1
    <3>8. c \notin dropped => Gapless(DelIds(c) \cup QueIds(c) \cup {id} \cup Ids(t), Len(sent[c]), cut[c] = "no")
      BY <1>3, <3>7 DEF PipeInv, S
    <3> QED BY <1>2, <1>14, <2>2, <3>1, <3>2, <3>3, <3>4, <3>6, <3>8 DEF PipeInv
  <2> QED BY <2>1, <2>2
<1> QED BY <1>15, <1>16, <1>17, <1>18 DEF UpInv

(* QueueIncoming.  A step of one reader that leaves streams and cuts alone. *)
LEMMA ReaderStreams ==
    ASSUME UpInv, NEW c \in Clients, NEW r \in Readers, reader' = [reader EXCEPT ![c] = r], r.pc # "ended",
           UNCHANGED <<sent, stream, cut>>
    PROVE  /\ reader' \in [Clients -> Readers] /\ reader'[c] = r /\ \A d \in Clients : d # c => reader'[d] = reader[d]
           /\ \A d \in Clients : StreamInv(d)'
<1>1. UpTyped /\ \A d \in Clients : StreamInv(d)
  BY DEF UpInv
<1>2. reader \in [Clients -> Readers]
  BY <1>1 DEF UpTyped
<1>3. reader' \in [Clients -> Readers] /\ reader'[c] = r /\ \A d \in Clients : d # c => reader'[d] = reader[d]
  BY <1>2
<1>4. ASSUME NEW d \in Clients PROVE StreamInv(d)'
  <2>1. reader'[d].pc = "ended" => reader[d].pc = "ended" /\ reader'[d].error = reader[d].error
    BY <1>3
  <2> QED BY <1>1, <2>1, StreamKept
<1> QED BY <1>3, <1>4

LEMMA IncomingDroppedInv ==
    ASSUME UpInv, NEW c \in Clients, IncomingDropped(c)
    PROVE  UpInv'
<1> DEFINE r == [reader[c] EXCEPT !.pc = "reading", !.packet = NoPacket]
<1>1. UpTyped /\ BufferInv /\ \A d \in Clients : StreamInv(d) /\ PipeInv(d)
  BY DEF UpInv
<1>2. /\ reader[c].pc = "queueing" /\ dropped' = dropped \cup {c}
      /\ reader' = [reader EXCEPT ![c].pc = "reading", ![c].packet = NoPacket]
      /\ UNCHANGED <<sent, stream, cut, content, bufPool, recvQueue, closed, kcp, delivered, padded>>
  BY DEF IncomingDropped
<1>3. reader \in [Clients -> Readers] /\ reader[c] \in Readers /\ PipeInv(c)
  BY <1>1 DEF UpTyped
<1>4. NoPacket \in Packets
  BY DEF NoPacket, Packets
<1>5. r \in Readers /\ r.pc = "reading" /\ r.buffers = reader[c].buffers
  BY <1>3, <1>4 DEF Readers
<1>6. reader' = [reader EXCEPT ![c] = r]
  BY <1>2, <1>3
<1>7. reader[c].buffers = {}
  BY <1>1, <1>2 DEF BufferInv
<1> HIDE DEF r
<1>8. /\ reader' \in [Clients -> Readers] /\ reader'[c] = r /\ \A d \in Clients : d # c => reader'[d] = reader[d]
      /\ \A d \in Clients : StreamInv(d)'
  BY <1>2, <1>5, <1>6, ReaderStreams
<1>9. UpTyped'
  BY <1>1, <1>2, <1>8 DEF UpTyped
<1>10. BufferInv'
  <2>1. \A d \in Clients : reader'[d].buffers = reader[d].buffers /\ (reader'[d].pc = "copied" <=> reader[d].pc = "copied")
    BY <1>2, <1>5, <1>8
  <2> QED BY <1>1, <1>2, <2>1, BuffersKept
<1>11. ASSUME NEW d \in Clients PROVE PipeInv(d)'
  <2>1. CASE d # c
    BY <1>1, <1>2, <1>8, <2>1, PipeKept
  <2>2. CASE d = c
    <3>1. Mine(c)' = Mine(c) /\ Queued(c)' = Queued(c) /\ HandIds(c)' = {}
      BY <1>2, <1>5, <1>7, <1>8 DEF Mine, Queued, HandIds
    <3>2. DelIds(c)' = DelIds(c) /\ QueIds(c)' = QueIds(c)
      BY <1>2, <3>1 DEF DelIds, QueIds
    <3>3. DelInv(c)' /\ QueInv(c)'
      BY <1>2, <1>3, <3>1 DEF DelInv, QueInv, PipeInv
    <3>4. HandInv(c)'
      BY <1>5, <1>7, <1>8 DEF HandInv
    <3>5. Ordered(DelIds(c), QueIds(c), {}, Ids(stream[c]))
      BY <1>3 DEF PipeInv, Ordered
    <3>6. c \in dropped'
      BY <1>2
    <3> QED BY <1>2, <2>2, <3>1, <3>2, <3>3, <3>4, <3>5, <3>6 DEF PipeInv
  <2> QED BY <2>1, <2>2
<1> QED BY <1>8, <1>9, <1>10, <1>11 DEF UpInv

LEMMA Element ==
    ASSUME NEW S, NEW s \in Seq(S), NEW k \in 1..Len(s)
    PROVE  s[k] \in S
OBVIOUS

(* There is a buffer for a packet: the queue and the readers hold at most   *)
(* one for each place and one for each client.                              *)
LEMMA ImageSize ==
    ASSUME NEW S, IsFiniteSet(S), NEW f, f = [x \in S |-> f[x]]
    PROVE  LET T == {f[x] : x \in S} IN IsFiniteSet(T) /\ Cardinality(T) \in Nat /\ Cardinality(T) <= Cardinality(S)
<1> DEFINE T == {f[x] : x \in S}
<1>1. f \in Surjection(S, T)
  <2>1. f \in [S -> T]
    OBVIOUS
  <2> QED BY <2>1 DEF Surjection
<1> HIDE DEF T
<1>2. IsFiniteSet(T) /\ Cardinality(T) <= Cardinality(S)
  BY <1>1, FS_Surjection
<1>3. Cardinality(T) \in Nat
  BY <1>2, FS_CardinalityType
<1> QED BY <1>2, <1>3 DEF T

LEMMA HasBuffer ==
    ASSUME UpTyped, BufferInv
    PROVE  bufPool # {}
<1> SUFFICES ASSUME bufPool = {} PROVE FALSE
  OBVIOUS
<1> DEFINE place == 1..Len(recvQueue)
           inPlace == [k \in place |-> recvQueue[k].buffer]
           hands == {c \in Clients : reader[c].pc = "copied"}
           inHand == [c \in hands |-> CHOOSE b \in Buffers : reader[c].buffers = {b}]
           Q == {inPlace[k] : k \in place}
           H == {inHand[c] : c \in hands}
<1>1. IsFiniteSet(Clients) /\ IsFiniteSet(Buffers) /\ Cardinality(Buffers) > QueueSize + Cardinality(Clients) /\ QueueSize \in Nat
  BY SMT, UpstreamConstants
<1>2. Len(recvQueue) \in Nat /\ Len(recvQueue) <= QueueSize
  BY DEF UpTyped
<1>3. IsFiniteSet(place) /\ Cardinality(place) <= QueueSize
  <2>1. IsFiniteSet(place) /\ Cardinality(place) = IF 1 > Len(recvQueue) THEN 0 ELSE Len(recvQueue) - 1 + 1
    BY SMTT(30), <1>2, FS_Interval
  <2> QED BY <1>1, <1>2, <2>1
<1>4. IsFiniteSet(hands) /\ Cardinality(hands) <= Cardinality(Clients) /\ Cardinality(Clients) \in Nat
  BY <1>1, FS_Subset, FS_CardinalityType
<1>5. Buffers \subseteq Q \cup H
  <2>1. ASSUME NEW b \in Buffers, InQueue(b) PROVE b \in Q
    BY <2>1 DEF InQueue
  <2>2. ASSUME NEW b \in Buffers, InHand(b) PROVE b \in H
    <3>1. PICK c \in Clients : b \in reader[c].buffers
      BY <2>2 DEF InHand
    <3>2. c \in hands
      BY <3>1 DEF BufferInv
    <3>3. \E x \in Buffers : reader[c].buffers = {x}
      BY <3>2 DEF BufferInv
    <3>4. reader[c].buffers = {inHand[c]}
      BY <3>2, <3>3
    <3> QED BY <3>1, <3>2, <3>4
  <2>3. ASSUME NEW b \in Buffers PROVE InQueue(b) \/ InHand(b)
    BY DEF BufferInv
  <2> QED BY <2>1, <2>2, <2>3
<1>6. inPlace = [k \in place |-> inPlace[k]] /\ inHand = [c \in hands |-> inHand[c]]
  OBVIOUS
<1> HIDE DEF place, hands, inPlace, inHand
<1>7. IsFiniteSet(Q) /\ Cardinality(Q) \in Nat /\ Cardinality(Q) <= Cardinality(place)
  BY <1>3, <1>6, ImageSize
<1>8. IsFiniteSet(H) /\ Cardinality(H) \in Nat /\ Cardinality(H) <= Cardinality(hands)
  BY <1>4, <1>6, ImageSize
<1> HIDE DEF Q, H
<1>9. IsFiniteSet(Q \cup H) /\ Cardinality(Q \cup H) = Cardinality(Q) + Cardinality(H) - Cardinality(Q \cap H)
  BY <1>7, <1>8, FS_Union
<1>10. Cardinality(Q \cap H) \in Nat
  <2>1. IsFiniteSet(Q \cap H)
    BY <1>7, FS_Subset
  <2> QED BY <2>1, FS_CardinalityType
<1>11. Cardinality(Buffers) <= Cardinality(Q \cup H) /\ Cardinality(Buffers) \in Nat
  BY <1>1, <1>5, <1>9, FS_Subset, FS_CardinalityType
<1>12. Cardinality(place) \in Nat /\ Cardinality(hands) \in Nat
  BY <1>3, <1>4, FS_CardinalityType
<1> QED BY <1>1, <1>3, <1>4, <1>7, <1>8, <1>9, <1>10, <1>11, <1>12

LEMMA IncomingCopiedInv ==
    ASSUME UpInv, NEW c \in Clients, IncomingCopied(c)
    PROVE  UpInv'
<1> DEFINE b == CHOOSE b \in bufPool : TRUE
           packet == [reader[c].packet EXCEPT !.len = Min({@, MTU})]
           r == [reader[c] EXCEPT !.pc = "copied", !.packet = NoPacket, !.buffers = {b}]
<1>1. UpTyped /\ BufferInv /\ \A d \in Clients : StreamInv(d) /\ PipeInv(d)
  BY DEF UpInv
<1>2. /\ reader[c].pc = "queueing" /\ bufPool' = bufPool \ {b} /\ content' = [content EXCEPT ![b] = packet]
      /\ reader' = [reader EXCEPT ![c].pc = "copied", ![c].packet = NoPacket, ![c].buffers = {b}]
      /\ UNCHANGED <<sent, stream, cut, recvQueue, closed, kcp, delivered, dropped, padded>>
  BY DEF IncomingCopied
<1>3. /\ reader \in [Clients -> Readers] /\ reader[c] \in Readers /\ reader[c].packet \in Packets /\ PipeInv(c)
      /\ content \in [Buffers -> Packets]
  BY <1>1 DEF UpTyped, Readers
<1>4. b \in bufPool /\ b \in Buffers
  BY <1>1, HasBuffer DEF UpTyped
<1> HIDE DEF b
<1>5. NoPacket \in Packets
  BY DEF NoPacket, Packets
<1>6. packet \in Packets /\ packet.id = reader[c].packet.id /\ packet.len = Min({reader[c].packet.len, MTU})
  <2>1. reader[c].packet.len \in Nat /\ MTU \in Nat
    BY <1>3, UpSizes DEF Packets
  <2>2. Min({reader[c].packet.len, MTU}) \in Nat
    BY <2>1, MinOfTwo
  <2> QED BY <1>3, <2>2 DEF Packets
<1>7. r \in Readers /\ r.pc = "copied" /\ r.buffers = {b}
  BY <1>3, <1>4, <1>5 DEF Readers
<1>8. reader' = [reader EXCEPT ![c] = r]
  BY <1>2, <1>3
<1> HIDE DEF r, packet
<1>9. /\ reader' \in [Clients -> Readers] /\ reader'[c] = r /\ \A d \in Clients : d # c => reader'[d] = reader[d]
      /\ \A d \in Clients : StreamInv(d)'
  BY <1>2, <1>7, <1>8, ReaderStreams
<1>10. content' \in [Buffers -> Packets] /\ content'[b] = packet /\ \A x \in Buffers : x # b => content'[x] = content[x]
  BY <1>2, <1>3, <1>4, <1>6
<1>11. UpTyped'
  <2>1. bufPool' \subseteq Buffers
    BY <1>1, <1>2 DEF UpTyped
  <2> QED BY <1>1, <1>2, <1>9, <1>10, <2>1 DEF UpTyped
<1>12. ~InQueue(b) /\ ~InHand(b) /\ reader[c].buffers = {}
  BY <1>1, <1>2, <1>4 DEF BufferInv
<1>13. BufferInv'
  <2>1. \A x \in Buffers : (InQueue(x)' <=> InQueue(x)) /\ (InHand(x)' <=> InHand(x) \/ x = b)
    BY <1>2, <1>7, <1>9, <1>12 DEF InQueue, InHand
  <2>2. \A j, k \in 1..Len(recvQueue)' : recvQueue'[j].buffer = recvQueue'[k].buffer => j = k
    BY <1>1, <1>2 DEF BufferInv
  <2>3. ASSUME NEW d \in Clients PROVE /\ reader'[d].pc = "copied" => \E x \in Buffers : reader'[d].buffers = {x}
                                       /\ reader'[d].pc # "copied" => reader'[d].buffers = {}
    BY <1>1, <1>4, <1>7, <1>9 DEF BufferInv
  <2>4. \A d, e \in Clients : d # e => reader'[d].buffers \cap reader'[e].buffers = {}
    <3>1. \A d \in Clients : d # c => b \notin reader[d].buffers
      BY <1>12 DEF InHand
    <3> QED BY <1>1, <1>7, <1>9, <3>1 DEF BufferInv
  <2>5. \A x \in Buffers : /\ x \in bufPool' => ~InQueue(x)' /\ ~InHand(x)'
                           /\ x \notin bufPool' => InQueue(x)' \/ InHand(x)'
                           /\ ~(InQueue(x)' /\ InHand(x)')
    BY <1>1, <1>2, <1>12, <2>1 DEF BufferInv
  <2> QED BY <2>2, <2>3, <2>4, <2>5 DEF BufferInv
<1>14. ASSUME NEW d \in Clients PROVE PipeInv(d)'
  <2>1. \A k \in Queued(d) : content'[recvQueue[k].buffer] = content[recvQueue[k].buffer]
    <3> SUFFICES ASSUME NEW k \in Queued(d) PROVE content'[recvQueue[k].buffer] = content[recvQueue[k].buffer]
      OBVIOUS
    <3>1. k \in 1..Len(recvQueue)
      BY DEF Queued
    <3>2. recvQueue \in Seq([buffer : Buffers, addr : Clients])
      BY <1>1 DEF UpTyped
    <3>3. recvQueue[k] \in [buffer : Buffers, addr : Clients]
      BY <3>1, <3>2, Element
    <3>4. recvQueue[k].buffer \in Buffers
      BY <3>3
    <3>5. recvQueue[k].buffer # b
      BY <1>12, <3>1 DEF InQueue
    <3> QED BY <1>10, <3>4, <3>5
  <2>2. CASE d # c
    <3>1. \A x \in reader[d].buffers : content'[x] = content[x]
      BY <1>1, <1>10, <1>12 DEF InHand, UpTyped, Readers
    <3> QED BY <1>1, <1>2, <1>9, <2>1, <2>2, <3>1, PipeKept
  <2>3. CASE d = c
    <3>1. Mine(c)' = Mine(c) /\ Queued(c)' = Queued(c)
      BY <1>2 DEF Mine, Queued
    <3>2. HandIds(c)' = HandIds(c)
      BY <1>2, <1>6, <1>7, <1>9, <1>10, <1>12 DEF HandIds
    <3>3. DelIds(c)' = DelIds(c) /\ QueIds(c)' = QueIds(c)
      BY <1>2, <2>1, <2>3, <3>1 DEF DelIds, QueIds
    <3>4. DelInv(c)'
      BY <1>2, <1>3, <3>1 DEF DelInv, PipeInv
    <3>5. QueInv(c)'
      BY <1>2, <1>3, <2>1, <2>3, <3>1 DEF QueInv, PipeInv
    <3>6. HandInv(c)'
      <4>1. reader[c].packet.id \in 1..Len(sent[c]) /\ reader[c].packet.len = sent[c][reader[c].packet.id]
        BY <1>2, <1>3 DEF HandInv, PipeInv
      <4>2. PacketOf(sent[c], packet)
        BY <1>6, <4>1 DEF PacketOf
      <4> QED BY <1>2, <1>7, <1>9, <1>10, <4>2 DEF HandInv
    <3> QED BY <1>2, <1>3, <2>3, <3>2, <3>3, <3>4, <3>5, <3>6 DEF PipeInv
  <2> QED BY <2>2, <2>3
<1> QED BY <1>9, <1>11, <1>13, <1>14 DEF UpInv

LEMMA IncomingSentInv ==
    ASSUME UpInv, NEW c \in Clients, IncomingSent(c)
    PROVE  UpInv'
<1> DEFINE r == [reader[c] EXCEPT !.pc = "reading", !.buffers = {}]
           q == recvQueue
<1>1. UpTyped /\ BufferInv /\ \A d \in Clients : StreamInv(d) /\ PipeInv(d)
  BY DEF UpInv
<1>2. /\ reader[c].pc = "copied" /\ reader' = [reader EXCEPT ![c].pc = "reading", ![c].buffers = {}]
      /\ UNCHANGED <<sent, stream, cut, content, closed, kcp, delivered, padded>>
  BY DEF IncomingSent
<1>3. /\ reader \in [Clients -> Readers] /\ reader[c] \in Readers /\ PipeInv(c)
      /\ q \in Seq([buffer : Buffers, addr : Clients]) /\ Len(q) \in Nat /\ Len(q) <= QueueSize /\ QueueSize \in Nat
  BY <1>1, UpSizes DEF UpTyped
<1>4. PICK b \in Buffers : reader[c].buffers = {b}
  BY <1>1, <1>2 DEF BufferInv
<1>5. r \in Readers /\ r.pc = "reading" /\ r.buffers = {} /\ r.packet = reader[c].packet
  BY <1>3 DEF Readers
<1>6. reader' = [reader EXCEPT ![c] = r]
  BY <1>2, <1>3
<1> HIDE DEF r
<1>7. /\ reader' \in [Clients -> Readers] /\ reader'[c] = r /\ \A d \in Clients : d # c => reader'[d] = reader[d]
      /\ \A d \in Clients : StreamInv(d)'
  BY <1>2, <1>5, <1>6, ReaderStreams
<1>8. /\ InHand(b) /\ ~InQueue(b) /\ b \notin bufPool /\ (\A d \in Clients : d # c => b \notin reader[d].buffers)
      /\ \A x \in Buffers : InHand(x)' <=> InHand(x) /\ x # b
  <2>1. InHand(b) /\ ~InQueue(b) /\ b \notin bufPool
    BY <1>1, <1>4 DEF BufferInv, InHand
  <2>2. \A d \in Clients : d # c => b \notin reader[d].buffers
    BY <1>1, <1>4 DEF BufferInv
  <2>3. \A x \in Buffers : InHand(x)' <=> InHand(x) /\ x # b
    BY <1>4, <1>5, <1>7, <2>2 DEF InHand
  <2> QED BY <2>1, <2>2, <2>3
<1>9. \A d \in Clients : /\ reader'[d].pc = "copied" => \E x \in Buffers : reader'[d].buffers = {x}
                         /\ reader'[d].pc # "copied" => reader'[d].buffers = {}
  BY <1>1, <1>5, <1>7 DEF BufferInv
<1>10. \A d, e \in Clients : d # e => reader'[d].buffers \cap reader'[e].buffers = {}
  BY <1>1, <1>5, <1>7 DEF BufferInv
<1>11. /\ reader[c].pc # "queueing" /\ HandIds(c)' = {} /\ HandIds(c) = {content[b].id} /\ HandInv(c)'
       /\ PacketOf(sent[c], content[b])
  BY <1>2, <1>3, <1>4, <1>5, <1>7 DEF HandIds, HandInv, PipeInv
<1>12. Ordered(DelIds(c), QueIds(c), {content[b].id}, Ids(stream[c]))
  BY <1>3, <1>11 DEF PipeInv
<1>13. \A d \in Clients : DelIds(d)' = DelIds(d) /\ DelInv(d)'
  BY <1>1, <1>2 DEF DelIds, DelInv, Mine, PipeInv
<1>14. CASE HasRoom
  <2> DEFINE x == [buffer |-> b, addr |-> c]
             m == Len(q) + 1
  <2>1. recvQueue' = Append(q, x) /\ bufPool' = bufPool /\ dropped' = dropped /\ Len(q) < QueueSize
    BY <1>4, <1>14 DEF IncomingSent, AfterSend, HasRoom
  <2>2. x \in [buffer : Buffers, addr : Clients] /\ x.buffer = b /\ x.addr = c
    BY <1>4
  <2> HIDE DEF x
  <2>3. /\ recvQueue' \in Seq([buffer : Buffers, addr : Clients]) /\ Len(recvQueue') = m /\ m \in Nat /\ recvQueue'[m] = x
        /\ m \in 1..m /\ \A k \in 1..Len(q) : recvQueue'[k] = q[k] /\ k \in 1..m /\ k < m
    BY <1>3, <2>1, <2>2
  <2>4. \A k \in 1..m : k \in 1..Len(q) \/ k = m
    BY <1>3
  <2>5. m <= QueueSize
    BY <1>3, <2>1
  <2> HIDE DEF m
  <2>6. UpTyped'
    <3>1. Len(recvQueue') <= QueueSize
      BY <2>3, <2>5
    <3> QED BY <1>1, <1>2, <1>7, <2>1, <2>3, <3>1 DEF UpTyped
  <2>7. BufferInv'
    <3>1. \A y \in Buffers : InQueue(y)' <=> InQueue(y) \/ y = b
      <4>1. ASSUME NEW y \in Buffers, InQueue(y)' PROVE InQueue(y) \/ y = b
        <5>1. PICK k \in 1..m : recvQueue'[k].buffer = y
          BY <2>3, <4>1 DEF InQueue
        <5> QED BY <2>2, <2>3, <2>4, <5>1 DEF InQueue
      <4>2. ASSUME NEW y \in Buffers, InQueue(y) PROVE InQueue(y)'
        <5>1. PICK k \in 1..Len(q) : q[k].buffer = y
          BY <4>2 DEF InQueue
        <5> QED BY <2>3, <5>1 DEF InQueue
      <4>3. InQueue(b)'
        BY <2>2, <2>3 DEF InQueue
      <4> QED BY <4>1, <4>2, <4>3
    <3>2. ASSUME NEW j \in 1..m, NEW k \in 1..m, recvQueue'[j].buffer = recvQueue'[k].buffer PROVE j = k
      <4>1. \A i \in 1..Len(q) : q[i].buffer # b
        BY <1>8 DEF InQueue
      <4> QED BY <1>1, <2>2, <2>3, <2>4, <3>2, <4>1 DEF BufferInv
    <3>3. \A y \in Buffers : /\ y \in bufPool' => ~InQueue(y)' /\ ~InHand(y)'
                             /\ y \notin bufPool' => InQueue(y)' \/ InHand(y)'
                             /\ ~(InQueue(y)' /\ InHand(y)')
      BY <1>1, <1>8, <2>1, <3>1 DEF BufferInv
    <3> QED BY <1>9, <1>10, <2>3, <3>2, <3>3 DEF BufferInv
  <2>8. ASSUME NEW d \in Clients PROVE PipeInv(d)'
    <3>1. CASE d # c
      <4>1. Queued(d)' = Queued(d) /\ \A k \in Queued(d) : recvQueue'[k] = q[k]
        <5>1. ASSUME NEW k \in Queued(d)' PROVE k \in Queued(d)
          BY <2>2, <2>3, <2>4, <3>1, <5>1 DEF Queued
        <5>2. ASSUME NEW k \in Queued(d) PROVE k \in Queued(d)' /\ recvQueue'[k] = q[k]
          BY <2>3, <5>2 DEF Queued
        <5> QED BY <5>1, <5>2
      <4>2. QueIds(d)' = QueIds(d)
        BY <1>2, <4>1 DEF QueIds
      <4>3. PipeInv(d)
        BY <1>1
      <4>4. QueInv(d)'
        BY <1>2, <4>1, <4>3 DEF QueInv, PipeInv
      <4>5. HandIds(d)' = HandIds(d) /\ HandInv(d)'
        BY <1>2, <1>7, <3>1, <4>3 DEF HandIds, HandInv, PipeInv
      <4> QED BY <1>2, <1>13, <2>1, <4>2, <4>3, <4>4, <4>5 DEF PipeInv
    <3>2. CASE d = c
      <4>1. Queued(c)' = Queued(c) \cup {m}
        <5>1. ASSUME NEW k \in Queued(c)' PROVE k \in Queued(c) \cup {m}
          BY <2>3, <2>4, <5>1 DEF Queued
        <5>2. ASSUME NEW k \in Queued(c) PROVE k \in Queued(c)'
          BY <2>3, <5>2 DEF Queued
        <5>3. m \in Queued(c)'
          BY <2>2, <2>3 DEF Queued
        <5> QED BY <5>1, <5>2, <5>3
      <4>2. (\A k \in Queued(c) : recvQueue'[k] = q[k] /\ k < m) /\ recvQueue'[m].buffer = b
        BY <2>2, <2>3 DEF Queued
      <4>3. QueIds(c)' = QueIds(c) \cup {content[b].id}
        BY <1>2, <4>1, <4>2 DEF QueIds
      <4>4. QueInv(c)'
        <5>1. QueInv(c)
          BY <1>3 DEF PipeInv
        <5>2. \A k \in Queued(c) : content[q[k].buffer].id < content[b].id
          BY <1>12 DEF Ordered, QueIds
        <5>3. Queued(c) \subseteq Nat /\ m \in Nat
          BY <2>3 DEF Queued
        <5>4. ASSUME NEW k \in Queued(c)'
              PROVE  /\ PacketOf(sent[c], content[recvQueue'[k].buffer])
                     /\ \A j \in Queued(c)' : j < k => content[recvQueue'[j].buffer].id < content[recvQueue'[k].buffer].id
          <6>1. CASE k = m
            BY <1>11, <4>1, <4>2, <5>2, <5>3, <6>1
          <6>2. CASE k \in Queued(c)
            <7>1. k < m /\ ~(m < k)
              BY <4>2, <5>3, <6>2
            <7> QED BY <4>1, <4>2, <5>1, <6>2, <7>1 DEF QueInv
          <6> QED BY <4>1, <6>1, <6>2
        <5> QED BY <1>2, <5>4 DEF QueInv
      <4>5. Ordered(DelIds(c), QueIds(c) \cup {content[b].id}, {}, Ids(stream[c]))
        BY <1>12 DEF Ordered
      <4>6. c \notin dropped => Gapless(DelIds(c) \cup (QueIds(c) \cup {content[b].id}) \cup {} \cup Ids(stream[c]), Len(sent[c]), cut[c] = "no")
        <5>1. DelIds(c) \cup (QueIds(c) \cup {content[b].id}) \cup {} \cup Ids(stream[c])
              = DelIds(c) \cup QueIds(c) \cup HandIds(c) \cup Ids(stream[c])
          BY <1>11
        <5> QED BY <1>3, <5>1 DEF PipeInv
      <4> QED BY <1>2, <1>11, <1>13, <2>1, <3>2, <4>3, <4>4, <4>5, <4>6 DEF PipeInv
    <3> QED BY <3>1, <3>2
  <2> QED BY <1>7, <2>6, <2>7, <2>8 DEF UpInv
<1>15. CASE ~HasRoom
  <2>1. recvQueue' = q /\ bufPool' = bufPool \cup {b} /\ dropped' = dropped \cup {c}
    BY <1>4, <1>15 DEF IncomingSent, AfterSend
  <2>2. UpTyped'
    <3>1. bufPool' \subseteq Buffers
      BY <1>1, <1>4, <2>1 DEF UpTyped
    <3> QED BY <1>1, <1>2, <1>7, <2>1, <3>1 DEF UpTyped
  <2>3. BufferInv'
    <3>1. \A y \in Buffers : InQueue(y)' <=> InQueue(y)
      BY <2>1 DEF InQueue
    <3>2. \A y \in Buffers : /\ y \in bufPool' => ~InQueue(y)' /\ ~InHand(y)'
                             /\ y \notin bufPool' => InQueue(y)' \/ InHand(y)'
                             /\ ~(InQueue(y)' /\ InHand(y)')
      BY <1>1, <1>8, <2>1, <3>1 DEF BufferInv
    <3>3. \A j, k \in 1..Len(recvQueue') : recvQueue'[j].buffer = recvQueue'[k].buffer => j = k
      BY <1>1, <2>1 DEF BufferInv
    <3> QED BY <1>9, <1>10, <3>2, <3>3 DEF BufferInv
  <2>4. ASSUME NEW d \in Clients PROVE PipeInv(d)'
    <3>1. CASE d # c
      BY <1>1, <1>2, <1>7, <2>1, <3>1, PipeKept
    <3>2. CASE d = c
      <4>1. QueIds(c)' = QueIds(c) /\ QueInv(c)'
        BY <1>2, <1>3, <2>1 DEF QueIds, QueInv, Queued, PipeInv
      <4>2. Ordered(DelIds(c), QueIds(c), {}, Ids(stream[c]))
        BY <1>12 DEF Ordered
      <4>3. c \in dropped'
        BY <2>1
      <4> QED BY <1>2, <1>11, <1>13, <3>2, <4>1, <4>2, <4>3 DEF PipeInv
    <3> QED BY <3>1, <3>2
  <2> QED BY <1>7, <2>2, <2>3, <2>4 DEF UpInv
<1> QED BY <1>14, <1>15

LEMMA ReadFromReturnsInv ==
    ASSUME UpInv, ReadFromReturns
    PROVE  UpInv'
<1> DEFINE q == recvQueue
           n == Len(recvQueue)
<1>1. UpTyped /\ BufferInv /\ \A d \in Clients : StreamInv(d) /\ PipeInv(d)
  BY DEF UpInv
<1>2. /\ q \in Seq([buffer : Buffers, addr : Clients]) /\ n \in Nat /\ n > 0 /\ n <= QueueSize /\ QueueSize \in Nat
      /\ Head(q) = q[1] /\ 1 \in 1..n /\ reader \in [Clients -> Readers]
  BY SMTT(30), <1>1, UpSizes DEF UpTyped, ReadFromReturns
<1>3. q[1] \in [buffer : Buffers, addr : Clients]
  <2>1. q \in Seq([buffer : Buffers, addr : Clients]) /\ 1 \in 1..Len(q)
    BY <1>2
  <2> QED BY <2>1, Element
<1>4. PICK b \in Buffers, a \in Clients : b = q[1].buffer /\ a = q[1].addr
  BY <1>3
<1> DEFINE x == [packet |-> content[b], addr |-> a]
           l == Len(delivered)
           m == Len(delivered) + 1
           id == content[b].id
<1>5. /\ recvQueue # <<>> /\ delivered' = Append(delivered, x) /\ bufPool' = bufPool \cup {b}
      /\ content' = [content EXCEPT ![b] = NoPacket] /\ recvQueue' = Tail(q) /\ kcp' = "idle"
      /\ UNCHANGED <<sent, stream, cut, reader, closed, dropped, padded>>
  BY <1>2, <1>4 DEF ReadFromReturns
<1>6. /\ recvQueue' \in Seq([buffer : Buffers, addr : Clients]) /\ Len(recvQueue') = n - 1
      /\ \A k \in 1..(n - 1) : recvQueue'[k] = q[k + 1]
  BY <1>5, <1>2
<1>7. \A k \in 1..(n - 1) : k \in 1..n /\ k + 1 \in 1..n /\ k + 1 # 1
  BY <1>2
<1>8. \A k \in 1..n : k = 1 \/ (k - 1 \in 1..(n - 1) /\ k - 1 + 1 = k)
  BY <1>2
<1>9. content \in [Buffers -> Packets] /\ NoPacket \in Packets
  BY <1>1 DEF UpTyped, NoPacket, Packets
<1>10. content' \in [Buffers -> Packets] /\ \A y \in Buffers : y # b => content'[y] = content[y]
  BY <1>5, <1>9
<1>11. x \in [packet : Packets, addr : Clients] /\ x.packet = content[b] /\ x.addr = a
  BY <1>4, <1>9
<1>12. delivered \in Seq([packet : Packets, addr : Clients]) /\ l \in Nat
  BY <1>1 DEF UpTyped
<1> HIDE DEF x
<1>13. /\ delivered' \in Seq([packet : Packets, addr : Clients]) /\ Len(delivered') = m /\ delivered'[m] = x /\ m \in Nat /\ m \in 1..m
       /\ \A k \in 1..l : delivered'[k] = delivered[k] /\ k \in 1..m /\ k < m
       /\ \A k \in 1..m : k \in 1..l \/ k = m
  BY <1>5, <1>11, <1>12
<1> HIDE DEF m, l, id
<1>14. UpTyped'
  <2>1. Len(recvQueue') <= QueueSize /\ bufPool' \subseteq Buffers
    BY <1>1, <1>5, <1>2, <1>4, <1>6 DEF UpTyped
  <2>2. kcp' \in {"idle", "selecting", "ended"}
    BY <1>5
  <2> QED BY <1>1, <1>5, <1>6, <1>10, <1>13, <2>1, <2>2 DEF UpTyped
<1>15. \A k \in 1..(n - 1) : q[k + 1].buffer \in Buffers /\ q[k + 1].buffer # b /\ content'[q[k + 1].buffer] = content[q[k + 1].buffer]
  <2> SUFFICES ASSUME NEW k \in 1..(n - 1)
               PROVE  q[k + 1].buffer \in Buffers /\ q[k + 1].buffer # b /\ content'[q[k + 1].buffer] = content[q[k + 1].buffer]
    OBVIOUS
  <2>1. k + 1 \in 1..n /\ k + 1 # 1
    BY <1>7
  <2>2. q[k + 1] \in [buffer : Buffers, addr : Clients]
    <3>1. q \in Seq([buffer : Buffers, addr : Clients]) /\ k + 1 \in 1..Len(q)
      BY <1>2, <2>1
    <3> QED BY <3>1, Element
  <2>3. q[k + 1].buffer \in Buffers
    BY <2>2
  <2>4. q[k + 1].buffer # b
    BY <1>1, <1>2, <1>4, <2>1 DEF BufferInv
  <2> QED BY <1>10, <2>3, <2>4
<1>16. InQueue(b) /\ ~InHand(b) /\ b \notin bufPool
  <2>1. InQueue(b)
    BY <1>2, <1>4 DEF InQueue
  <2> QED BY <1>1, <1>4, <2>1 DEF BufferInv
<1>17. \A y \in Buffers : /\ InQueue(y)' <=> InQueue(y) /\ y # b
                          /\ InHand(y)' <=> InHand(y)
  <2>1. ASSUME NEW y \in Buffers, InQueue(y)' PROVE InQueue(y) /\ y # b
    <3>1. PICK k \in 1..(n - 1) : recvQueue'[k].buffer = y
      BY <1>6, <2>1 DEF InQueue
    <3> QED BY <1>6, <1>7, <1>15, <3>1 DEF InQueue
  <2>2. ASSUME NEW y \in Buffers, InQueue(y), y # b PROVE InQueue(y)'
    <3>1. PICK k \in 1..n : q[k].buffer = y
      BY <2>2 DEF InQueue
    <3>2. k - 1 \in 1..(n - 1) /\ k - 1 + 1 = k
      BY <1>2, <1>4, <1>8, <2>2, <3>1
    <3>3. recvQueue'[k - 1] = q[k]
      BY <1>6, <3>2
    <3> QED BY <1>6, <3>1, <3>2, <3>3 DEF InQueue
  <2>3. \A y \in Buffers : InHand(y)' <=> InHand(y)
    BY <1>5 DEF InHand
  <2> QED BY <2>1, <2>2, <2>3
<1>18. BufferInv'
  <2>1. ASSUME NEW j \in 1..(n - 1), NEW k \in 1..(n - 1), recvQueue'[j].buffer = recvQueue'[k].buffer PROVE j = k
    <3>1. j + 1 \in 1..n /\ k + 1 \in 1..n /\ q[j + 1].buffer = q[k + 1].buffer
      BY <1>6, <1>7, <2>1
    <3>2. j + 1 = k + 1
      BY <1>1, <3>1 DEF BufferInv
    <3> QED BY <1>2, <3>2
  <2>2. \A j, k \in 1..Len(recvQueue') : recvQueue'[j].buffer = recvQueue'[k].buffer => j = k
    BY <1>6, <2>1
  <2>3. \A y \in Buffers : /\ y \in bufPool' => ~InQueue(y)' /\ ~InHand(y)'
                           /\ y \notin bufPool' => InQueue(y)' \/ InHand(y)'
                           /\ ~(InQueue(y)' /\ InHand(y)')
    BY <1>1, <1>5, <1>16, <1>17 DEF BufferInv
  <2>4. /\ \A d \in Clients : /\ reader'[d].pc = "copied" => \E y \in Buffers : reader'[d].buffers = {y}
                              /\ reader'[d].pc # "copied" => reader'[d].buffers = {}
        /\ \A d, e \in Clients : d # e => reader'[d].buffers \cap reader'[e].buffers = {}
    BY <1>1, <1>5 DEF BufferInv
  <2> QED BY <2>2, <2>3, <2>4 DEF BufferInv
<1>19. ASSUME NEW d \in Clients PROVE StreamInv(d)'
  BY <1>1, <1>5, StreamKept
<1>20. \A d \in Clients : HandIds(d)' = HandIds(d) /\ HandInv(d)'
  <2> SUFFICES ASSUME NEW d \in Clients PROVE HandIds(d)' = HandIds(d) /\ HandInv(d)'
    OBVIOUS
  <2>1. \A y \in reader[d].buffers : content'[y] = content[y]
    <3>1. reader[d].buffers \subseteq Buffers
      BY <1>2 DEF Readers
    <3>2. \A y \in reader[d].buffers : y # b
      BY <1>16 DEF InHand
    <3> QED BY <1>10, <3>1, <3>2
  <2>2. HandInv(d)
    BY <1>1 DEF PipeInv
  <2> QED BY <1>5, <2>1, <2>2 DEF HandIds, HandInv
<1>21. ASSUME NEW d \in Clients
       PROVE  /\ \A k \in Queued(d)' : /\ k + 1 \in Queued(d) /\ k \in 1..(n - 1) /\ recvQueue'[k] = q[k + 1]
                                       /\ content'[recvQueue'[k].buffer] = content[q[k + 1].buffer]
              /\ \A k \in Queued(d) : k = 1 \/ (k - 1 \in Queued(d)' /\ k - 1 + 1 = k)
  <2>1. ASSUME NEW k \in Queued(d)' PROVE /\ k + 1 \in Queued(d) /\ k \in 1..(n - 1) /\ recvQueue'[k] = q[k + 1]
                                          /\ content'[recvQueue'[k].buffer] = content[q[k + 1].buffer]
    <3>1. k \in 1..(n - 1) /\ recvQueue'[k].addr = d
      BY <1>6, <2>1 DEF Queued
    <3>2. recvQueue'[k] = q[k + 1] /\ k + 1 \in 1..n
      BY <1>6, <1>7, <3>1
    <3> QED BY <1>15, <3>1, <3>2 DEF Queued
  <2>2. ASSUME NEW k \in Queued(d), k # 1 PROVE k - 1 \in Queued(d)' /\ k - 1 + 1 = k
    <3>1. k \in 1..n /\ q[k].addr = d
      BY DEF Queued
    <3>2. k - 1 \in 1..(n - 1) /\ k - 1 + 1 = k
      BY <1>8, <2>2, <3>1
    <3>3. recvQueue'[k - 1] = q[k]
      BY <1>6, <3>2
    <3> QED BY <1>6, <3>1, <3>2, <3>3 DEF Queued
  <2> QED BY <2>1, <2>2
<1>22. ASSUME NEW d \in Clients PROVE QueInv(d)'
  <2>1. QueInv(d)
    BY <1>1 DEF PipeInv
  <2>2. ASSUME NEW k \in Queued(d)' PROVE PacketOf(sent[d], content'[recvQueue'[k].buffer])
    BY <1>21, <2>1 DEF QueInv
  <2>3. ASSUME NEW k \in Queued(d)', NEW j \in Queued(d)', j < k
        PROVE  content'[recvQueue'[j].buffer].id < content'[recvQueue'[k].buffer].id
    <3>1. /\ k + 1 \in Queued(d) /\ j + 1 \in Queued(d) /\ j \in Nat /\ k \in Nat
          /\ content'[recvQueue'[k].buffer] = content[q[k + 1].buffer] /\ content'[recvQueue'[j].buffer] = content[q[j + 1].buffer]
      <4>1. j \in 1..(n - 1) /\ k \in 1..(n - 1)
        BY <1>21
      <4> QED BY <1>21, <4>1
    <3>2. j + 1 < k + 1
      BY <2>3, <3>1
    <3>3. content[q[j + 1].buffer].id < content[q[k + 1].buffer].id
      BY <2>1, <3>1, <3>2 DEF QueInv
    <3> QED BY <3>1, <3>3
  <2> QED BY <1>5, <2>2, <2>3 DEF QueInv
<1>23. ASSUME NEW d \in Clients PROVE PipeInv(d)'
  <2>1. PipeInv(d)
    BY <1>1
  <2>2. CASE d # a
    <3>1. Mine(d)' = Mine(d) /\ \A k \in Mine(d) : delivered'[k] = delivered[k]
      BY <1>11, <1>13, <2>2 DEF Mine, l
    <3>2. DelIds(d)' = DelIds(d) /\ DelInv(d)'
      BY <1>5, <2>1, <3>1 DEF DelIds, DelInv, PipeInv
    <3>3. QueIds(d)' = QueIds(d)
      <4>1. 1 \notin Queued(d)
        BY <1>2, <1>4, <2>2 DEF Queued
      <4>2. \A k \in Queued(d) : k - 1 \in Queued(d)' /\ content'[recvQueue'[k - 1].buffer] = content[q[k].buffer]
        <5> SUFFICES ASSUME NEW k \in Queued(d)
                     PROVE  k - 1 \in Queued(d)' /\ content'[recvQueue'[k - 1].buffer] = content[q[k].buffer]
          OBVIOUS
        <5>1. k - 1 \in Queued(d)' /\ k - 1 + 1 = k
          BY <1>21, <4>1
        <5> QED BY <1>21, <5>1
      <4>3. \A y \in QueIds(d)' : y \in QueIds(d)
        BY <1>21 DEF QueIds
      <4>4. \A y \in QueIds(d) : y \in QueIds(d)'
        BY <4>2 DEF QueIds
      <4> QED BY <4>3, <4>4
    <3> QED BY <1>5, <1>20, <1>22, <2>1, <3>2, <3>3 DEF PipeInv
  <2>3. CASE d = a
    <3>1. 1 \in Queued(a)
      BY <1>2, <1>4 DEF Queued
    <3>11. \A k \in Queued(a)' : k + 1 \in Queued(a) /\ k \in 1..(n - 1) /\ content'[recvQueue'[k].buffer] = content[q[k + 1].buffer]
      BY <1>4, <1>21
    <3>12. \A k \in Queued(a) : k = 1 \/ (k - 1 \in Queued(a)' /\ k - 1 + 1 = k)
      BY <1>4, <1>21
    <3>2. id \in QueIds(a) /\ PacketOf(sent[a], content[b])
      BY <1>4, <2>1, <2>3, <3>1 DEF QueIds, QueInv, PipeInv, id
    <3>3. Ordered(DelIds(a), QueIds(a), HandIds(a), Ids(stream[a]))
      BY <2>1, <2>3 DEF PipeInv
    <3>4. Mine(a)' = Mine(a) \cup {m} /\ (\A k \in Mine(a) : delivered'[k] = delivered[k] /\ k < m /\ k \in Nat) /\ delivered'[m].packet = content[b]
      <4> DEFINE M == {k \in 1..l : delivered[k].addr = a}
                 N == {k \in 1..m : delivered'[k].addr = a}
      <4>0. Mine(a) = M /\ Mine(a)' = N
        BY <1>13 DEF Mine, l
      <4>1. ASSUME NEW k \in N PROVE k \in M \cup {m}
        BY <1>13
      <4>2. ASSUME NEW k \in M PROVE k \in N /\ delivered'[k] = delivered[k] /\ k < m /\ k \in Nat
        BY <1>13
      <4>3. m \in N /\ delivered'[m].packet = content[b]
        BY <1>11, <1>13
      <4> HIDE DEF M, N
      <4> QED BY <4>0, <4>1, <4>2, <4>3
    <3>5. DelIds(a)' = DelIds(a) \cup {id}
      BY <3>4 DEF DelIds, id
    <3>6. DelInv(a)'
      <4>1. DelInv(a)
        BY <2>1, <2>3 DEF PipeInv
      <4>2. \A k \in Mine(a) : delivered[k].packet.id < id
        BY <3>2, <3>3 DEF Ordered, DelIds
      <4>3. m \in Nat /\ ~(m < m)
        BY <1>13
      <4>4. ASSUME NEW k \in Mine(a)'
            PROVE  /\ PacketOf(sent[a], delivered'[k].packet)
                   /\ \A j \in Mine(a)' : j < k => delivered'[j].packet.id < delivered'[k].packet.id
        <5>1. CASE k = m
          BY <3>2, <3>4, <4>2, <4>3, <5>1 DEF id
        <5>2. CASE k \in Mine(a)
          <6>1. k < m /\ ~(m < k)
            BY <3>4, <4>3, <5>2
          <6> QED BY <3>4, <4>1, <5>2, <6>1 DEF DelInv
        <5> QED BY <3>4, <5>1, <5>2
      <4>5. sent' = sent
        BY <1>5
      <4> QED BY <4>4, <4>5 DEF DelInv
    <3>7. QueIds(a) = QueIds(a)' \cup {id} /\ \A y \in QueIds(a)' : id < y
      <4>1. ASSUME NEW y \in QueIds(a) PROVE y \in QueIds(a)' \cup {id}
        <5>1. PICK k \in Queued(a) : y = content[q[k].buffer].id
          BY <4>1 DEF QueIds
        <5>2. CASE k = 1
          BY <1>4, <5>1, <5>2 DEF id
        <5>3. CASE k # 1
          <6>1. k - 1 \in Queued(a)' /\ k - 1 + 1 = k
            BY <3>12, <5>3
          <6>2. content'[recvQueue'[k - 1].buffer] = content[q[k].buffer]
            BY <3>11, <6>1
          <6> QED BY <5>1, <6>1, <6>2 DEF QueIds
        <5> QED BY <5>2, <5>3
      <4>2. ASSUME NEW y \in QueIds(a)' PROVE y \in QueIds(a) /\ id < y
        <5>1. PICK k \in Queued(a)' : y = content'[recvQueue'[k].buffer].id
          BY <4>2 DEF QueIds
        <5>2. k + 1 \in Queued(a) /\ k \in 1..(n - 1) /\ y = content[q[k + 1].buffer].id
          BY <3>11, <5>1
        <5>3. 1 < k + 1
          BY <1>2, <5>2
        <5>4. content[q[1].buffer].id < content[q[k + 1].buffer].id
          BY <2>1, <2>3, <3>1, <5>2, <5>3 DEF QueInv, PipeInv
        <5> QED BY <1>4, <5>2, <5>4 DEF QueIds, id
      <4> QED BY <3>2, <4>1, <4>2
    <3>8. Ordered(DelIds(a) \cup {id}, QueIds(a)', HandIds(a), Ids(stream[a]))
      BY <3>2, <3>3, <3>7 DEF Ordered
    <3>9. DelIds(a) \cup {id} \cup QueIds(a)' \cup HandIds(a) \cup Ids(stream[a]) = DelIds(a) \cup QueIds(a) \cup HandIds(a) \cup Ids(stream[a])
      BY <3>7
    <3>10. a \notin dropped => Gapless(DelIds(a) \cup {id} \cup QueIds(a)' \cup HandIds(a) \cup Ids(stream[a]), Len(sent[a]), cut[a] = "no")
      BY <2>1, <2>3, <3>9 DEF PipeInv
    <3>13. DelInv(a)' /\ QueInv(a)' /\ HandInv(a)' /\ HandIds(a)' = HandIds(a)
      BY <1>4, <1>20, <1>22, <3>6
    <3>14. UNCHANGED <<sent, stream, cut, dropped>>
      BY <1>5
    <3> QED BY <2>3, <3>5, <3>8, <3>10, <3>13, <3>14 DEF PipeInv
  <2> QED BY <2>2, <2>3
<1> QED BY <1>14, <1>18, <1>19, <1>23 DEF UpInv

(* Steps that leave streams, buffers and packets where they are.            *)
LEMMA OthersInv ==
    ASSUME UpInv, UNCHANGED <<sent, stream, cut, reader, content, bufPool, recvQueue, delivered, dropped>>,
           closed' \in BOOLEAN, kcp' \in {"idle", "selecting", "ended"},
           /\ padded' \in [asked : Nat, left : Nat, by : SUBSET Clients, written : Nat]
           /\ padded'.left <= padded'.asked /\ padded'.written = padded'.asked - padded'.left
    PROVE  UpInv'
<1>1. UpTyped /\ BufferInv /\ \A d \in Clients : StreamInv(d) /\ PipeInv(d)
  BY DEF UpInv
<1>2. UpTyped'
  BY <1>1 DEF UpTyped
<1>3. BufferInv'
  BY <1>1, BuffersKept
<1>4. ASSUME NEW d \in Clients PROVE StreamInv(d)' /\ PipeInv(d)'
  <2>1. StreamInv(d)'
    BY <1>1, StreamKept
  <2>2. PipeInv(d)'
    BY <1>1, PipeKept
  <2> QED BY <2>1, <2>2
<1> QED BY <1>2, <1>3, <1>4 DEF UpInv

LEMMA WritePaddingInv ==
    ASSUME UpInv, NEW c \in Clients, NEW n \in Paddings, WritePadding(c, n)
    PROVE  UpInv'
<1>1. UpTyped
  BY DEF UpInv
<1>2. /\ UNCHANGED <<sent, stream, cut, reader, content, bufPool, recvQueue, closed, kcp, delivered, dropped>>
      /\ padded' = [asked |-> n, left |-> n, by |-> {c}, written |-> 0]
  BY DEF WritePadding
<1>3. n \in Nat
  BY UpSizes
<1>4. /\ padded' \in [asked : Nat, left : Nat, by : SUBSET Clients, written : Nat]
      /\ padded'.left <= padded'.asked /\ padded'.written = padded'.asked - padded'.left
  BY <1>2, <1>3
<1>5. closed' \in BOOLEAN /\ kcp' \in {"idle", "selecting", "ended"}
  BY <1>1, <1>2 DEF UpTyped
<1> QED BY <1>2, <1>4, <1>5, OthersInv

LEMMA UpNextInv ==
    ASSUME UpInv, [UpNext]_upVars
    PROVE  UpInv'
<1>1. /\ UpTyped /\ padded \in [asked : Nat, left : Nat, by : SUBSET Clients, written : Nat]
      /\ padded.left <= padded.asked /\ padded.written = padded.asked - padded.left
      /\ closed \in BOOLEAN /\ kcp \in {"idle", "selecting", "ended"}
  BY DEF UpInv, UpTyped
<1>2. ASSUME NEW c \in Clients, NEW n \in Lengths, WriteTo(c, n) PROVE UpInv'
  BY <1>2, WriteToInv
<1>3. ASSUME NEW c \in Clients, NEW n \in Paddings, WritePadding(c, n) PROVE UpInv'
  BY <1>3, WritePaddingInv
<1>4. ASSUME NEW c \in Clients, PadsChunk(c) PROVE UpInv'
  BY <1>4, PadsChunkInv
<1>5. ASSUME NEW c \in Clients, Cut(c) PROVE UpInv'
  BY <1>5, CutInv
<1>6. ASSUME NEW c \in Clients, ReadsData(c) PROVE UpInv'
  BY <1>6, ReadsDataInv
<1>7. ASSUME NEW c \in Clients, SkipsPadding(c) PROVE UpInv'
  BY <1>7, SkipsPaddingInv
<1>8. ASSUME NEW c \in Clients, ReadFails(c) PROVE UpInv'
  BY <1>8, ReadFailsInv
<1>9. ASSUME NEW c \in Clients, IncomingDropped(c) PROVE UpInv'
  BY <1>9, IncomingDroppedInv
<1>10. ASSUME NEW c \in Clients, IncomingCopied(c) PROVE UpInv'
  BY <1>10, IncomingCopiedInv
<1>11. ASSUME NEW c \in Clients, IncomingSent(c) PROVE UpInv'
  BY <1>11, IncomingSentInv
<1>12. CASE ReadFromStarts
  BY <1>1, <1>12, OthersInv DEF ReadFromStarts
<1>13. CASE ReadFromReturns
  BY <1>13, ReadFromReturnsInv
<1>14. CASE ReadFromFails
  BY <1>1, <1>14, OthersInv DEF ReadFromFails
<1>15. CASE Close
  BY <1>1, <1>15, OthersInv DEF Close
<1>16. CASE UNCHANGED upVars
  BY <1>1, <1>16, OthersInv DEF upVars
<1> QED BY <1>2, <1>3, <1>4, <1>5, <1>6, <1>7, <1>8, <1>9, <1>10, <1>11, <1>12, <1>13, <1>14, <1>15, <1>16 DEF UpNext

(* What the invariant says of what KCP got, of the sizes and of the end.    *)
LEMMA UpInvOrder == UpInv => DeliveredInOrder
<1> SUFFICES ASSUME UpInv, NEW c \in Clients, NEW k \in Mine(c)
             PROVE  LET id(j) == delivered[j].packet.id IN
                    /\ id(k) \in 1..Len(sent[c]) /\ delivered[k].packet.len = Min({sent[c][id(k)], MTU})
                    /\ \A j \in Mine(c) : j < k => id(j) < id(k)
                    /\ c \notin dropped => \A n \in 1..id(k) : \E j \in Mine(c) : id(j) = n
  BY DEF DeliveredInOrder
<1> DEFINE id(j) == delivered[j].packet.id
<1>1. UpTyped /\ PipeInv(c) /\ StreamInv(c)
  BY DEF UpInv
<1>2. /\ id(k) \in 1..Len(sent[c]) /\ delivered[k].packet.len = Min({sent[c][id(k)], MTU})
      /\ \A j \in Mine(c) : j < k => id(j) < id(k)
  BY <1>1 DEF PipeInv, DelInv, PacketOf
<1>3. ASSUME c \notin dropped, NEW n \in 1..id(k) PROVE \E j \in Mine(c) : id(j) = n
  <2> DEFINE later == QueIds(c) \cup HandIds(c) \cup Ids(stream[c])
  <2>1. id(k) \in DelIds(c)
    BY DEF DelIds
  <2>2. n \in DelIds(c) \cup later
    BY <1>1, <1>3, <2>1 DEF PipeInv, Gapless
  <2>3. \A y \in later : id(k) < y
    BY <1>1, <2>1 DEF PipeInv, Ordered
  <2>4. id(k) \in Nat /\ n \in Nat /\ n <= id(k)
    BY <1>2
  <2>5. n \notin later
    <3> SUFFICES ASSUME n \in later PROVE FALSE
      OBVIOUS
    <3>1. id(k) < n
      BY <2>3
    <3> QED BY <2>4, <3>1
  <2> QED BY <2>2, <2>5 DEF DelIds
<1> QED BY <1>2, <1>3

LEMMA UpInvSizes == UpInv => ChunksSound
<1> SUFFICES ASSUME UpInv PROVE ChunksSound
  OBVIOUS
<1>1. UpTyped /\ \A c \in Clients : StreamInv(c)
  BY DEF UpInv
<1>2. UpTypeOK
  <2>1. ASSUME NEW c \in Clients PROVE /\ sent[c] \in Seq(Lengths) /\ cut[c] \in {"no", "boundary", "middle"}
                                       /\ reader[c] \in Readers
    BY <1>1 DEF UpTyped
  <2>2. ASSUME NEW c \in Clients PROVE /\ reader[c].pc \in {"reading", "queueing", "copied", "ended"}
                                       /\ reader[c].buffers \subseteq Buffers
                                       /\ reader[c].error \in {"none", "EOF", "unexpected EOF", "too long"}
    BY <2>1 DEF Readers
  <2> QED BY <1>1, <2>1, <2>2 DEF UpTypeOK, UpTyped
<1>3. EncodedSizes
  <2>1. ASSUME NEW n \in Budgets PROVE LET m == MaxDataForSize(n) IN m + Len(dataPrefixForLength(m)) \in {n - 1, n}
    <3>1. n \in Nat /\ n > 0 /\ n < 1048576
      BY SMT, BudgetSizes
    <3> QED BY SMT, <3>1, MaxDataFits
  <2> QED BY <1>1, <2>1 DEF EncodedSizes, UpTyped
<1>4. EOFIffBetweenChunks
  BY <1>1 DEF EOFIffBetweenChunks, StreamInv
<1> QED BY <1>2, <1>3, <1>4 DEF ChunksSound

(* A client's packets reach KCP in the order written, each once and cut to  *)
(* the MTU, and without a gap as long as none of them found the queue full  *)
(* or closed, whatever the other clients do with the queue and the buffers  *)
(* that all of them share (QueueIncoming and ReadFrom, queuepacketconn.go). *)
THEOREM DeliveredInOrderHolds == UpSpec => []DeliveredInOrder
<1>1. UpSpec => []UpInv
  BY UpInitInv, UpNextInv, PTL DEF UpSpec
<1> QED BY <1>1, UpInvOrder, PTL

(* WritePadding writes what it was asked to write, the data MaxDataForSize  *)
(* allows fits its budget, and ReadData reports io.EOF exactly if the       *)
(* stream ended between two chunks (encapsulation.go).                      *)
THEOREM ChunksSoundHolds == UpSpec => []ChunksSound
<1>1. UpSpec => []UpInv
  BY UpInitInv, UpNextInv, PTL DEF UpSpec
<1> QED BY <1>1, UpInvSizes, PTL
=============================================================================
