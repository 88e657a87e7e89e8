------------------------------- MODULE Broker -------------------------------
(***************************************************************************)
(* The broker's HTTP handlers (iceball/broker/ipc.go): proxies announce     *)
(* themselves, clients are matched and signalled to a proxy, proxies report *)
(* their clients, and the instance manager rescales the fleet.  The pool is *)
(* guarded by snowflakeLock; Cid2Client, Proxy2Client and ProxyIP2Snowflake *)
(* are plain Go maps that concurrent handlers share without it, so handlers *)
(* are split at every access to them and at every HTTP call.  The slices in *)
(* Proxy2Client are headers over arrays that append and slices.Delete write *)
(* in place.                                                                *)
(* Proxies and clients are external: a client answered by a proxy opens its *)
(* control channel, closes it, and follows a /transfer, when it likes.      *)
(***************************************************************************)
EXTENDS SnowflakePool

CONSTANTS IPs,          \* IP addresses of proxies
          Cids,         \* client ids
          ClientNAT,    \* NAT type of each client (measured once per process)
          Offers,       \* concurrent ClientOffers handlers
          Notices,      \* concurrent ProxyNotice handlers
          Rescalers,    \* concurrent Rescale handlers
          OldLists,     \* the lists of old IPs that the instance manager may send
          Rooms,        \* spare cells of an array that append allocates
          PollsPerIP,   \* bound: polls from one IP address
          MaxRestarts,  \* bound: restarts of the broker process
          MaxOffers,    \* bound: clients are offered while fewer matches than this are counted
          MaxMatches    \* bound: matches of one Snowflake, migrations included

ASSUME BrokerBounds ==
    /\ ClientNAT \in [Cids -> NATs]
    /\ OldLists \subseteq Seq(IPs) /\ Rooms \subseteq Nat
    /\ {PollsPerIP, MaxOffers} \subseteq Nat /\ MaxRestarts \in Nat /\ MaxMatches \in Nat

VARIABLES
    ips,                \* ip field of each allocated Snowflake
    idToSnowflake,      \* Snowflakes whose id is in the map (ids are fresh per poll)
    ProxyIP2Snowflake,  \* NoFlake when absent
    structs,            \* allocated Client structs: the cid of each
    Cid2Client,         \* per cid the Client struct in the map, NoClient when absent
    Proxy2Client,       \* per IP a slice, the first len cells of an array; NilSlice when absent
    arrays,             \* the arrays allocated for slices: cells of *Client, NoClient for nil
    offer,              \* ClientOffers handlers
    notice,             \* ProxyNotice handlers
    rescale,            \* Rescale handlers
    down,               \* the process died of a concurrent map access
    polled,             \* env: polls sent so far from each IP
    answered, connected,\* env: <<cid, ip>> with an answer underway, with an open control channel
    restarts

maps == <<ips, idToSnowflake, ProxyIP2Snowflake, structs, Cid2Client, Proxy2Client, arrays>>
env == <<polled, answered, connected, restarts>>
vars == <<poolVars, maps, offer, notice, rescale, down, env>>

NoClient == 0
NoCid == "none"
NoIP == "none"
NilSlice == [arr |-> 0, len |-> 0]
IdleOffer == [pc |-> "idle", cid |-> NoCid, flake |-> NoFlake]
IdleNotice ==
    [pc |-> "idle", cid |-> NoCid, ip |-> NoIP, client |-> NoClient, hand |-> NilSlice, idx |-> 0]
IdleRescale ==
    [pc |-> "idle", old |-> <<>>, k |-> 0, idx |-> 0, cid |-> NoCid, flake |-> NoFlake,
     posted |-> {}, listed |-> {}, moved |-> {}]

\* What a slice shows.
Cells(h) == IF h.arr = 0 THEN <<>> ELSE arrays[h.arr]
Elems(h) == SubSeq(Cells(h), 1, h.len)
Shown(p) == Elems(Proxy2Client[p])

BrokerInit ==
    /\ PoolInit
    /\ ips = <<>>
    /\ idToSnowflake = {}
    /\ ProxyIP2Snowflake = [p \in IPs |-> NoFlake]
    /\ structs = <<>>
    /\ Cid2Client = [c \in Cids |-> NoClient]
    /\ Proxy2Client = [p \in IPs |-> NilSlice]
    /\ arrays = <<>>
    /\ offer = [h \in Offers |-> IdleOffer]
    /\ notice = [n \in Notices |-> IdleNotice]
    /\ rescale = [r \in Rescalers |-> IdleRescale]
    /\ down = FALSE

Init ==
    /\ BrokerInit
    /\ polled = [p \in IPs |-> 0]
    /\ answered = {} /\ connected = {} /\ restarts = 0
-----------------------------------------------------------------------------

\* ProxyPolls: one critical section after decoding and metrics.
ProxyPolls(p, nat) ==
    LET x == Len(nats) + 1
    IN  /\ polled[p] < PollsPerIP
        /\ Register(nat)
        /\ ips' = Append(ips, p)
        /\ ProxyIP2Snowflake' = [ProxyIP2Snowflake EXCEPT ![p] = x]
        /\ idToSnowflake' = idToSnowflake \cup {x}
        /\ polled' = [polled EXCEPT ![p] = @ + 1]
        /\ UNCHANGED <<structs, Cid2Client, Proxy2Client, arrays, offer, notice, rescale,
                       answered, connected, restarts>>

\* ClientOffers up to the POST to the proxy.  With no match the client is denied
\* and nothing but a metric changes.
OfferMatch(h, c) ==
    /\ offer[h].pc = "idle"
    /\ WithinBound(ClientNAT[c]) /\ FoldFunction(+, 0, clients) < MaxOffers
    /\ TakeMatch(ClientNAT[c])
    /\ offer' = [offer EXCEPT ![h] = [pc |-> "post", cid |-> c, flake |-> Matched(ClientNAT[c])]]
    /\ UNCHANGED <<maps, notice, rescale, env>>

\* The proxy's /add fails: the handler returns and the match stays counted.
OfferPostFails(h) ==
    /\ offer[h].pc = "post"
    /\ offer' = [offer EXCEPT ![h] = IdleOffer]
    /\ UNCHANGED <<poolVars, maps, notice, rescale, env>>

\* The proxy answers, and Cid2Client is read: a known client needs no new struct.
OfferLookup(h) ==
    /\ offer[h].pc = "post"
    /\ offer' = [offer EXCEPT ![h].pc =
                    IF Cid2Client[offer[h].cid] = NoClient THEN "store" ELSE "finish"]
    /\ UNCHANGED <<poolVars, maps, notice, rescale, env>>

OfferStore(h) ==
    /\ offer[h].pc = "store"
    /\ structs' = Append(structs, offer[h].cid)
    /\ Cid2Client' = [Cid2Client EXCEPT ![offer[h].cid] = Len(structs) + 1]
    /\ offer' = [offer EXCEPT ![h].pc = "finish"]
    /\ UNCHANGED <<poolVars, ips, idToSnowflake, ProxyIP2Snowflake, Proxy2Client, arrays,
                   notice, rescale, env>>

\* The last critical section; the answer then reaches the client.
OfferFinish(h) ==
    /\ offer[h].pc = "finish"
    /\ idToSnowflake' = idToSnowflake \ {offer[h].flake}
    /\ answered' = answered \cup {<<offer[h].cid, ips[offer[h].flake]>>}
    /\ offer' = [offer EXCEPT ![h] = IdleOffer]
    /\ UNCHANGED <<poolVars, ips, ProxyIP2Snowflake, structs, Cid2Client, Proxy2Client, arrays,
                   notice, rescale, polled, connected, restarts>>

-----------------------------------------------------------------------------
\* Ghosts of the rescales under way: a client that left by itself need not be
\* migrated, and the slices that changed otherwise than by growing are noted.
Unlist(s, l) == [s EXCEPT !.listed = @ \ {l}]
Moved(s, ps) == [s EXCEPT !.moved = @ \cup (ps \cap ToSet(s.old))]
Disturbed == {p \in IPs : ~IsPrefix(Shown(p), Shown(p)')}
NoteDisturbed == rescale' = [r \in Rescalers |-> Moved(rescale[r], Disturbed)]

pure == <<poolVars, ips, idToSnowflake, ProxyIP2Snowflake, structs, Cid2Client, offer>>

\* The proxy's changeClient posts a notice and ignores a failure, so a handler
\* may or may not start.
Posted(action, c, p) ==
    \/ UNCHANGED notice
    \/ \E n \in Notices :
         /\ notice[n].pc = "idle"
         /\ notice' = [notice EXCEPT ![n] = [IdleNotice EXCEPT !.pc = action, !.cid = c, !.ip = p]]

\* OnOpen and OnClose of a client's control channel, on goroutines of their own.
ChannelOpens(c, p) ==
    /\ <<c, p>> \in answered
    /\ answered' = answered \ {<<c, p>>}
    /\ connected' = connected \cup {<<c, p>>}
    /\ Posted("add", c, p)
    /\ UNCHANGED <<poolVars, maps, offer, rescale, polled, restarts>>

ChannelCloses(c, p) ==
    /\ <<c, p>> \in connected
    /\ connected' = connected \ {<<c, p>>}
    /\ Posted("delete", c, p)
    /\ rescale' = [r \in Rescalers |-> Unlist(rescale[r], <<c, p>>)]
    /\ UNCHANGED <<poolVars, maps, offer, polled, answered, restarts>>

\* ProxyNotice: client := Cid2Client[cid].
NoticeClient(n) ==
    /\ notice[n].pc \in {"add", "delete"}
    /\ notice' = [notice EXCEPT ![n].client = Cid2Client[notice[n].cid], ![n].cid = NoCid,
                                ![n].pc = IF notice[n].pc = "add" THEN "read" ELSE "find"]
    /\ UNCHANGED <<poolVars, maps, offer, rescale, env>>

\* "add" reads the slice,
AddReads(n) ==
    /\ notice[n].pc = "read"
    /\ notice' = [notice EXCEPT ![n].hand = Proxy2Client[notice[n].ip], ![n].pc = "append"]
    /\ UNCHANGED <<poolVars, maps, offer, rescale, env>>

\* A handler that prints the maps next, one that stores the slice h for p first.
Printing == [IdleNotice EXCEPT !.pc = "print"]
Storing(p, h) == [IdleNotice EXCEPT !.pc = "store", !.ip = p, !.hand = h]

\* appends in the array if it has room and in a larger copy if not,
AddAppends(n) ==
    LET x == notice[n]
        h == x.hand
    IN  /\ x.pc = "append"
        /\ UNCHANGED <<pure, Proxy2Client, env>>
        /\ IF h.len < Len(Cells(h))
           THEN /\ arrays' = [arrays EXCEPT ![h.arr] = [@ EXCEPT ![h.len + 1] = x.client]]
                /\ notice' = [notice EXCEPT ![n] = Storing(x.ip, [arr |-> h.arr, len |-> h.len + 1])]
           ELSE /\ \E room \in Rooms :
                     arrays' = Append(arrays, Append(Elems(h), x.client) \o [i \in 1..room |-> NoClient])
                /\ notice' = [notice EXCEPT ![n] =
                                 Storing(x.ip, [arr |-> Len(arrays) + 1, len |-> h.len + 1])]
        /\ NoteDisturbed

\* "delete" looks the pointer up with slices.Index,
DeleteFinds(n) ==
    LET x == notice[n]
        at == {i \in DOMAIN Shown(x.ip) : Shown(x.ip)[i] = x.client}
    IN  /\ x.pc = "find"
        /\ notice' = [notice EXCEPT ![n] =
                         IF at = {} THEN Printing
                         ELSE [IdleNotice EXCEPT !.pc = "shift", !.ip = x.ip, !.idx = Min(at)]]
        /\ UNCHANGED <<poolVars, maps, offer, rescale, env>>

\* The cells i+1..len move down by one; Go 1.22 and later clear the last one.
ShiftDown(cells, i, len, clear) ==
    [j \in DOMAIN cells |-> IF j >= i /\ j < len THEN cells[j + 1]
                            ELSE IF j = len /\ clear THEN NoClient ELSE cells[j]]

\* reads the slice again for slices.Delete, which panics if the index is out of
\* range by now (net/http recovers) and shifts the shared cells if it is not,
DeleteShifts(n) ==
    LET x == notice[n]
        h == Proxy2Client[x.ip]
    IN  /\ x.pc = "shift"
        /\ UNCHANGED <<pure, Proxy2Client, env>>
        /\ IF x.idx > h.len
           THEN notice' = [notice EXCEPT ![n] = IdleNotice] /\ UNCHANGED <<arrays, rescale>>
           ELSE /\ \E clear \in BOOLEAN :
                     arrays' = [arrays EXCEPT ![h.arr] = ShiftDown(@, x.idx, h.len, clear)]
                /\ notice' = [notice EXCEPT ![n] = Storing(x.ip, [arr |-> h.arr, len |-> h.len - 1])]
                /\ NoteDisturbed

\* and both store their slice in the map and print the map.
NoticeStores(n) ==
    /\ notice[n].pc = "store"
    /\ Proxy2Client' = [Proxy2Client EXCEPT ![notice[n].ip] = notice[n].hand]
    /\ notice' = [notice EXCEPT ![n] = Printing]
    /\ UNCHANGED <<pure, arrays, env>>
    /\ NoteDisturbed

NoticePrints(n) ==
    /\ notice[n].pc = "print"
    /\ notice' = [notice EXCEPT ![n] = IdleNotice]
    /\ UNCHANGED <<poolVars, maps, offer, rescale, env>>
-----------------------------------------------------------------------------
\* Ghost: the connections to old proxies that Proxy2Client knows of; the ones
\* that are not closed meanwhile stay in the field listed.
Listed(old) ==
    {l \in connected : l[2] \in ToSet(old) /\ Cid2Client[l[1]] # NoClient
                          /\ Cid2Client[l[1]] \in ToSet(Shown(l[2]))}

\* A Rescale at the head of its second loop; with no old proxy it is done.
Begun(old) ==
    [pc |-> IF old = <<>> THEN "done" ELSE "drop", old |-> old, k |-> 1, idx |-> 0, cid |-> NoCid,
     flake |-> NoFlake, posted |-> {}, listed |-> Listed(old), moved |-> {}]

\* Mutant of RescaleRemove: the map entries go first, so the pool keeps the Snowflakes.
RescaleRemoveTooLate(r, old) ==
    /\ rescale[r].pc = "idle"
    /\ ProxyIP2Snowflake' = [p \in IPs |-> IF p \in ToSet(old) THEN NoFlake ELSE ProxyIP2Snowflake[p]]
    /\ rescale' = [rescale EXCEPT ![r] = Begun(old)]
    /\ UNCHANGED <<poolVars, ips, idToSnowflake, structs, Cid2Client, Proxy2Client, arrays, offer,
                   notice, env>>

\* Rescale, first loop: the Snowflakes that the map knows for the old IPs leave
\* the unrestricted heap, all under the lock.
RescaleRemove(r, old) ==
    /\ rescale[r].pc = "idle"
    /\ RemoveOld([k \in DOMAIN old |-> ProxyIP2Snowflake[old[k]]])
    /\ rescale' = [rescale EXCEPT ![r] = Begun(old)]
    /\ UNCHANGED <<maps, offer, notice, env>>

OldIP(r) == rescale[r].old[rescale[r].k]

\* Second loop, entry of one old IP.
RescaleDrop(r) ==
    /\ rescale[r].pc = "drop"
    /\ ProxyIP2Snowflake' = [ProxyIP2Snowflake EXCEPT ![OldIP(r)] = NoFlake]
    /\ rescale' = [rescale EXCEPT ![r].pc = "loop", ![r].idx = 1]
    /\ UNCHANGED <<poolVars, ips, idToSnowflake, structs, Cid2Client, Proxy2Client, arrays,
                   offer, notice, env>>

\* Mutant of RescaleLooks: the last client is left out.
RescaleLooksEarly(r) ==
    /\ rescale[r].pc = "loop"
    /\ rescale' = [rescale EXCEPT ![r].pc =
                      IF rescale[r].idx < Len(Shown(OldIP(r))) THEN "index" ELSE "clear"]
    /\ UNCHANGED <<poolVars, maps, offer, notice, env>>

\* The condition of the inner loop, on the live slice.
RescaleLooks(r) ==
    /\ rescale[r].pc = "loop"
    /\ rescale' = [rescale EXCEPT ![r].pc =
                      IF rescale[r].idx <= Len(Shown(OldIP(r))) THEN "index" ELSE "clear"]
    /\ UNCHANGED <<poolVars, maps, offer, notice, env>>

\* The slice is read again and indexed; an index out of range by now and the
\* natType of a nil client panic, which net/http recovers.
RescaleIndexes(r) ==
    LET s == Shown(OldIP(r))
        i == rescale[r].idx
    IN  /\ rescale[r].pc = "index"
        /\ rescale' = IF i > Len(s) \/ s[i] = NoClient
                      THEN [rescale EXCEPT ![r].pc = "panicked"]
                      ELSE [rescale EXCEPT ![r].pc = "match", ![r].cid = structs[s[i]]]
        /\ UNCHANGED <<poolVars, maps, offer, notice, env>>

\* matchSnowflake, under its lock.
RescaleMatch(r) ==
    LET nat == ClientNAT[rescale[r].cid]
    IN  /\ rescale[r].pc = "match"
        /\ IF Matched(nat) = NoFlake
           THEN rescale' = [rescale EXCEPT ![r].pc = "failed"] /\ UNCHANGED poolVars
           ELSE /\ clients[Matched(nat)] < MaxMatches
                /\ TakeMatch(nat)
                /\ rescale' = [rescale EXCEPT ![r].pc = "post", ![r].flake = Matched(nat)]
        /\ UNCHANGED <<maps, offer, notice, env>>

\* POST /transfer to the old proxy, its result ignored.  If it arrives, a client
\* connected there is told to connect to the new proxy.
RescaleTransfer(r) ==
    LET c == rescale[r].cid
    IN  /\ rescale[r].pc = "post"
        /\ \/ /\ <<c, OldIP(r)>> \in connected
              /\ answered' = answered \cup {<<c, ips[rescale[r].flake]>>}
           \/ UNCHANGED answered
        /\ rescale' = [rescale EXCEPT ![r].pc = "loop", ![r].idx = @ + 1, ![r].cid = NoCid, ![r].flake = NoFlake,
                                      ![r].posted = @ \cup {<<c, OldIP(r)>>}]
        /\ UNCHANGED <<poolVars, maps, offer, notice, polled, connected, restarts>>

\* After the loop the entry of the old IP is deleted, and the outer loop goes on
\* or returns true.
RescaleClear(r) ==
    /\ rescale[r].pc = "clear"
    /\ Proxy2Client' = [Proxy2Client EXCEPT ![OldIP(r)] = NilSlice]
    /\ UNCHANGED arrays
    /\ rescale' = [[q \in Rescalers |-> IF q = r THEN rescale[q] ELSE Moved(rescale[q], Disturbed)]
                      EXCEPT ![r].k = @ + 1,
                             ![r].pc = IF rescale[r].k < Len(rescale[r].old) THEN "drop" ELSE "done"]
    /\ UNCHANGED <<pure, notice, env>>
-----------------------------------------------------------------------------
\* Two handlers inside the same unguarded map, one of them writing: the Go
\* runtime may detect it and kills the process.
AtNotice(pcs) == {n \in Notices : notice[n].pc \in pcs}
AtRescale(pcs) == {r \in Rescalers : rescale[r].pc \in pcs}
AtOffer(pcs) == {h \in Offers : offer[h].pc \in pcs}
Several(S) == \E x, y \in S : x # y

ConcurrentMapAccess ==
    \/ /\ AtOffer({"store"}) # {}                                     \* Cid2Client
       /\ AtNotice({"add", "delete"}) # {} \/ Several(AtOffer({"post", "store"}))
    \/ /\ AtRescale({"drop"}) # {}                                    \* ProxyIP2Snowflake
       /\ (\E p \in IPs : polled[p] < PollsPerIP) \/ Several(AtRescale({"drop", "idle"}))
    \/ /\ AtRescale({"clear"}) # {}                                   \* Proxy2Client
       /\ \/ AtNotice({"read", "find", "shift", "store", "print"}) # {}
          \/ Several(AtRescale({"loop", "index", "clear"}))
    \/ /\ AtNotice({"read", "store"}) # {}    \* m[k] = append(m[k], x) compiles to one map assignment
       /\ \/ AtRescale({"loop", "index"}) # {}
          \/ Several(AtNotice({"read", "find", "shift", "store", "print"}))

\* The process dies with its memory; proxies and clients stay.
Crash ==
    /\ ConcurrentMapAccess
    /\ nats' = <<>> /\ clients' = [x \in Flakes |-> 0] /\ index' = [x \in Flakes |-> -1]
    /\ snowflakes' = <<>> /\ restrictedSnowflakes' = <<>>
    /\ ips' = <<>> /\ idToSnowflake' = {} /\ ProxyIP2Snowflake' = [p \in IPs |-> NoFlake]
    /\ structs' = <<>> /\ Cid2Client' = [c \in Cids |-> NoClient]
    /\ Proxy2Client' = [p \in IPs |-> NilSlice] /\ arrays' = <<>>
    /\ offer' = [h \in Offers |-> IdleOffer] /\ notice' = [n \in Notices |-> IdleNotice]
    /\ rescale' = [r \in Rescalers |-> IdleRescale]
    /\ down' = TRUE
    /\ UNCHANGED env

Restart ==
    /\ down /\ restarts < MaxRestarts
    /\ down' = FALSE
    /\ restarts' = restarts + 1
    /\ UNCHANGED <<poolVars, maps, offer, notice, rescale, polled, answered, connected>>

\* The instance manager replaces proxies that have been up, hence have polled.
Announced(old) == \A k \in DOMAIN old : polled[old[k]] > 0

RescaleStep(r) ==
    \/ RescaleDrop(r) \/ RescaleLooks(r) \/ RescaleIndexes(r) \/ RescaleMatch(r)
    \/ RescaleTransfer(r) \/ RescaleClear(r)

NoticeStep(n) ==
    \/ NoticeClient(n) \/ AddReads(n) \/ AddAppends(n) \/ DeleteFinds(n) \/ DeleteShifts(n)
    \/ NoticeStores(n) \/ NoticePrints(n)

Handlers ==
    \/ \E p \in IPs, nat \in NATs : ProxyPolls(p, nat)
    \/ \E h \in Offers, c \in Cids : OfferMatch(h, c)
    \/ \E h \in Offers : OfferPostFails(h) \/ OfferLookup(h) \/ OfferStore(h) \/ OfferFinish(h)
    \/ \E c \in Cids, p \in IPs : ChannelOpens(c, p) \/ ChannelCloses(c, p)
    \/ \E n \in Notices : NoticeStep(n)
    \/ \E r \in Rescalers, old \in OldLists : Announced(old) /\ RescaleRemove(r, old)
    \/ \E r \in Rescalers : RescaleStep(r)

Next ==
    \/ ~down /\ Handlers /\ UNCHANGED down
    \/ ~down /\ Crash
    \/ Restart

Spec == Init /\ [][Next]_vars
-----------------------------------------------------------------------------
(* Every variable stays in its Go type.                                    *)
TypeOK ==
    /\ PoolTypeOK
    /\ Len(ips) = Len(nats) /\ ips \in Seq(IPs)
    /\ idToSnowflake \subseteq Allocated
    /\ ProxyIP2Snowflake \in [IPs -> Allocated \cup {NoFlake}]
    /\ Cid2Client \in [Cids -> 0..Len(structs)]
    /\ arrays \in Seq(Seq(0..Len(structs)))
    /\ \A p \in IPs : LET h == Proxy2Client[p]
                      IN  h.arr \in 0..Len(arrays) /\ h.len \in 0..Len(Cells(h))

Members == ToSet(snowflakes) \cup ToSet(restrictedSnowflakes)

(* From the moment Rescale has removed the old proxies until it returns, no *)
(* client can be matched to one of them: "remove old proxies from pool".   *)
OldProxiesGone ==
    \A r \in Rescalers : rescale[r].pc # "idle" =>
        \A x \in Members : ips[x] \notin ToSet(rescale[r].old)

(* Rescale finds the proxies to remove through ProxyIP2Snowflake: every     *)
(* proxy in the pool is in it, whatever handlers interleave.               *)
PoolIsIndexedByIP == \A x \in Members : ProxyIP2Snowflake[ips[x]] = x

(* A Rescale that returned true has posted a transfer for every client that *)
(* Proxy2Client listed at an old address when it began and that is still    *)
(* connected there, although clients come, go and are matched meanwhile;    *)
(* unless the slice of that very address, which it walks by index and others *)
(* edit unguarded (ipc.go:310-317, 336), changed otherwise than by growing. *)
AllClientsMigrated ==
    \A r \in Rescalers : rescale[r].pc = "done" =>
        \A l \in rescale[r].listed : l \in rescale[r].posted \/ l[2] \in rescale[r].moved

(* The pool, its index by address and a Rescale under way agree, whatever   *)
(* handlers interleave and wherever the process dies and starts again.      *)
PoolConsistent == TypeOK /\ PoolIsIndexedByIP /\ OldProxiesGone
=============================================================================
