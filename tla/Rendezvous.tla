------------------------------ MODULE Rendezvous ------------------------------
(***************************************************************************)
(* One client's negotiations with the broker, end to end: Negotiate and     *)
(* the HTTP and AMP cache rendezvous (iceball/client/lib/rendezvous*.go),   *)
(* the messages of iceball/common/messages, the broker's endpoints          *)
(* (iceball/broker/http.go, amp.go), the bridge list, the decision of       *)
(* ClientOffers, and the broker's counters of denied clients (metrics.go),  *)
(* which logMetrics prints under their lock and zeroes without it.  The     *)
(* client's NAT type comes from NATProbe.  Of the heaps only matters        *)
(* whether they are empty (module Broker has the rest).  The network, the   *)
(* AMP cache and the proxy's answer to /add are external.                   *)
(***************************************************************************)
EXTENDS NATProbe, Sequences, FiniteSets

CONSTANTS Configs,    \* the client configurations to consider
          BridgeFile, \* the lines of the broker's bridge list file
          MaxCalls,   \* bound: calls of Negotiate
          MaxPrints   \* bound: rounds of logMetrics

VARIABLES
    config,    \* the client's configuration
    pools,     \* the broker's heaps that hold a proxy
    call,      \* Negotiate: how many calls, and "idle", "waiting", "answered" or "failed"
    handler,   \* per call, the broker's request handler
    denied,    \* clientDeniedCount and its two parts
    lock,      \* who holds Metrics.lock: a call, or 0
    logger,    \* logMetrics: pc, rounds, and the count it read last
    printed,   \* ghost: denials read for printing so far, before binCount rounds them up
    actual,    \* ghost: denials so far
    raced      \* ghost: zeroMetrics wiped out or missed an update that was not printed

metricsVars == <<denied, lock, logger, printed, actual, raced>>
clientVars == <<config, call>>
brokerVars == <<pools, handler>>
rdvVars == <<probeVars, metricsVars, clientVars, brokerVars>>

Calls == 1..MaxCalls
Fingerprints == {"none", "default", "other", "malformed"}
Config == [method : {"http", "amp", "legacy"}, fingerprint : Fingerprints]
ASSUME RendezvousConstants == Configs \subseteq Config /\ MaxCalls \in Nat /\ MaxPrints \in Nat
-----------------------------------------------------------------------------
(* Messages.  An offer is told apart by having a candidate, an empty NAT    *)
(* type is "missing"; everything malformed in a message of the code's own   *)
(* making is left out.                                                      *)

\* Mutant of DecodeNAT: a missing NAT type counts as unrestricted.
DecodeNATOpen(nat) == IF nat = "missing" THEN "unrestricted" ELSE IF nat \in NATTypes THEN nat ELSE "invalid"
DecodeNAT(nat) == IF nat = "missing" THEN "unknown" ELSE IF nat \in NATTypes THEN nat ELSE "invalid"

\* Only version 1 with a session id and a known NAT type is accepted.
ProxyPollRequest == [version : {1, 2}, sid : BOOLEAN, nat : NATTypes \cup {"missing", "other"}]
DecodeProxyPollRequest(m) == m.version = 1 /\ m.sid /\ DecodeNAT(m.nat) # "invalid"

\* Without a fingerprint the default bridge's is sent.
EncodeClientPollRequest(candidates, nat, fingerprint) ==
    [candidates |-> candidates, nat |-> nat,
     fingerprint |-> IF fingerprint = "none" THEN "default" ELSE fingerprint]
DecodeClientPollRequest(m) == m.fingerprint # "malformed" /\ DecodeNAT(m.nat) # "invalid"

\* One malformed line and nothing of the file is loaded.
LoadBridgeInfo(file) == IF "malformed" \in file THEN {} ELSE file

\* Only a proxy whose NAT is unrestricted suits every client.
PoolOf(nat) == IF nat = "unrestricted" THEN "unrestricted" ELSE "restricted"
\* The heap matchSnowflake takes from; none if the set is empty.
Match(nat) ==
    IF nat # "unrestricted" THEN pools \cap {"unrestricted"}
    ELSE IF "restricted" \in pools THEN {"restricted"} ELSE pools
-----------------------------------------------------------------------------
NoHandler == [pc |-> "none", message |-> EncodeClientPollRequest(FALSE, "missing", "none"), pool |-> {}, read |-> 0]

RdvInit ==
    /\ NATInit
    /\ config \in Configs /\ pools = {}
    /\ call = [n |-> 0, pc |-> "idle"]
    /\ handler = [n \in Calls |-> NoHandler]
    /\ denied = [all |-> 0, restricted |-> 0, unrestricted |-> 0]
    /\ lock = 0 /\ logger = [pc |-> "waits", rounds |-> 0, last |-> 0]
    /\ printed = 0 /\ actual = 0 /\ raced = FALSE
-----------------------------------------------------------------------------
(* The client.                                                              *)

\* The NAT type is read under the lock; whether a candidate is left depends on StripLocalAddresses.
\* A client of the old format sends its offer bare and the NAT type, if it knows it, in a header.
Negotiate(candidates, header) ==
    LET n == call.n + 1
        nat == IF config.method = "legacy" /\ ~header THEN "missing" ELSE natType
        fp == IF config.method = "legacy" THEN "none" ELSE config.fingerprint
    IN
    /\ call.pc \in {"idle", "failed"} /\ n \in Calls
    /\ config.method # "legacy" => header
    /\ config.method = "amp" => candidates \* nobody looks
    /\ call' = [n |-> n, pc |-> "waiting"]
    /\ handler' = [handler EXCEPT ![n].pc = "sent",
                                  ![n].message = EncodeClientPollRequest(candidates, nat, fp)]
    /\ UNCHANGED <<probeVars, metricsVars, config, pools>>

\* The call ends; a reply that is there is read or dropped with the connection.
Returns(outcome) ==
    /\ call.pc = "waiting" /\ call' = [call EXCEPT !.pc = outcome]
    /\ handler' = [handler EXCEPT ![call.n].pc = IF @ \in {"answer", "error"} THEN "done" ELSE @]
    /\ UNCHANGED <<probeVars, metricsVars, config, pools>>

\* No connection, no status within the transport's ResponseHeaderTimeout (which uTLS's has not and
\* which runs from the written request), another status, a body cut short or too long, or an AMP
\* cache that answers for itself.  Nothing bounds the dial, the TLS handshake and the body.
ExchangeFails == Returns("failed")

\* Status 200 and a response with an SDP answer is all that counts as success.
Exchange ==
    /\ call.n \in Calls
    /\ \/ handler[call.n].pc = "answer" /\ Returns("answered")
       \/ handler[call.n].pc = "error" /\ Returns("failed")
-----------------------------------------------------------------------------
(* The broker.                                                              *)
ProxyPolls(m) ==
    /\ DecodeProxyPollRequest(m)
    /\ pools' = pools \cup {PoolOf(DecodeNAT(m.nat))}
    /\ UNCHANGED <<probeVars, metricsVars, clientVars, handler>>

Replies(n, from, reply) ==
    /\ handler[n].pc = from
    /\ handler' = [handler EXCEPT
          ![n] = [NoHandler EXCEPT !.pc = IF call = [n |-> n, pc |-> "waiting"] THEN reply ELSE "done"]]

\* POST /client looks for a candidate first, the AMP endpoint does not.
Refused(n) ==
    LET m == handler[n].message IN
    \/ config.method # "amp" /\ ~m.candidates
    \/ ~DecodeClientPollRequest(m)
    \/ m.fingerprint \notin LoadBridgeInfo(BridgeFile)
ClientOffersRefused(n) ==
    /\ Replies(n, "sent", "error") /\ Refused(n)
    /\ UNCHANGED <<probeVars, metricsVars, clientVars, pools>>
ClientOffers(n) ==
    LET pool == Match(DecodeNAT(handler[n].message.nat)) IN
    /\ handler[n].pc = "sent" /\ ~Refused(n)
    /\ handler' = [handler EXCEPT ![n] =
          IF pool = {} THEN [@ EXCEPT !.pc = "denied"] ELSE [NoHandler EXCEPT !.pc = "posting", !.pool = pool]]
    /\ UNCHANGED <<probeVars, metricsVars, clientVars, pools>>

\* Every other outcome of POST /add ends in an error message, a 5xx status or a panic.
ProxyAnswers(n) ==
    /\ Replies(n, "posting", "answer")
    /\ UNCHANGED <<probeVars, metricsVars, clientVars, pools>>
ProxyFails(n) ==
    /\ Replies(n, "posting", "error")
    /\ UNCHANGED <<probeVars, metricsVars, clientVars, pools>>
-----------------------------------------------------------------------------
(* Metrics.                                                                 *)

\* Mutant of DenialLocks: the lock is not waited for.
DenialLocksNot(n) ==
    /\ handler[n].pc = "denied" /\ lock' = n
    /\ handler' = [handler EXCEPT ![n].pc = "counting", ![n].read = denied.all]
    /\ UNCHANGED <<probeVars, clientVars, pools, denied, logger, printed, actual, raced>>
DenialLocks(n) ==
    /\ handler[n].pc = "denied" /\ lock = 0 /\ lock' = n
    /\ handler' = [handler EXCEPT ![n].pc = "counting", ![n].read = denied.all]
    /\ UNCHANGED <<probeVars, clientVars, pools, denied, logger, printed, actual, raced>>

\* The count that was read may have been zeroed since.
DenialCounts(n) ==
    LET part == PoolOf(DecodeNAT(handler[n].message.nat)) IN
    /\ Replies(n, "counting", "error") /\ lock' = 0
    /\ denied' = [denied EXCEPT !.all = handler[n].read + 1, ![part] = @ + 1]
    /\ actual' = actual + 1
    /\ UNCHANGED <<probeVars, clientVars, pools, logger, printed, raced>>

printMetrics ==
    /\ logger.pc = "waits" /\ logger.rounds < MaxPrints /\ lock = 0
    /\ logger' = [pc |-> "zeroes", rounds |-> logger.rounds + 1, last |-> denied.all]
    /\ printed' = printed + denied.all
    /\ UNCHANGED <<probeVars, clientVars, brokerVars, denied, lock, actual, raced>>

\* Its assignments are one step: what falls between them is one more race with a denial.
Zero == [c \in DOMAIN denied |-> 0]
zeroMetrics ==
    /\ logger.pc = "zeroes" /\ logger' = [logger EXCEPT !.pc = "waits"]
    /\ denied' = Zero
    /\ raced' = (raced \/ lock # 0 \/ denied.all # logger.last)
    /\ UNCHANGED <<probeVars, clientVars, brokerVars, lock, printed, actual>>
-----------------------------------------------------------------------------
RdvNext ==
    \/ NATNext /\ UNCHANGED <<metricsVars, clientVars, brokerVars>>
    \/ \E c, h \in BOOLEAN : Negotiate(c, h)
    \/ ExchangeFails \/ Exchange
    \/ \E m \in ProxyPollRequest : ProxyPolls(m)
    \/ \E n \in Calls : \/ ClientOffersRefused(n) \/ ClientOffers(n)
                         \/ ProxyAnswers(n) \/ ProxyFails(n)
                         \/ DenialLocks(n) \/ DenialCounts(n)
    \/ printMetrics \/ zeroMetrics
RdvSpec == RdvInit /\ [][RdvNext]_rdvVars

\* Only the probe has timeouts for all it waits for; a call may go on for ever.
RdvFairSpec == RdvSpec /\ NATFairness

RdvTypeOK ==
    /\ NATTypeOK /\ config \in Config /\ pools \subseteq {"restricted", "unrestricted"}
    /\ call \in [n : 0..MaxCalls, pc : {"idle", "waiting", "answered", "failed"}]
    /\ \A n \in Calls : /\ handler[n].pc \in {"none", "sent", "posting", "denied", "counting", "answer", "error", "done"}
                        /\ Cardinality(handler[n].pool) <= 1 /\ handler[n].read \in 0..MaxCalls
    /\ lock \in 0..MaxCalls /\ logger.rounds \in 0..MaxPrints
    /\ \A c \in DOMAIN denied : denied[c] \in 0..MaxCalls

(* A client behind an address-dependent NAT is never matched with a proxy   *)
(* whose NAT is restricted, whichever endpoint it uses and however far its  *)
(* NAT probe has come, unless a duplicated datagram deceived the probe      *)
(* (nat.go:81, ipc.go:359).                                                 *)
RestrictedClientReached ==
    \A n \in Calls : "restricted" \in handler[n].pool => mapping = "independent" \/ strayed

(* What printMetrics has read, before rounding, and what the counters hold  *)
(* add up to the denials, and the two parts to the total, as long as        *)
(* zeroMetrics, which takes no lock, meets no update (metrics.go:213).      *)
CountsAddUp ==
    ~raced => /\ printed + (IF logger.pc = "zeroes" THEN denied.all - logger.last ELSE denied.all) = actual
              /\ lock = 0 => denied.all = denied.restricted + denied.unrestricted

(* Denials add up over handlers, summaries and resets, unless a reset of    *)
(* zeroMetrics, which takes no lock (metrics.go:213), met a denial.         *)
CountsSound == RdvTypeOK /\ CountsAddUp
=============================================================================
