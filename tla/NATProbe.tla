------------------------------ MODULE NATProbe ------------------------------
(***************************************************************************)
(* How the client learns its NAT type: updateNATType (iceball/client/lib/   *)
(* snowflake.go) over the STUN servers that NewSnowflakeClient keeps, with  *)
(* isRestrictedMapping, RoundTrip and listen (iceball/common/nat/nat.go).   *)
(* The STUN servers, the NAT and UDP are external: an answer may be lost,   *)
(* be late, come twice or be unreadable.  Both tests send the same message, *)
(* so nothing tells the answer of one from the answer of the other.         *)
(***************************************************************************)
EXTENDS Naturals

CONSTANTS Addresses,  \* how many ICE addresses the configuration lists
          MaxDup      \* bound: answers that the network delivers twice

ASSUME NATProbeConstants == Addresses \in Nat /\ MaxDup \in Nat

VARIABLES
    mapping,   \* the NAT's mapping: "independent" of the remote address or "dependent" on it
    servers,   \* how many STUN servers are tried
    natType,   \* BrokerChannel.natType
    probe,     \* updateNATType: pc, the server being tried, the address its first test saw
    net,       \* datagrams to and from the probe's open socket
    listener,  \* per server, the goroutine of listen: "none", "reading", "offering" or "ended"
    offered,   \* the answer that the listener of the server being tried is blocked with
    open,      \* servers whose socket is open
    dups,      \* answers duplicated so far
    strayed    \* ghost: a second copy of the first answer was taken for the second one

probeVars == <<mapping, servers, natType, probe, net, listener, offered, open, dups, strayed>>

NATTypes == {"unknown", "restricted", "unrestricted"}
Request(test) == [to |-> "server", test |-> test]
Answer == [to : {"client"}, test : {1, 2}, copy : {1, 2}, readable : BOOLEAN]

\* Every address that is no stun: URL is skipped, and of more than two servers half is used.
parseIceServers == LET half(n) == IF n > 2 THEN (n + 1) \div 2 ELSE n
                   IN  {half(n) : n \in 0..Addresses}

\* The XOR-MAPPED-ADDRESS that the answer to a test carries.
Mapped(test) == IF mapping = "dependent" THEN test ELSE 1

NATInit ==
    /\ mapping \in {"independent", "dependent"}
    /\ servers \in parseIceServers
    /\ natType = "unknown"
    /\ probe = [pc |-> "next", server |-> 0, seen |-> 0]
    /\ net = {} /\ offered = {} /\ open = {} /\ dups = 0 /\ strayed = FALSE
    /\ listener = [s \in 1..Addresses |-> "none"]

NATTypeOK ==
    /\ natType \in NATTypes /\ strayed \in BOOLEAN /\ dups \in 0..MaxDup
    /\ probe \in [pc : {"next", "test1", "test2", "done"}, server : 0..servers, seen : 0..2]
    /\ open \subseteq {probe.server}
    /\ net \subseteq Answer \cup {Request(1), Request(2)}
    /\ offered \subseteq Answer
    /\ listener \in [1..Addresses -> {"none", "reading", "offering", "ended"}]
-----------------------------------------------------------------------------
(* updateNATType and isRestrictedMapping.                                   *)
Waits(test) == probe.pc = IF test = 1 THEN "test1" ELSE "test2"

\* The socket is opened, its listener started and the first test sent.
connect ==
    LET s == probe.server + 1 IN
    /\ probe.pc = "next" /\ s <= servers
    /\ probe' = [pc |-> "test1", server |-> s, seen |-> 0]
    /\ open' = {s} /\ listener' = [listener EXCEPT ![s] = "reading"]
    /\ net' = {Request(1)} /\ offered' = {}
    /\ UNCHANGED <<mapping, servers, natType, dups, strayed>>
connectFails ==
    /\ probe.pc = "next" /\ probe.server < servers
    /\ probe' = [probe EXCEPT !.server = @ + 1]
    /\ UNCHANGED <<mapping, servers, natType, net, listener, offered, open, dups, strayed>>

\* Mutant of Close: the socket stays open.
CloseNot == UNCHANGED <<net, open>>
\* The deferred mapTestConn.Close; what is still on its way is lost with the socket.
Close == open' = {} /\ net' = {}

\* Ten seconds without an answer, a channel the listener closed, or a failing write.
RoundTripFails ==
    /\ probe.pc \in {"test1", "test2"}
    /\ probe' = [probe EXCEPT !.pc = "next"] /\ Close
    /\ UNCHANGED <<mapping, servers, natType, listener, offered, dups, strayed>>

\* RoundTrip takes whatever the listener offers.
Takes(test, answer) ==
    /\ Waits(test) /\ listener[probe.server] = "offering" /\ answer \in offered
    /\ offered' = {} /\ listener' = [listener EXCEPT ![probe.server] = "reading"]
Test1(answer) ==
    /\ Takes(1, answer)
    /\ probe' = [probe EXCEPT !.pc = "test2", !.seen = Mapped(answer.test)]
    /\ net' = net \cup {Request(2)}
    /\ UNCHANGED <<mapping, servers, natType, open, dups, strayed>>
\* The answer lacks one of the addresses, or the other address cannot be resolved.
NotSupported(answer) ==
    /\ Takes(1, answer)
    /\ probe' = [probe EXCEPT !.pc = "next"] /\ Close
    /\ UNCHANGED <<mapping, servers, natType, dups, strayed>>

Test2(answer) ==
    /\ Takes(2, answer)
    /\ natType' = IF probe.seen # Mapped(answer.test) THEN "restricted" ELSE "unrestricted"
    /\ strayed' = (answer.test = 1)
    /\ probe' = [probe EXCEPT !.pc = "done"] /\ Close
    /\ UNCHANGED <<mapping, servers, dups>>

\* No server is left.
updateNATTypeFails ==
    /\ probe.pc = "next" /\ probe.server = servers
    /\ probe' = [probe EXCEPT !.pc = "done"] /\ natType' = "unknown"
    /\ UNCHANGED <<mapping, servers, net, listener, offered, open, dups, strayed>>
-----------------------------------------------------------------------------
(* The goroutine of listen, and the network.                                *)
listenReads(s, answer) ==
    /\ s \in open /\ listener[s] = "reading" /\ answer \in net
    /\ net' = net \ {answer}
    /\ \/ ~answer.readable /\ listener' = [listener EXCEPT ![s] = "ended"] /\ UNCHANGED offered
       \/ answer.readable /\ listener' = [listener EXCEPT ![s] = "offering"] /\ offered' = {answer}
    /\ UNCHANGED <<mapping, servers, natType, probe, open, dups, strayed>>
listenEnds(s) ==
    /\ s \notin open /\ listener[s] = "reading"
    /\ listener' = [listener EXCEPT ![s] = "ended"]
    /\ UNCHANGED <<mapping, servers, natType, probe, net, offered, open, dups, strayed>>

ServerAnswers(test, readable) ==
    /\ Request(test) \in net
    /\ net' = (net \ {Request(test)})
                \cup {[to |-> "client", test |-> test, copy |-> 1, readable |-> readable]}
    /\ UNCHANGED <<mapping, servers, natType, probe, listener, offered, open, dups, strayed>>
\* A second copy of the second answer comes when RoundTrip is over: only the first matters.
Duplicate(answer) ==
    /\ answer \in net /\ answer.copy = 1 /\ answer.test = 1 /\ dups < MaxDup
    /\ net' = net \cup {[answer EXCEPT !.copy = 2]} /\ dups' = dups + 1
    /\ UNCHANGED <<mapping, servers, natType, probe, listener, offered, open, strayed>>

NATNext ==
    \/ connect \/ connectFails \/ RoundTripFails \/ updateNATTypeFails
    \/ \E a \in Answer : Test1(a) \/ NotSupported(a) \/ Test2(a) \/ Duplicate(a)
    \/ \E s \in 1..Addresses : listenEnds(s) \/ \E a \in Answer : listenReads(s, a)
    \/ \E t \in {1, 2}, r \in BOOLEAN : ServerAnswers(t, r)

\* The goroutines run, and a wait of RoundTrip ends after ten seconds at the latest.
NATFairness ==
    /\ WF_probeVars(connect \/ connectFails) /\ WF_probeVars(RoundTripFails)
    /\ WF_probeVars(updateNATTypeFails)
    /\ \A s \in 1..Addresses : WF_probeVars(listenEnds(s))

(* The probe comes to an end with every socket's listener ended, or blocked  *)
(* with an answer that came too late for RoundTrip (nat.go:227): none is     *)
(* left reading a socket that nobody closed.                                *)
ProbeEnds == <>[](probe.pc = "done" /\ \A s \in 1..Addresses : listener[s] # "reading")
=============================================================================
