------------------------------ MODULE MCBroker ------------------------------
(* Broker for TLC: proxies, clients and the handlers of ProxyNotice are     *)
(* model values; nothing tells two clients or two notices apart.            *)
EXTENDS Broker
CONSTANTS a, b, c1, c2, n1, n2, r1
AllUnrestricted == [c \in Cids |-> "unrestricted"]
OldSome == {<<>>, <<a>>, <<a, b>>}
Interchangeable == Permutations(Cids) \cup Permutations(Notices)

\* Bound: after a restart there are no more offers, only notices and rescales.
RestartedBound == restarts > 0 => offer = [h \in Offers |-> IdleOffer]
=============================================================================
