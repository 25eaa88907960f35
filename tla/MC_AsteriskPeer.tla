--------------------------- MODULE MC_AsteriskPeer ---------------------------
(* check_asterisk_peer against a small Asterisk. *)
EXTENDS AsteriskPeer

MCTypes == {"sip", "pjsip", "other"}
(* chan_sip's peer_status texts; "Unmonitored" for a peer without qualify. *)
MCSipStates == {[kind |-> k, rtt |-> 0] : k \in {"OK", "LAGGED", "Unmonitored",
                                                 "UNREACHABLE"}}
MCPjsipStates == {[kind |-> "Avail", rtt |-> r] : r \in {5, 50}}
                 \cup {[kind |-> "Unavail", rtt |-> 0]}
MCRttLimits == {<<>>, <<10, 100>>}
=============================================================================
