---------------------------- MODULE MC_PortCheck ----------------------------
(* Reports of a TCP scan: header, empty and port lines, ports 22, 80, 443. *)
EXTENDS PortCheck

MCPortNums == {22, 80, 443}
MCPlainLines ==
    {Line("header", 0, "closed", "plain"), Line("short", 0, "closed", "plain")}
    \cup {Line("port", p, s, "plain") : p \in MCPortNums,
                                        s \in {"open", "closed", "filtered"}}
(* Adds a closed or filtered port whose service name contains "open". *)
MCServiceLines ==
    MCPlainLines \cup {Line("port", 1194, s, "openish") : s \in {"closed", "filtered"}}
MCPortLists == {<<>>, <<22>>, <<22, 80>>}
MCOptLists  == {<<>>, <<80>>, <<443, 80>>}
MCNoOptLists == {<<>>}
=============================================================================
