---------------------------- MODULE MC_NmapTask -----------------------------
(* A small instance of NmapTask: -p 22 -o 80, three reports. *)
EXTENDS NmapTask

CONSTANT NaN

L22open   == Line("port", 22, "open", "plain")
L80open   == Line("port", 80, "open", "plain")
L443open  == Line("port", 443, "open", "plain")
LHeader   == Line("header", 0, "closed", "plain")

MCTTLs     == {-1, 0, 2, NaN}
MCReports  == {<<LHeader, L22open>>,
               <<LHeader, L22open, L80open>>,
               <<LHeader, L443open>>}
MCPorts    == <<22>>
MCOptPorts == <<80>>
=============================================================================
