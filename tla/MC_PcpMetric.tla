---------------------------- MODULE MC_PcpMetric ----------------------------
(* check_pcpmetric on small inputs: samples 0..3, thresholds 1 and 2.  *)
EXTENDS PcpMetric

MCValues == 0..3
MCThresholdArgs == {1, 2}

(* pmval's output: header lines then one sample; an error message; none. *)
MCHeader == <<TextLine, TextLine>>
MCOutputs ==
    {MCHeader \o <<ValueLine(v)>> : v \in MCValues} \cup {<<TextLine>>, <<>>}

(* A pmval output longer than the pipe buffer. *)
MCLongOutputs == {MCHeader \o MCHeader \o <<ValueLine(1)>>}
=============================================================================
