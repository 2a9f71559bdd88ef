------------------------------ MODULE MCAxiRam ------------------------------
(* Four bytes in two words, bursts of up to two or three beats over the end *)
(* of the memory, narrow and wide beats.                                    *)
EXTENDS AxiRam, TLC

Req(id, addr, len, size, burst) ==
  [id |-> id, addr |-> addr, len |-> len, size |-> size, burst |-> burst]

ExternalMemory == [READ_ON_WRITE |-> TRUE, PIPELINE_OUTPUT |-> FALSE]
BootMemory     == [READ_ON_WRITE |-> TRUE, PIPELINE_OUTPUT |-> TRUE]
SinglePort     == [READ_ON_WRITE |-> FALSE, PIPELINE_OUTPUT |-> TRUE]

AllBuilds  == {ExternalMemory, BootMemory, SinglePort}
AllMasters ==
  {[stalls |-> FALSE, overlaps |-> FALSE], [stalls |-> FALSE, overlaps |-> TRUE],
   [stalls |-> TRUE, overlaps |-> TRUE]}

Reads  == {Req(0, 2, 1, 1, "INCR"), Req(1, 1, 2, 0, "INCR")}
Writes == {Req(0, 2, 1, 1, "INCR"), Req(1, 1, 0, 0, "FIXED")}

Beat(a, b, strb) == [data |-> (0 :> a @@ 1 :> b), strb |-> strb]
Beats == {Beat(1, 2, {1})}
=============================================================================
