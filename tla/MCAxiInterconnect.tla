------------------------- MODULE MCAxiInterconnect -------------------------
(* A data bus that reads and writes and an instruction bus that reads; two  *)
(* slaves of different sizes, and addresses of neither.                     *)
EXTENDS AxiInterconnect

Req(id, addr, len) == [id |-> id, addr |-> addr, len |-> len]

TwoSlaves == [m \in 0 .. 1 |-> IF m = 0 THEN 2 ELSE 1]

DataBus == 0
Reads  == [s \in 0 .. 1 |->
            IF s = DataBus THEN {Req(0, 4, 2), Req(0, 6, 1)} ELSE {Req(1, 1, 1)}]
Writes == [s \in 0 .. 1 |->
            IF s = DataBus THEN {Req(0, 4, 2), Req(1, 2, 0), Req(0, 7, 0)} ELSE {}]
=============================================================================
