--------------------------- MODULE MCSimulationStep ---------------------------
(* Schematics of four kinds of blocks with one bit of data: a delay, which  *)
(* a reset gives its initial output; a nested schematic with a delay in it, *)
(* which listens to an event of its own and sets no output when it is       *)
(* reset; a filter with a state and a direct feedthrough, whose output is   *)
(* zero after a reset; and a gain, which inverts its input.                 *)
EXTENDS SimulationStep

Delay  == [nin |-> 1, nout |-> 1, dynamic |-> TRUE,  dfeed |-> FALSE, events |-> {0}]
Nested == [nin |-> 1, nout |-> 1, dynamic |-> TRUE,  dfeed |-> FALSE, events |-> {1}]
Filter == [nin |-> 1, nout |-> 1, dynamic |-> TRUE,  dfeed |-> TRUE,  events |-> {0}]
Gain   == [nin |-> 1, nout |-> 1, dynamic |-> FALSE, dfeed |-> TRUE,  events |-> {}]

MCKinds == {Delay, Nested, Filter, Gain}

MCCalcOutput(k, x, u)  == IF ~k.dfeed THEN x ELSE IF k.dynamic THEN (x + u[1]) % 2 ELSE 1 - u[1]
MCUpdateState(k, x, u) == u[1]
MCResetOutput(k, y)    == IF k \in {Delay, Filter} THEN 0 ELSE y
=============================================================================
