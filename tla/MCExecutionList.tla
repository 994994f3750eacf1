--------------------------- MODULE MCExecutionList ---------------------------
(* Small schematics of the block kinds the set-up tells apart: a source    *)
(* with two outputs, a delay (purely dynamic) and a block with two inputs, *)
(* a state and a direct feedthrough.                                       *)
EXTENDS ExecutionList

Source == [nin |-> 0, nout |-> 2, dynamic |-> FALSE, dfeed |-> FALSE,
           events |-> {0}]
Delay  == [nin |-> 1, nout |-> 1, dynamic |-> TRUE,  dfeed |-> FALSE,
           events |-> {0}]
Filter == [nin |-> 2, nout |-> 1, dynamic |-> TRUE,  dfeed |-> TRUE,
           events |-> {0}]

MCKinds == {Source, Delay, Filter}
=============================================================================
