------------------------------ MODULE LogChannel ------------------------------
(***************************************************************************)
(* What the log sink of log.c promises to its user: the elements it        *)
(* accepts are handed to the sink's callback in order, each exactly once,  *)
(* and the sink closes only when none of them is left.  Elements are       *)
(* numbered in the order of their acceptance.                              *)
(***************************************************************************)
EXTENDS Integers, Sequences

VARIABLES
  sent,   (* number of elements accepted so far                           *)
  got,    (* the elements handed to the callback                          *)
  state   (* "open", "closed", or "failed": the callback refused to open  *)

vars == <<sent, got, state>>

Init == sent = 0 /\ got = <<>> /\ state = "open"

Accept ==
  /\ state # "closed"
  /\ sent' \in Nat /\ sent' > sent
  /\ UNCHANGED <<got, state>>

Deliver ==
  /\ state = "open"
  /\ Len(got) < sent
  /\ got' = Append(got, Len(got) + 1)
  /\ UNCHANGED <<sent, state>>

Close ==
  /\ state = "open"
  /\ Len(got) = sent
  /\ state' = "closed"
  /\ UNCHANGED <<sent, got>>

Fail ==
  /\ state = "open"
  /\ got = <<>>
  /\ state' = "failed"
  /\ UNCHANGED <<sent, got>>

Next == Accept \/ Deliver \/ Close \/ Fail

Spec == Init /\ [][Next]_vars

=============================================================================
