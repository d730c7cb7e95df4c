--------------------------- MODULE MCClientStream ----------------------------
(* An instance of ClientStream for TLC: every line and set of fields, and   *)
(* frames of each opcode, length form and mask.                             *)
EXTENDS ClientStream

MCRequests ==
  {r \in [line : Lines, fields : SUBSET Fields, body : {0, BodyLength}] :
     r.body = BodyLength <=> "length" \in r.fields}

MCFrameKinds ==
  {[op |-> "text", ext |-> 0, mask |-> 4, len |-> 1],
   [op |-> "text", ext |-> 2, mask |-> 0, len |-> 1],
   [op |-> "binary", ext |-> 8, mask |-> 0, len |-> 0],
   [op |-> "ping", ext |-> 0, mask |-> 0, len |-> 0],
   [op |-> "close", ext |-> 0, mask |-> 4, len |-> 1]}

MCSizes == {126, 65536}
=============================================================================
