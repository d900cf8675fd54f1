------------------------------ MODULE MCKVSrv -------------------------------
(* Instances of KVSrv for TLC. *)
EXTENDS KVSrv, TLC

CONSTANTS c1, c2, c3, k1, k2

get(k) == [type |-> "Get", key |-> k, val |-> 0]
putTo(k, v) == [type |-> "Put", key |-> k, val |-> v]
append(k, v) == [type |-> "Append", key |-> k, val |-> v]

(* Three clerks share k1, which is only appended to; k2 is put by c1 alone *)
(* and read by the others.                                                 *)
MixedScript ==
    c1 :> <<append(k1, 1), putTo(k2, 2), append(k1, 3), putTo(k2, 4)>>
 @@ c2 :> <<append(k1, 5), get(k2), append(k1, 6)>>
 @@ c3 :> <<get(k1), append(k1, 7), get(k1)>>

(* Two clerks put the same key. *)
SharedPutScript ==
    c1 :> <<putTo(k1, 1)>>
 @@ c2 :> <<get(k1), putTo(k1, 2), get(k1)>>

=============================================================================
