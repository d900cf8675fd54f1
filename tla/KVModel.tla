------------------------------ MODULE KVModel -------------------------------
(* The sequential key/value object of models/kv.go.  A value is the list   *)
(* of what was put and appended, in place of the string they make.         *)
EXTENDS Integers, Sequences

Empty == <<>>

(* The store after an operation, and what the operation answers.           *)
After(st, op) ==
    CASE op.type = "Put" -> [st EXCEPT ![op.key] = <<op.val>>]
      [] op.type = "Append" -> [st EXCEPT ![op.key] = Append(@, op.val)]
      [] op.type = "Get" -> st

AnswerTo(st, op) == IF op.type = "Put" THEN Empty ELSE st[op.key]

=============================================================================
