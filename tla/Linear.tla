------------------------------- MODULE Linear -------------------------------
(***************************************************************************)
(* What the key/value services promise their clerks: linearizability.      *)
(* Every operation of a clerk takes effect at one moment between its call  *)
(* and its return, exactly once; a read whose answer is lost on its way    *)
(* may be read again.  This is the sequential object of models/kv.go (a    *)
(* value is the list of what was put and appended, in place of a string)   *)
(* under porcupine's condition.                                            *)
(***************************************************************************)
EXTENDS KVModel

CONSTANTS
    Clerk, Key,
    Script     \* what each clerk calls, in this order: bounds the clerks

Op == [type : {"Get", "Put", "Append"}, key : Key, val : Nat]

VARIABLES
    store,     \* key -> list of values
    called,    \* clerk -> operations called
    returned,  \* clerk -> operations returned
    served,    \* clerk -> has the current operation taken effect?
    answer     \* clerk -> the answer of the current operation, once served

linearVars == <<store, called, returned, served, answer>>

Current(c) == Script[c][called[c]]

LInit ==
    /\ store = [k \in Key |-> Empty]
    /\ called = [c \in Clerk |-> 0]
    /\ returned = [c \in Clerk |-> 0]
    /\ served = [c \in Clerk |-> FALSE]
    /\ answer = [c \in Clerk |-> Empty]

Invoke(c) ==
    /\ called[c] = returned[c]
    /\ called[c] < Len(Script[c])
    /\ called' = [called EXCEPT ![c] = @ + 1]
    /\ UNCHANGED <<store, returned, served, answer>>

Serve(c) ==
    /\ called[c] > returned[c]
    /\ ~served[c]
    /\ store' = After(store, Current(c))
    /\ served' = [served EXCEPT ![c] = TRUE]
    /\ answer' = [answer EXCEPT ![c] = AnswerTo(store, Current(c))]
    /\ UNCHANGED <<called, returned>>

LoseRead(c) ==
    /\ served[c]
    /\ Current(c).type = "Get"
    /\ served' = [served EXCEPT ![c] = FALSE]
    /\ answer' = [answer EXCEPT ![c] = Empty]
    /\ UNCHANGED <<store, called, returned>>

Return(c) ==
    /\ served[c]
    /\ returned' = [returned EXCEPT ![c] = called[c]]
    /\ served' = [served EXCEPT ![c] = FALSE]
    /\ answer' = [answer EXCEPT ![c] = Empty]
    /\ UNCHANGED <<store, called>>

LNext == \E c \in Clerk : Invoke(c) \/ Serve(c) \/ LoseRead(c) \/ Return(c)

LSpec == LInit /\ [][LNext]_linearVars

=============================================================================
