------------------------------- MODULE KVSrv --------------------------------
(***************************************************************************)
(* The single key/value server of kvsrv and its clerks.  A clerk sends the *)
(* same arguments again until a Call succeeds.  The network loses requests *)
(* (nothing happens) and replies (the handler has run); labrpc never runs  *)
(* a request whose Call has returned while the server lives, and this      *)
(* server is never restarted.  Append recognises a repetition by one bit   *)
(* per clerk; Put and Get do not try to.  The handlers hold kv.mu from     *)
(* beginning to end, so each is one step.                                  *)
(***************************************************************************)
EXTENDS Integers, Sequences

CONSTANTS
    Clerk, Key,
    Script     \* what each clerk calls, in this order: bounds the clerks

Op == [type : {"Get", "Put", "Append"}, key : Key, val : Nat]

ASSUME ScriptAssumption == Script \in [Clerk -> Seq(Op)]

Empty == <<>>

VARIABLES
    mp,        \* key -> value, the list of what was put and appended
    cliMap,    \* clerk -> the bit its next Append is expected to carry
    dupMap,    \* clerk -> the answer of its last Append
    opstate,   \* clerk -> the bit its next Append will carry
    call,      \* clerk -> "idle", "calling", or "replied": a reply is under way
    args,      \* clerk -> the bit in the arguments of the current call
    reply,     \* clerk -> the reply under way
    called,    \* clerk -> operations called so far
    put,       \* history: clerk -> has the current Put been executed?
    seen       \* history: clerk -> what its operations returned

serverVars == <<mp, cliMap, dupMap>>
vars == <<mp, cliMap, dupMap, opstate, call, args, reply, called, put, seen>>

Current(c) == Script[c][called[c]]

(* StartKVServer and MakeClerk *)
Init ==
    /\ mp = [k \in Key |-> Empty]
    /\ cliMap = [c \in Clerk |-> FALSE]
    /\ dupMap = [c \in Clerk |-> Empty]
    /\ opstate = [c \in Clerk |-> FALSE]
    /\ call = [c \in Clerk |-> "idle"]
    /\ args = [c \in Clerk |-> FALSE]
    /\ reply = [c \in Clerk |-> Empty]
    /\ called = [c \in Clerk |-> 0]
    /\ put = [c \in Clerk |-> FALSE]
    /\ seen = [c \in Clerk |-> <<>>]

-----------------------------------------------------------------------------
(* The clerk *)

(* Clerk.Get or Clerk.PutAppend up to the first Call.  Only an Append      *)
(* flips the clerk's bit, after the arguments have taken its old value.    *)
\* Mutant: a Put flips the bit as well
FlipsOnWrite(op, bit) == IF op.type = "Get" THEN bit ELSE ~bit

Flips(op, bit) == IF op.type = "Append" THEN ~bit ELSE bit

Begin(c) ==
    /\ call[c] = "idle"
    /\ called[c] < Len(Script[c])
    /\ called' = [called EXCEPT ![c] = @ + 1]
    /\ call' = [call EXCEPT ![c] = "calling"]
    /\ args' = [args EXCEPT ![c] = opstate[c]]
    /\ opstate' = [opstate EXCEPT ![c] = Flips(Script[c][called[c] + 1], @)]
    /\ put' = [put EXCEPT ![c] = FALSE]
    /\ UNCHANGED <<serverVars, reply, seen>>

(* The reply is lost, Call returns false and the loop sends args again.    *)
Retry(c) ==
    /\ call[c] = "replied"
    /\ call' = [call EXCEPT ![c] = "calling"]
    /\ reply' = [reply EXCEPT ![c] = Empty]
    /\ UNCHANGED <<serverVars, opstate, args, called, put, seen>>

(* Call returns true: the operation returns what the reply says.           *)
Finish(c) ==
    /\ call[c] = "replied"
    /\ call' = [call EXCEPT ![c] = "idle"]
    /\ reply' = [reply EXCEPT ![c] = Empty]
    /\ seen' = [seen EXCEPT ![c] = Append(@, reply[c])]
    /\ UNCHANGED <<serverVars, opstate, args, called, put>>

-----------------------------------------------------------------------------
(* The server *)

Arrives(c, type) == call[c] = "calling" /\ Current(c).type = type

Replies(c, val) ==
    /\ call' = [call EXCEPT ![c] = "replied"]
    /\ reply' = [reply EXCEPT ![c] = val]

(* KVServer.Get *)
HandleGet(c) ==
    /\ Arrives(c, "Get")
    /\ Replies(c, mp[Current(c).key])
    /\ UNCHANGED <<serverVars, opstate, args, called, put, seen>>

(* KVServer.Put *)
HandlePut(c) ==
    /\ Arrives(c, "Put")
    /\ mp' = [mp EXCEPT ![Current(c).key] = <<Current(c).val>>]
    /\ put' = [put EXCEPT ![c] = TRUE]
    /\ Replies(c, Empty)
    /\ UNCHANGED <<cliMap, dupMap, opstate, args, called, seen>>

\* Mutant: no test for a repetition
NeverRepeated(c) == FALSE

(* KVServer.Append: an Append with the other bit has been done already.    *)
Repeated(c) == cliMap[c] # args[c]

\* Mutant: a repetition gets no answer
IgnoreRepeatedAppend(c) ==
    /\ Arrives(c, "Append")
    /\ Repeated(c)
    /\ UNCHANGED vars

HandleRepeatedAppend(c) ==
    /\ Arrives(c, "Append")
    /\ Repeated(c)
    /\ Replies(c, dupMap[c])
    /\ UNCHANGED <<serverVars, opstate, args, called, put, seen>>

HandleAppend(c) ==
    /\ Arrives(c, "Append")
    /\ ~Repeated(c)
    /\ cliMap' = [cliMap EXCEPT ![c] = ~@]
    /\ mp' = [mp EXCEPT ![Current(c).key] = Append(@, Current(c).val)]
    /\ dupMap' = [dupMap EXCEPT ![c] = mp[Current(c).key]]
    /\ Replies(c, mp[Current(c).key])
    /\ UNCHANGED <<opstate, args, called, put, seen>>

Next ==
    \E c \in Clerk :
        \/ Begin(c) \/ Retry(c) \/ Finish(c)
        \/ HandleGet(c) \/ HandlePut(c)
        \/ HandleRepeatedAppend(c) \/ HandleAppend(c)

(* A clerk calls, tries again and returns as long as it can; its request   *)
(* is executed when it arrives; a network that lets through no reply is    *)
(* the only thing that stops it.                                           *)
Fairness ==
    \A c \in Clerk :
        /\ WF_vars(Begin(c)) /\ SF_vars(Finish(c))
        /\ WF_vars(HandleGet(c) \/ HandlePut(c)
                     \/ HandleRepeatedAppend(c) \/ HandleAppend(c))

Spec == Init /\ [][Next]_vars
FairSpec == Spec /\ Fairness

-----------------------------------------------------------------------------
(* Properties *)

Value == Seq(Nat)

Returned(c) == IF call[c] = "idle" THEN called[c] ELSE called[c] - 1

(* Every variable keeps its type, and every operation that has returned    *)
(* has returned one answer.                                                *)
TypeOK ==
    /\ mp \in [Key -> Value]
    /\ cliMap \in [Clerk -> BOOLEAN]
    /\ dupMap \in [Clerk -> Value]
    /\ opstate \in [Clerk -> BOOLEAN]
    /\ call \in [Clerk -> {"idle", "calling", "replied"}]
    /\ args \in [Clerk -> BOOLEAN]
    /\ reply \in [Clerk -> Value]
    /\ called \in [Clerk -> Nat]
    /\ \A c \in Clerk : called[c] <= Len(Script[c])
    /\ \A c \in Clerk : call[c] # "idle" => called[c] > 0
    /\ put \in [Clerk -> BOOLEAN]
    /\ seen \in [Clerk -> Seq(Value)]
    /\ \A c \in Clerk : Len(seen[c]) = Returned(c)

InStep(c) ==
    IF call[c] # "idle" /\ Current(c).type = "Append"
    THEN /\ opstate[c] = ~args[c]
         /\ call[c] = "replied" => cliMap[c] # args[c] /\ reply[c] = dupMap[c]
    ELSE cliMap[c] = opstate[c]

(* The bit of the clerk and the bit the server expects of it agree while   *)
(* no Append of the clerk is pending; while one is, the clerk's bit is     *)
(* already the next one, so the test of the server tells a repetition from *)
(* the next Append; and an Append that has been executed and is answered   *)
(* is answered with what it returned the first time (server.go:55-65).     *)
BitsInStep == \A c \in Clerk : InStep(c)

(* Put is not protected against repetition: a repeated Put is harmless     *)
(* when only one clerk writes the key.                                     *)
PutsPrivate ==
    \A c, d \in Clerk :
        \A i \in DOMAIN Script[c], j \in DOMAIN Script[d] :
            /\ Script[c][i].type = "Put"
            /\ Script[d][j].type # "Get"
            /\ Script[c][i].key = Script[d][j].key
            => c = d

(* How the linearizable store reads in this server: a Get takes effect     *)
(* when its last execution replies, a Put and an Append when they are      *)
(* first executed.                                                         *)
Served(c) ==
    /\ call[c] # "idle"
    /\ \/ Current(c).type = "Get" /\ call[c] = "replied"
       \/ Current(c).type = "Put" /\ put[c]
       \/ Current(c).type = "Append" /\ cliMap[c] # args[c]

AnswerOf(c) ==
    CASE ~Served(c) -> Empty
      [] Served(c) /\ Current(c).type = "Get" -> reply[c]
      [] Served(c) /\ Current(c).type = "Put" -> Empty
      [] Served(c) /\ Current(c).type = "Append" -> dupMap[c]

L == INSTANCE Linear WITH
        store <- mp,
        returned <- [c \in Clerk |-> Returned(c)],
        served <- [c \in Clerk |-> Served(c)],
        answer <- [c \in Clerk |-> AnswerOf(c)]

(* Every execution with the clerks of the script, over a network that      *)
(* loses requests and replies, is linearizable.                            *)
Linearizable == L!LSpec

(* What a clerk has read and then overwritten it never reads again         *)
(* (values are put once): put twice, the value would have taken effect     *)
(* both before and after the clerk's own Put.                              *)
OverwrittenStaysOverwritten ==
    \A c \in Clerk : \A i, j, l \in DOMAIN seen[c] :
        /\ i < j /\ j < l
        /\ Script[c][i].type = "Get" /\ Script[c][l].type = "Get"
        /\ Script[c][j].type = "Put"
        /\ Script[c][i].key = Script[c][j].key
        /\ Script[c][l].key = Script[c][j].key
        /\ seen[c][i] # Empty
        => seen[c][l] # seen[c][i]

(* Every clerk gets through its script. *)
AllReturn == <>(\A c \in Clerk : called[c] = Len(Script[c]) /\ call[c] = "idle")

=============================================================================
