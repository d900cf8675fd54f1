---------------------------- MODULE KVSrvProofs -----------------------------
(***************************************************************************)
(* For any number of clerks, keys and calls: the bits of clerk and server  *)
(* stay in step, and where only one clerk puts and appends to the keys     *)
(* that are put, kvsrv is linearizable.                                    *)
(***************************************************************************)
EXTENDS KVSrv, TLAPS

Handle(c) ==
    HandleGet(c) \/ HandlePut(c) \/ HandleRepeatedAppend(c) \/ HandleAppend(c)

(* A pending call has an operation of the script. *)
LEMMA CurrentOp ==
    ASSUME TypeOK, NEW c \in Clerk, call[c] # "idle"
    PROVE  /\ called[c] \in DOMAIN Script[c]
           /\ Current(c) \in Op
           /\ Current(c).key \in Key /\ Current(c).val \in Nat
           /\ Current(c).type \in {"Get", "Put", "Append"}
<1>1. Script[c] \in Seq(Op)
  BY ScriptAssumption
<1>2. called[c] \in Nat /\ called[c] > 0 /\ called[c] <= Len(Script[c])
  BY DEF TypeOK
<1>3. called[c] \in DOMAIN Script[c]
  BY <1>1, <1>2
<1>4. Script[c][called[c]] \in Op
  BY <1>1, <1>3
<1> QED
  BY <1>3, <1>4 DEF Current, Op

(* Every step keeps the types. *)
LEMMA TypeStep == TypeOK /\ [Next]_vars => TypeOK'
<1> SUFFICES ASSUME TypeOK, [Next]_vars PROVE TypeOK'
  OBVIOUS
<1>1. CASE UNCHANGED vars
  BY <1>1 DEF TypeOK, vars, Returned
<1>2. ASSUME NEW c \in Clerk, Begin(c) PROVE TypeOK'
  <2>1. Script[c] \in Seq(Op)
    BY ScriptAssumption
  <2>2. opstate' \in [Clerk -> BOOLEAN]
    <3>1. Flips(Script[c][called[c] + 1], opstate[c]) \in BOOLEAN
      BY DEF TypeOK, Flips
    <3> QED BY <1>2, <3>1 DEF Begin, TypeOK
  <2>3. called' \in [Clerk -> Nat] /\ \A d \in Clerk : called'[d] <= Len(Script[d])
    BY <1>2, <2>1 DEF Begin, TypeOK
  <2>4. \A d \in Clerk : Len(seen'[d]) = Returned(d)'
    BY <1>2, <2>1 DEF Begin, TypeOK, Returned
  <2>5. args' \in [Clerk -> BOOLEAN] /\ put' \in [Clerk -> BOOLEAN]
    BY <1>2 DEF Begin, TypeOK
  <2>6. \A d \in Clerk : call'[d] # "idle" => called'[d] > 0
    BY <1>2, <2>1 DEF Begin, TypeOK
  <2> QED
    BY <1>2, <2>2, <2>3, <2>4, <2>5, <2>6 DEF Begin, TypeOK, serverVars
<1>3. ASSUME NEW c \in Clerk, Retry(c) PROVE TypeOK'
  BY <1>3 DEF Retry, TypeOK, serverVars, Returned, Empty, Value
<1>4. ASSUME NEW c \in Clerk, Finish(c) PROVE TypeOK'
  <2>1. seen' \in [Clerk -> Seq(Value)]
    BY <1>4 DEF Finish, TypeOK
  <2>2. \A d \in Clerk : Len(seen'[d]) = Returned(d)'
    BY <1>4 DEF Finish, TypeOK, Returned
  <2> QED
    BY <1>4, <2>1, <2>2 DEF Finish, TypeOK, serverVars, Empty, Value
<1>5. ASSUME NEW c \in Clerk, Handle(c) PROVE TypeOK'
  <2> USE DEF Replies, Arrives
  <2>1. call[c] = "calling"
    BY <1>5 DEF Handle, HandleGet, HandlePut, HandleRepeatedAppend, HandleAppend
  <2>2. Current(c).key \in Key /\ Current(c).val \in Nat
    BY <2>1, CurrentOp
  <2>3. CASE HandleGet(c)
    BY <2>1, <2>2, <2>3 DEF HandleGet, TypeOK, serverVars, Returned
  <2>4. CASE HandlePut(c)
    <3>1. <<Current(c).val>> \in Value
      BY <2>2 DEF Value
    <3> QED
      BY <2>1, <2>2, <2>4, <3>1 DEF HandlePut, TypeOK, serverVars, Returned, Empty, Value
  <2>5. CASE HandleRepeatedAppend(c)
    BY <2>1, <2>5 DEF HandleRepeatedAppend, TypeOK, serverVars, Returned
  <2>6. CASE HandleAppend(c)
    <3>1. Append(mp[Current(c).key], Current(c).val) \in Value
      BY <2>2 DEF TypeOK, Value
    <3> QED
      BY <2>1, <2>2, <2>6, <3>1 DEF HandleAppend, TypeOK, serverVars, Returned
  <2> QED
    BY <1>5, <2>3, <2>4, <2>5, <2>6 DEF Handle
<1> QED
  BY <1>1, <1>2, <1>3, <1>4, <1>5 DEF Next, Handle

(* Every variable of kvsrv keeps its type, and an operation returns once   *)
(* (client.go:80-94).                                                      *)
THEOREM TypeCorrect == Spec => []TypeOK
<1>1. Init => TypeOK
  <2>1. \A c \in Clerk : Script[c] \in Seq(Op)
    BY ScriptAssumption
  <2> QED
    BY <2>1 DEF Init, TypeOK, Returned, Empty, Value
<1> QED
  BY <1>1, TypeStep, PTL DEF Spec

-----------------------------------------------------------------------------
(* What one clerk does leaves the bits of the others alone. *)
LEMMA OthersInStep ==
    ASSUME NEW c \in Clerk, NEW d \in Clerk, c # d, TypeOK, InStep(d),
           \/ Begin(c) \/ Retry(c) \/ Finish(c) \/ Handle(c)
    PROVE  InStep(d)'
<1> USE DEF InStep, TypeOK, Current, serverVars
<1>1. CASE Begin(c) \/ Retry(c) \/ Finish(c)
  BY <1>1 DEF Begin, Retry, Finish
<1>2. CASE HandleGet(c) \/ HandlePut(c)
  BY <1>2 DEF HandleGet, HandlePut, Arrives, Replies
<1>3. CASE HandleRepeatedAppend(c) \/ HandleAppend(c)
  BY <1>3 DEF HandleRepeatedAppend, HandleAppend, Arrives, Replies
<1> QED
  BY <1>1, <1>2, <1>3 DEF Handle

(* What a clerk does keeps its own bits in step. *)
LEMMA SelfInStep ==
    ASSUME NEW c \in Clerk, TypeOK, InStep(c),
           \/ Begin(c) \/ Retry(c) \/ Finish(c) \/ Handle(c)
    PROVE  InStep(c)'
<1> USE DEF InStep, TypeOK, Current, serverVars
<1>1. CASE Begin(c)
  BY <1>1 DEF Begin, Flips
<1>2. CASE Retry(c)
  BY <1>2 DEF Retry
<1>3. CASE Finish(c)
  BY <1>3 DEF Finish
<1>4. CASE HandleGet(c) \/ HandlePut(c)
  BY <1>4 DEF HandleGet, HandlePut, Arrives, Replies
<1>5. CASE HandleRepeatedAppend(c)
  BY <1>5 DEF HandleRepeatedAppend, Arrives, Replies, Repeated
<1>6. CASE HandleAppend(c)
  BY <1>6 DEF HandleAppend, Arrives, Replies, Repeated
<1> QED
  BY <1>1, <1>2, <1>3, <1>4, <1>5, <1>6 DEF Handle

(* Every step keeps the bits in step. *)
LEMMA BitsStep == TypeOK /\ BitsInStep /\ [Next]_vars => BitsInStep'
<1> SUFFICES ASSUME TypeOK, BitsInStep, [Next]_vars, NEW d \in Clerk
             PROVE  InStep(d)'
  BY DEF BitsInStep
<1>1. CASE UNCHANGED vars
  BY <1>1 DEF vars, BitsInStep, InStep, Current
<1>2. ASSUME NEW c \in Clerk, Begin(c) \/ Retry(c) \/ Finish(c) \/ Handle(c)
      PROVE  InStep(d)'
  BY <1>2, OthersInStep, SelfInStep DEF BitsInStep
<1> QED
  BY <1>1, <1>2 DEF Next, Handle

(* One bit per clerk tells an Append from its repetition, for any script   *)
(* and whatever replies are lost (server.go:55-65).                        *)
THEOREM BitsCorrect == Spec => []BitsInStep
<1>1. Init => BitsInStep
  BY DEF Init, BitsInStep, InStep
<1> QED
  BY <1>1, TypeCorrect, BitsStep, PTL DEF Spec

-----------------------------------------------------------------------------
(* An executed Put of a key that nobody else writes is still in place, and *)
(* is not reported before it has been executed.                            *)
PutInPlace(c) ==
    call[c] # "idle" /\ Current(c).type = "Put" =>
        /\ put[c] => mp[Current(c).key] = <<Current(c).val>>
        /\ call[c] = "replied" => put[c]

PutsInPlace == \A c \in Clerk : PutInPlace(c)

(* Two clerks with pending writes do not write the key of a Put. *)
LEMMA WritesApart ==
    ASSUME PutsPrivate, TypeOK, NEW c \in Clerk, NEW d \in Clerk, c # d,
           call[c] # "idle", call[d] # "idle",
           Current(c).type = "Put", Current(d).type # "Get"
    PROVE  Current(c).key # Current(d).key
BY CurrentOp DEF PutsPrivate, Current

(* Every step keeps the Puts in place. *)
LEMMA PutsStep ==
    ASSUME PutsPrivate, TypeOK, PutsInPlace, [Next]_vars
    PROVE  PutsInPlace'
<1> SUFFICES ASSUME NEW d \in Clerk PROVE PutInPlace(d)'
  BY DEF PutsInPlace
<1>0. PutInPlace(d)
  BY DEF PutsInPlace
<1>1. CASE UNCHANGED vars
  BY <1>0, <1>1 DEF vars, PutInPlace, Current
<1>2. ASSUME NEW c \in Clerk, Begin(c) \/ Retry(c) \/ Finish(c) PROVE PutInPlace(d)'
  BY <1>0, <1>2 DEF PutInPlace, TypeOK, Current, Begin, Retry, Finish, serverVars
<1>3. ASSUME NEW c \in Clerk, Handle(c) PROVE PutInPlace(d)'
  <2> USE DEF Arrives, Replies
  <2>0. call[c] = "calling"
    BY <1>3 DEF Handle, HandleGet, HandlePut, HandleRepeatedAppend, HandleAppend
  <2>a. Current(c).key \in Key /\ call[c] # "idle"
    BY <2>0, CurrentOp
  <2>1. CASE HandleGet(c)
    BY <1>0, <2>0, <2>1 DEF HandleGet, PutInPlace, TypeOK, Current, serverVars
  <2>2. CASE HandleRepeatedAppend(c)
    BY <1>0, <2>0, <2>2 DEF HandleRepeatedAppend, PutInPlace, TypeOK, Current, serverVars
  <2>3. CASE HandlePut(c) /\ c = d
    BY <2>a, <2>3 DEF HandlePut, PutInPlace, TypeOK, Current
  <2>4. CASE HandlePut(c) /\ c # d
    <3>1. call[d] # "idle" /\ Current(d).type = "Put" => Current(d).key # Current(c).key
      BY <2>4, <2>a, WritesApart DEF HandlePut
    <3> QED
      BY <1>0, <2>4, <2>a, <3>1 DEF HandlePut, PutInPlace, TypeOK, Current
  <2>5. CASE HandleAppend(c) /\ c = d
    BY <2>0, <2>5 DEF HandleAppend, PutInPlace, TypeOK, Current
  <2>6. CASE HandleAppend(c) /\ c # d
    <3>1. call[d] # "idle" /\ Current(d).type = "Put" => Current(d).key # Current(c).key
      BY <2>6, <2>a, WritesApart DEF HandleAppend
    <3> QED
      BY <1>0, <2>6, <2>a, <3>1, SMTT(20) DEF HandleAppend, PutInPlace, TypeOK, Current
  <2> QED
    BY <1>3, <2>1, <2>2, <2>3, <2>4, <2>5, <2>6 DEF Handle
<1> QED
  BY <1>1, <1>2, <1>3 DEF Next, Handle

-----------------------------------------------------------------------------
(* What one clerk does is invisible in the abstract state of the others. *)
LEMMA OthersUnseen ==
    ASSUME NEW c \in Clerk, NEW d \in Clerk, c # d, TypeOK,
           \/ Begin(c) \/ Retry(c) \/ Finish(c) \/ Handle(c)
    PROVE  /\ Returned(d)' = Returned(d)
           /\ Served(d)' = Served(d)
           /\ AnswerOf(d)' = AnswerOf(d)
<1>1. /\ call'[d] = call[d] /\ called'[d] = called[d] /\ put'[d] = put[d]
      /\ cliMap'[d] = cliMap[d] /\ dupMap'[d] = dupMap[d]
      /\ args'[d] = args[d] /\ reply'[d] = reply[d]
  BY DEF TypeOK, Begin, Retry, Finish, Handle, Replies, HandleGet, HandlePut,
         HandleRepeatedAppend, HandleAppend, serverVars
<1> QED
  BY <1>1 DEF Returned, Served, AnswerOf, Current

(* So the abstract state changes at the acting clerk alone. *)
LEMMA OneClerk ==
    ASSUME NEW c \in Clerk, TypeOK,
           \/ Begin(c) \/ Retry(c) \/ Finish(c) \/ Handle(c)
    PROVE  /\ [d \in Clerk |-> Returned(d)]'
                = [[d \in Clerk |-> Returned(d)] EXCEPT ![c] = Returned(c)']
           /\ [d \in Clerk |-> Served(d)]'
                = [[d \in Clerk |-> Served(d)] EXCEPT ![c] = Served(c)']
           /\ [d \in Clerk |-> AnswerOf(d)]'
                = [[d \in Clerk |-> AnswerOf(d)] EXCEPT ![c] = AnswerOf(c)']
BY OthersUnseen

(* Calling maps to Invoke. *)
LEMMA BeginInvokes ==
    ASSUME NEW c \in Clerk, TypeOK, BitsInStep, Begin(c)
    PROVE  L!Invoke(c)
<1>1. /\ Returned(c) = called[c] /\ Returned(c)' = called[c]
      /\ called' = [called EXCEPT ![c] = @ + 1] /\ mp' = mp
  BY DEF Begin, TypeOK, Returned, serverVars
<1>2. ~Served(c) /\ ~Served(c)'
  <2>1. cliMap'[c] = args'[c] /\ ~put'[c] /\ call'[c] = "calling"
    BY DEF Begin, TypeOK, BitsInStep, InStep, serverVars
  <2> QED
    BY <2>1 DEF Served, Begin
<1>3. Served(c)' = Served(c) /\ AnswerOf(c)' = AnswerOf(c)
  BY <1>2 DEF AnswerOf, Served
<1>4. /\ [d \in Clerk |-> Returned(d)]' = [d \in Clerk |-> Returned(d)]
      /\ [d \in Clerk |-> Served(d)]' = [d \in Clerk |-> Served(d)]
      /\ [d \in Clerk |-> AnswerOf(d)]' = [d \in Clerk |-> AnswerOf(d)]
  BY <1>1, <1>2, <1>3, OthersUnseen
<1> QED
  BY <1>1, <1>4 DEF L!Invoke, Begin

(* Returning maps to Return. *)
LEMMA FinishReturns ==
    ASSUME NEW c \in Clerk, TypeOK, BitsInStep, PutsInPlace, Finish(c)
    PROVE  L!Return(c)
<1>1. Served(c) /\ Returned(c)' = called[c]
  BY CurrentOp DEF Finish, Served, TypeOK, Returned, BitsInStep, InStep,
     PutsInPlace, PutInPlace
<1>2. Served(c)' = FALSE /\ AnswerOf(c)' = Empty
  BY DEF Finish, Served, AnswerOf, TypeOK
<1>3. mp' = mp /\ called' = called
  BY DEF Finish, serverVars
<1> QED
  BY <1>1, <1>2, <1>3, OneClerk DEF L!Return, L!Empty, Empty

(* Losing the reply of a Get is LoseRead; of anything else, nothing. *)
LEMMA RetryStutters ==
    ASSUME NEW c \in Clerk, TypeOK, BitsInStep, PutsInPlace, Retry(c)
    PROVE  L!LoseRead(c) \/ UNCHANGED L!linearVars
<1>0. /\ mp' = mp /\ called' = called /\ Returned(c)' = Returned(c)
      /\ Current(c)' = Current(c)
  BY DEF Retry, serverVars, Returned, TypeOK, Current
<1>1. CASE Current(c).type = "Get"
  <2>1. Served(c) /\ Served(c)' = FALSE /\ AnswerOf(c)' = Empty
    BY <1>0, <1>1 DEF Retry, Served, AnswerOf, TypeOK
  <2>2. [d \in Clerk |-> Returned(d)]' = [d \in Clerk |-> Returned(d)]
    BY <1>0, OthersUnseen
  <2> QED
    BY <1>0, <1>1, <2>1, <2>2, OneClerk DEF L!LoseRead, L!Empty, L!Current, Current, Empty
<1>2. CASE Current(c).type # "Get"
  <2>1. Served(c)' = Served(c) /\ AnswerOf(c)' = AnswerOf(c)
    BY <1>0, <1>2, CurrentOp DEF Retry, Served, AnswerOf, TypeOK, serverVars
  <2> QED
    BY <1>0, <2>1, OthersUnseen DEF L!linearVars
<1> QED
  BY <1>1, <1>2

(* Executing an operation is Serve; executing it again, nothing. *)
LEMMA HandleServes ==
    ASSUME NEW c \in Clerk, PutsPrivate, TypeOK, BitsInStep, PutsInPlace, Handle(c)
    PROVE  L!Serve(c) \/ UNCHANGED L!linearVars
<1> USE DEF Arrives, Replies
<1>0. /\ call[c] = "calling" /\ call'[c] = "replied" /\ called' = called
      /\ Returned(c)' = Returned(c) /\ Returned(c) < called[c]
      /\ Current(c)' = Current(c)
      /\ L!Current(c) = Current(c)
  BY SMTT(20) DEF Handle, HandleGet, HandlePut, HandleRepeatedAppend, HandleAppend,
         TypeOK, Returned, Current, L!Current
<1>a. Current(c).key \in Key
  BY <1>0, CurrentOp
<1>1. CASE HandleGet(c)
  <2>1. ~Served(c) /\ Served(c)' /\ AnswerOf(c)' = mp[Current(c).key] /\ mp' = mp
    BY <1>0, <1>1 DEF HandleGet, Served, AnswerOf, TypeOK, serverVars
  <2>2. L!After(mp, Current(c)) = mp /\ L!AnswerTo(mp, Current(c)) = mp[Current(c).key]
    BY <1>1 DEF HandleGet, L!After, L!AnswerTo
  <2>3. [d \in Clerk |-> Returned(d)]' = [d \in Clerk |-> Returned(d)]
    BY <1>0, OthersUnseen
  <2> QED
    BY <1>0, <2>1, <2>2, <2>3, OneClerk DEF L!Serve
<1>2. CASE HandlePut(c) /\ ~put[c]
  <2>1. ~Served(c) /\ Served(c)' /\ AnswerOf(c)' = Empty
    BY <1>0, <1>2 DEF HandlePut, Served, AnswerOf, TypeOK
  <2>2. L!After(mp, Current(c)) = mp' /\ L!AnswerTo(mp, Current(c)) = Empty
    BY <1>2 DEF HandlePut, L!After, L!AnswerTo, L!Empty, Empty
  <2>3. [d \in Clerk |-> Returned(d)]' = [d \in Clerk |-> Returned(d)]
    BY <1>0, OthersUnseen
  <2> QED
    BY <1>0, <2>1, <2>2, <2>3, OneClerk DEF L!Serve
<1>3. CASE HandlePut(c) /\ put[c]
  <2>1. Served(c)' = Served(c) /\ AnswerOf(c)' = AnswerOf(c)
    BY <1>0, <1>3 DEF HandlePut, Served, AnswerOf, TypeOK
  <2>2. mp' = mp
    BY <1>0, <1>3, <1>a DEF HandlePut, PutsInPlace, PutInPlace, TypeOK
  <2> QED
    BY <1>0, <2>1, <2>2, OthersUnseen DEF L!linearVars
<1>4. CASE HandleRepeatedAppend(c)
  <2>1. Served(c)' = Served(c) /\ AnswerOf(c)' = AnswerOf(c) /\ mp' = mp
    BY <1>0, <1>4 DEF HandleRepeatedAppend, Served, AnswerOf, TypeOK, serverVars, Repeated
  <2> QED
    BY <1>0, <2>1, OthersUnseen DEF L!linearVars
<1>5. CASE HandleAppend(c)
  <2>1. ~Served(c) /\ Served(c)' /\ AnswerOf(c)' = mp[Current(c).key]
    BY <1>0, <1>5 DEF HandleAppend, Served, AnswerOf, TypeOK, Repeated
  <2>2. /\ L!After(mp, Current(c)) = mp'
        /\ L!AnswerTo(mp, Current(c)) = mp[Current(c).key]
    BY <1>5 DEF HandleAppend, L!After, L!AnswerTo
  <2>3. [d \in Clerk |-> Returned(d)]' = [d \in Clerk |-> Returned(d)]
    BY <1>0, OthersUnseen
  <2> QED
    BY <1>0, <2>1, <2>2, <2>3, OneClerk DEF L!Serve
<1> QED
  BY <1>1, <1>2, <1>3, <1>4, <1>5 DEF Handle

(* kvsrv implements the linearizable store, for any clerks, keys and       *)
(* scripts in which a key that is put has one writer: repeated requests    *)
(* (client.go:50-58, 84-92) then never show.                               *)
THEOREM KVSrvLinearizable == PutsPrivate => (Spec => Linearizable)
<1> SUFFICES ASSUME PutsPrivate PROVE Spec => Linearizable
  OBVIOUS
<1> DEFINE Inv == TypeOK /\ BitsInStep /\ PutsInPlace
<1>1. Init => L!LInit
  BY DEF Init, L!LInit, L!Empty, Empty, Returned, Served, AnswerOf
<1>2. Init => PutsInPlace
  BY DEF Init, PutsInPlace, PutInPlace
<1>3. PutsInPlace /\ TypeOK /\ [Next]_vars => PutsInPlace'
  BY PutsStep
<1>4. Inv /\ [Next]_vars => [L!LNext]_(L!linearVars)
  <2> SUFFICES ASSUME Inv, [Next]_vars PROVE [L!LNext]_(L!linearVars)
    OBVIOUS
  <2>1. CASE UNCHANGED vars
    BY <2>1 DEF vars, L!linearVars, Returned, Served, AnswerOf, Current
  <2>2. ASSUME NEW c \in Clerk, Begin(c) \/ Retry(c) \/ Finish(c) \/ Handle(c)
        PROVE  [L!LNext]_(L!linearVars)
    BY <2>2, BeginInvokes, RetryStutters, FinishReturns, HandleServes DEF L!LNext
  <2> QED
    BY <2>1, <2>2 DEF Next, Handle
<1> QED
  BY <1>1, <1>2, <1>3, <1>4, TypeCorrect, BitsCorrect, PTL
     DEF Spec, Linearizable, L!LSpec

=============================================================================
