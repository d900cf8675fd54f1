---------------------------- MODULE LabRPCProofs ----------------------------
(***************************************************************************)
(* That a positive reply is about state that survives, for any number of   *)
(* ends, servers, requests, crashes and switches.                          *)
(***************************************************************************)
EXTENDS LabRPC, TLAPS

Place == {"idle", "sending", "delayed", "waiting", "checking", "replying", "returned"}
Target == [name : ServerName \cup {NoName}, server : Nat, reliable : BOOLEAN]

(* Types of the variables. *)
TypeInv ==
    /\ ends \subseteq End /\ enabled \subseteq End
    /\ connections \in [End -> ServerName \cup {NoName}]
    /\ servers \in [ServerName -> Nat]
    /\ reliable \in BOOLEAN
    /\ call \in [Request -> [at : Place, to : Target, replyOK : BOOLEAN]]
    /\ handler \in [Request -> {"none", "running", "offering", "gone"}]
    /\ started \in Nat
    /\ owner \in [ServerName -> Nat]
    /\ saved \in [ServerName -> SUBSET Request]

(* A server on the network is the one that writes the persister of its     *)
(* name, and servers are numbered in the order in which they are started.  *)
OwnersOnline ==
    \A n \in ServerName : owner[n] <= started /\ servers[n] \in {0, owner[n]}

(* A request that has got past processReq has a server it was read for. *)
HasServer(c) ==
    call[c].to.name \in ServerName /\ call[c].to.server \in 1..started

IsExecuted(c) == handler[c] \in {"offering", "gone"}

(* What a handler did is in the persister, unless the persister had been   *)
(* taken from its server when it did it: and then the server will never    *)
(* write it again, because numbers do not come back.                       *)
Kept(c) ==
    LET n == call[c].to.name
    IN  c \in saved[n] \/ owner[n] # call[c].to.server

RequestInv(c) ==
    /\ call[c].at \in {"idle", "sending", "delayed"} =>
         handler[c] = "none" /\ ~call[c].replyOK
    /\ call[c].at \in {"delayed", "waiting", "checking"} => HasServer(c)
    /\ handler[c] # "none" => HasServer(c)
    /\ call[c].replyOK => IsExecuted(c)
    /\ IsExecuted(c) => Kept(c)
    /\ call[c].replyOK /\ call[c].at \in {"replying", "returned"} =>
         c \in saved[call[c].to.name]

(* The inductive invariant. *)
KeptInv ==
    /\ TypeInv
    /\ OwnersOnline
    /\ \A c \in Request : RequestInv(c)

-----------------------------------------------------------------------------
LEMMA InitKept == Init => KeptInv
BY LabRPCAssumption
   DEF Init, KeptInv, TypeInv, OwnersOnline, RequestInv, IsExecuted, At, Nowhere, Place, Target

(* What the tester does to the network leaves requests alone. *)
LEMMA TesterTypes ==
    ASSUME KeptInv, TesterStep
    PROVE  TypeInv' /\ OwnersOnline' /\ call' = call /\ handler' = handler /\ saved' = saved
<1> USE DEF KeptInv, testerVars, networkVars
<1>1. ASSUME NEW e \in End, MakeEnd(e) \/ DeleteEnd(e) \/ Enable(e)
      PROVE  TypeInv' /\ OwnersOnline' /\ call' = call /\ handler' = handler /\ saved' = saved
  BY <1>1 DEF TypeInv, OwnersOnline, MakeEnd, DeleteEnd, Enable
<1>2. ASSUME NEW e \in End, NEW n \in ServerName, Connect(e, n)
      PROVE  TypeInv' /\ OwnersOnline' /\ call' = call /\ handler' = handler /\ saved' = saved
  BY <1>2 DEF TypeInv, OwnersOnline, Connect
<1>3. ASSUME NEW n \in ServerName, AddServer(n) \/ DeleteServer(n) \/ Supersede(n)
      PROVE  TypeInv' /\ OwnersOnline' /\ call' = call /\ handler' = handler /\ saved' = saved
  BY <1>3 DEF TypeInv, OwnersOnline, AddServer, DeleteServer, Supersede, IsCrashed
<1>4. CASE Reliable \/ Cleanup
  BY <1>4 DEF TypeInv, OwnersOnline, Reliable, Cleanup
<1> QED
  BY <1>1, <1>2, <1>3, <1>4 DEF TesterStep

(* The persister of a name changes hands only to a server that is new, so  *)
(* no request has been waiting for that one.                               *)
LEMMA TesterKeeps ==
    ASSUME KeptInv, TesterStep, NEW c \in Request
    PROVE  RequestInv(c)'
<1>1. call' = call /\ handler' = handler /\ saved' = saved /\ TypeInv'
  BY TesterTypes
<1>2. started' \in Nat /\ started' >= started
  BY <1>1 DEF TesterStep, MakeEnd, DeleteEnd, Enable, Connect, AddServer, DeleteServer,
              Supersede, Reliable, Cleanup, testerVars, networkVars, KeptInv, TypeInv
<1>3. ASSUME HasServer(c), Kept(c) PROVE Kept(c)'
  <2>1. ASSUME NEW n \in ServerName, AddServer(n) PROVE Kept(c)'
    BY <1>1, <1>3, <2>1 DEF AddServer, Kept, HasServer, KeptInv, TypeInv
  <2>2. ASSUME NEW n \in ServerName, Supersede(n) PROVE Kept(c)'
    BY <1>1, <1>3, <2>2 DEF Supersede, Kept, HasServer, KeptInv, TypeInv
  <2>3. ASSUME owner' = owner PROVE Kept(c)'
    BY <1>1, <1>3, <2>3 DEF Kept
  <2> QED
    BY <2>1, <2>2, <2>3 DEF TesterStep, MakeEnd, DeleteEnd, Enable, Connect, DeleteServer,
                            Reliable, Cleanup, testerVars
<1>4. HasServer(c) => HasServer(c)'
  BY <1>1, <1>2 DEF HasServer, KeptInv, TypeInv
<1> QED
  BY <1>1, <1>3, <1>4 DEF RequestInv, IsExecuted, KeptInv

(* A step of one request or of its handler leaves the others alone. *)
RequestStep(c) == Call(c) \/ CallStep(c) \/ HandlerStep(c)

LEMMA OtherRequests ==
    ASSUME KeptInv, NEW c \in Request, NEW d \in Request, c # d, RequestStep(c)
    PROVE  RequestInv(d)'
<1>1. /\ call'[d] = call[d] /\ handler'[d] = handler[d]
      /\ owner' = owner /\ started' = started
  BY DEF RequestStep, Call, CallStep, HandlerStep, CallRefused, ProcessReq, DropRequest,
         Dispatch, Receive, StopWaiting, FinishReq, Return, Execute, Drain, Moves, Replies,
         networkVars, testerVars, KeptInv, TypeInv
<1>2. \A n \in ServerName : d \in saved'[n] <=> d \in saved[n]
  BY DEF RequestStep, Call, CallStep, HandlerStep, CallRefused, ProcessReq, DropRequest,
         Dispatch, Receive, StopWaiting, FinishReq, Return, Execute, Drain, Moves, Replies,
         networkVars, testerVars, KeptInv, TypeInv
<1> QED
  BY <1>1, <1>2 DEF RequestInv, IsExecuted, HasServer, Kept, KeptInv

CallRecord == [at : Place, to : Target, replyOK : BOOLEAN]

(* What Moves and Replies write is typed. *)
LEMMA MovesTyped ==
    ASSUME call \in [Request -> CallRecord], NEW c \in Request, NEW p \in Place, Moves(c, p)
    PROVE  call' \in [Request -> CallRecord]
<1>1. call[c].to \in Target /\ call[c].replyOK \in BOOLEAN
  BY DEF CallRecord
<1>2. [call[c] EXCEPT !.at = p] = [at |-> p, to |-> call[c].to, replyOK |-> call[c].replyOK]
  BY DEF CallRecord
<1>3. [call[c] EXCEPT !.at = p] \in CallRecord
  BY <1>1, <1>2 DEF CallRecord
<1> QED
  BY <1>3 DEF Moves

LEMMA RepliesTyped ==
    ASSUME call \in [Request -> CallRecord], NEW c \in Request, NEW p \in Place,
           NEW ok \in BOOLEAN, call' = [call EXCEPT ![c].at = p, ![c].replyOK = ok]
    PROVE  call' \in [Request -> CallRecord]
<1>1. call[c].to \in Target /\ call[c].replyOK \in BOOLEAN
  BY DEF CallRecord
<1>2. \A d \in Request \ {c} : call'[d] = call[d]
  OBVIOUS
<1>3. call'[c] = [at |-> p, to |-> call[c].to, replyOK |-> ok]
  BY DEF CallRecord
<1>4. call'[c] \in CallRecord
  BY <1>1, <1>3 DEF CallRecord
<1>5. call' = [d \in Request |-> call'[d]]
  OBVIOUS
<1> QED
  BY <1>2, <1>4, <1>5

(* Types are kept, too. *)
LEMMA RequestTypes ==
    ASSUME KeptInv, NEW c \in Request, RequestStep(c)
    PROVE  TypeInv' /\ OwnersOnline'
<1> USE DEF KeptInv, networkVars, testerVars
<1>1. /\ servers' = servers /\ owner' = owner /\ started' = started
      /\ ends' = ends /\ enabled' = enabled /\ connections' = connections
      /\ reliable' = reliable
  BY DEF RequestStep, Call, CallStep, HandlerStep, CallRefused, ProcessReq, DropRequest,
         Dispatch, Receive, StopWaiting, FinishReq, Return, Execute, Drain
<1>2. saved' \in [ServerName -> SUBSET Request]
  <2>1. CASE Execute(c)
    BY <2>1 DEF Execute, TypeInv, RequestInv, HasServer
  <2>2. CASE saved' = saved
    BY <2>2 DEF TypeInv
  <2> QED
    BY <2>1, <2>2 DEF RequestStep, Call, CallStep, HandlerStep, CallRefused, ProcessReq,
         DropRequest, Dispatch, Receive, StopWaiting, FinishReq, Return, Drain
<1>3. handler' \in [Request -> {"none", "running", "offering", "gone"}]
  BY DEF RequestStep, Call, CallStep, HandlerStep, CallRefused, ProcessReq, DropRequest,
         Dispatch, Receive, StopWaiting, FinishReq, Return, Execute, Drain, TypeInv
<1>4. call' \in [Request -> CallRecord]
  <2>0. call \in [Request -> CallRecord]
    BY DEF TypeInv, CallRecord
  <2>1. CASE ProcessReq(c)
    <3>1. Info(EndOf[c]) \in Target
      BY LabRPCAssumption DEF Info, Target, TypeInv
    <3>2. At("delayed", Info(EndOf[c])) \in CallRecord
      BY <3>1 DEF At, CallRecord, Place
    <3>3. CASE IsReachable(EndOf[c])
      BY <2>0, <2>1, <3>2, <3>3 DEF ProcessReq
    <3>4. CASE ~IsReachable(EndOf[c])
      BY <2>0, <2>1, <3>4, RepliesTyped DEF ProcessReq, Place, Replies
    <3> QED
      BY <3>3, <3>4
  <2>2. CASE FinishReq(c)
    <3>1. IsGood(c) \in BOOLEAN
      BY DEF IsGood
    <3>2. Replies(c, IsGood(c)) \/ Replies(c, FALSE)
      BY <2>2 DEF FinishReq
    <3> QED
      BY <2>0, <3>1, <3>2, RepliesTyped DEF Replies, Place
  <2>3. CASE Call(c) \/ CallRefused(c) \/ Return(c)
    <3>1. Moves(c, "sending") \/ Moves(c, "returned")
      BY <2>3 DEF Call, CallRefused, Return, Moves
    <3> QED
      BY <2>0, <3>1, MovesTyped DEF Place
  <2>4. CASE Dispatch(c) \/ StopWaiting(c)
    <3>1. Moves(c, "waiting") \/ Moves(c, "checking")
      BY <2>4 DEF Dispatch, StopWaiting
    <3> QED
      BY <2>0, <3>1, MovesTyped DEF Place
  <2>6. CASE DropRequest(c)
    BY <2>0, <2>6, RepliesTyped DEF DropRequest, Replies, Place
  <2>7. CASE Receive(c)
    BY <2>0, <2>7, RepliesTyped DEF Receive, Place
  <2>5. CASE HandlerStep(c)
    BY <2>0, <2>5 DEF HandlerStep, Execute, Drain
  <2> QED
    BY <2>1, <2>2, <2>3, <2>4, <2>5, <2>6, <2>7 DEF RequestStep, CallStep
<1> QED
  BY <1>1, <1>2, <1>3, <1>4 DEF TypeInv, OwnersOnline, CallRecord

(* A step of a request keeps what is known of it. *)
LEMMA OwnRequest ==
    ASSUME KeptInv, NEW c \in Request, RequestStep(c)
    PROVE  RequestInv(c)'
<1> USE DEF KeptInv, networkVars, testerVars, RequestInv, IsExecuted, HasServer, Kept,
            Moves, Replies
<1>0. TypeInv
  OBVIOUS
<1>1. CASE ProcessReq(c)
  <2>1. CASE IsReachable(EndOf[c])
    <3>1. /\ Info(EndOf[c]).name \in ServerName
          /\ Info(EndOf[c]).server \in 1..started
      BY <2>1, LabRPCAssumption DEF IsReachable, Info, TypeInv, OwnersOnline
    <3> QED
      BY <1>0, <1>1, <2>1, <3>1 DEF ProcessReq, At, TypeInv
  <2> QED
    BY <1>0, <1>1, <2>1 DEF ProcessReq, TypeInv
<1>2. CASE FinishReq(c)
  <2>1. IsGood(c) => call[c].replyOK /\ c \in saved[call[c].to.name]
    BY <1>0, <1>2 DEF FinishReq, IsGood, IsServerDead, TypeInv, OwnersOnline
  <2>2. IsGood(c) \in BOOLEAN
    BY DEF IsGood
  <2> QED
    BY <1>0, <1>2, <2>1, <2>2 DEF FinishReq, TypeInv
<1>3. CASE Call(c) \/ CallRefused(c) \/ Return(c)
  <2>1. CASE Call(c)
    BY <1>0, <2>1 DEF Call, TypeInv
  <2>2. CASE CallRefused(c)
    BY <1>0, <2>2 DEF CallRefused, TypeInv
  <2>3. CASE Return(c)
    BY <1>0, <2>3 DEF Return, TypeInv
  <2> QED
    BY <1>3, <2>1, <2>2, <2>3
<1>4. CASE DropRequest(c) \/ Dispatch(c) \/ Receive(c) \/ StopWaiting(c)
  BY <1>0, <1>4 DEF DropRequest, Dispatch, Receive, StopWaiting, TypeInv
<1>5. CASE Execute(c)
  BY <1>0, <1>5 DEF Execute, TypeInv
<1>6. CASE Drain(c)
  BY <1>0, <1>6 DEF Drain, TypeInv
<1> QED
  BY <1>1, <1>2, <1>3, <1>4, <1>5, <1>6 DEF RequestStep, CallStep, HandlerStep

LEMMA KeptStep == KeptInv /\ [Next]_vars => KeptInv'
<1> SUFFICES ASSUME KeptInv, [Next]_vars PROVE KeptInv'
  OBVIOUS
<1>1. CASE TesterStep
  BY <1>1, TesterTypes, TesterKeeps DEF KeptInv
<1>2. CASE StopListening \/ UNCHANGED vars
  BY <1>2 DEF StopListening, vars, testerVars, KeptInv, TypeInv, OwnersOnline, RequestInv,
              IsExecuted, HasServer, Kept
<1>3. ASSUME NEW c \in Request, RequestStep(c) PROVE KeptInv'
  BY <1>3, RequestTypes, OtherRequests, OwnRequest DEF KeptInv
<1> QED
  BY <1>1, <1>2, <1>3 DEF Next, RequestStep

(* Whatever the tester crashes, restarts, disables and reconnects, and     *)
(* however late handlers of deleted servers run: what a client was told    *)
(* was done is in the state the server is restarted from (processReq       *)
(* looks again after the handler, labrpc.go:264-269).                      *)
THEOREM PositiveKept == Spec => []PositiveIsKept
<1>1. KeptInv => PositiveIsKept
  BY DEF KeptInv, RequestInv, PositiveIsKept
<1> QED
  BY <1>1, InitKept, KeptStep, PTL DEF Spec

=============================================================================
