------------------------------- MODULE LabRPC -------------------------------
(***************************************************************************)
(* The simulated network (labrpc/labrpc.go) that every part of the system  *)
(* talks over, and the way the testers crash and restart servers on it     *)
(* (raft/config.go): Call, the goroutine that takes requests in, one       *)
(* processReq per request, one goroutine per RPC handler, and a tester     *)
(* that connects, disables, deletes and adds while requests are under way. *)
(*                                                                         *)
(* Delays (short ones, long reordering, long delays on dead ends) are what *)
(* the scheduler does anyway: every step of a request may take any time.   *)
(***************************************************************************)
EXTENDS Integers, FiniteSets

CONSTANTS
    End,
    ServerName,
    NoName,
    Request,       \* calls of Call
    EndOf,         \* request -> its ClientEnd
    Hangs,         \* the requests whose handlers never return
    MaxServers,    \* bound: servers started
    MaxSwitches    \* bound: changes of enabled and reliable

ASSUME LabRPCAssumption ==
    /\ EndOf \in [Request -> End] /\ Hangs \subseteq Request
    /\ NoName \notin ServerName
    /\ MaxServers \in Nat /\ MaxSwitches \in Nat

VARIABLES
    \* Network
    ends,          \* the ends there are
    made,          \* those there ever were: their ClientEnds can still Call
    enabled,       \* those that are enabled
    connections,   \* end -> server name
    servers,       \* server name -> the Server, a number; 0 is nil
    reliable,
    done,          \* Cleanup was called
    listening,     \* the goroutine that reads endCh
    \* requests
    call,          \* request -> where it is
    handler,       \* request -> the goroutine that runs the handler
    \* the tester
    started,       \* servers started so far
    owner,         \* server name -> the server that writes its persister, or 0
    saved,         \* server name -> requests whose effect the persister has
    switches

networkVars == <<ends, made, enabled, connections, servers, reliable, done, listening>>
testerVars == <<started, owner, saved, switches>>
vars == <<ends, made, enabled, connections, servers, reliable, done, listening, call,
          handler, started, owner, saved, switches>>

Nowhere == [name |-> NoName, server |-> 0, reliable |-> TRUE]
At(place, to) == [at |-> place, to |-> to, replyOK |-> FALSE]

(* MakeNetwork *)
Init ==
    /\ ends = {} /\ made = {} /\ enabled = {} /\ connections = [e \in End |-> NoName]
    /\ servers = [n \in ServerName |-> 0]
    /\ reliable = TRUE /\ done = FALSE /\ listening = TRUE
    /\ call = [c \in Request |-> At("idle", Nowhere)]
    /\ handler = [c \in Request |-> "none"]
    /\ started = 0 /\ owner = [n \in ServerName |-> 0]
    /\ saved = [n \in ServerName |-> {}] /\ switches = 0

-----------------------------------------------------------------------------
(* The tester *)

MakeEnd(e) ==
    /\ e \notin ends
    /\ ends' = ends \cup {e} /\ made' = made \cup {e} /\ enabled' = enabled \ {e}
    /\ connections' = [connections EXCEPT ![e] = NoName]
    /\ UNCHANGED <<servers, reliable, done, listening, call, handler, testerVars>>

DeleteEnd(e) ==
    /\ e \in ends
    /\ switches < MaxSwitches /\ switches' = switches + 1
    /\ ends' = ends \ {e} /\ enabled' = enabled \ {e}
    /\ connections' = [connections EXCEPT ![e] = NoName]
    /\ UNCHANGED <<made, servers, reliable, done, listening, call, handler, started, owner,
                   saved>>

(* An end is connected only once. *)
Connect(e, n) ==
    /\ e \in ends /\ connections[e] = NoName
    /\ connections' = [connections EXCEPT ![e] = n]
    /\ UNCHANGED <<ends, made, enabled, servers, reliable, done, listening, call,
                   handler, testerVars>>

Enable(e) ==
    /\ e \in ends
    /\ switches < MaxSwitches /\ switches' = switches + 1
    /\ enabled' = IF e \in enabled THEN enabled \ {e} ELSE enabled \cup {e}
    /\ UNCHANGED <<ends, made, connections, servers, reliable, done, listening, call,
                   handler, started, owner, saved>>

Reliable ==
    /\ switches < MaxSwitches /\ switches' = switches + 1
    /\ reliable' = ~reliable
    /\ UNCHANGED <<ends, made, enabled, connections, servers, done, listening, call,
                   handler, started, owner, saved>>

(* A server is started with the saved state, and added. *)
AddServer(n) ==
    /\ owner[n] = 0 /\ started < MaxServers
    /\ started' = started + 1
    /\ owner' = [owner EXCEPT ![n] = started + 1]
    /\ servers' = [servers EXCEPT ![n] = started + 1]
    /\ UNCHANGED <<ends, made, enabled, connections, reliable, done, listening, call,
                   handler, saved, switches>>

(* It is crashed: first deleted from the network ... *)
DeleteServer(n) ==
    /\ servers[n] # 0
    /\ servers' = [servers EXCEPT ![n] = 0]
    /\ UNCHANGED <<ends, made, enabled, connections, reliable, done, listening, call,
                   handler, testerVars>>

IsCrashed(n) == owner[n] # 0 /\ servers[n] = 0

(* ... then its persister is copied; what it still writes goes to the old  *)
(* one.                                                                    *)
Supersede(n) ==
    /\ IsCrashed(n)
    /\ owner' = [owner EXCEPT ![n] = 0]
    /\ UNCHANGED <<networkVars, call, handler, started, saved, switches>>

Cleanup ==
    /\ ~done /\ done' = TRUE
    /\ UNCHANGED <<ends, made, enabled, connections, servers, reliable, listening, call,
                   handler, testerVars>>

-----------------------------------------------------------------------------
(* Requests *)

Moves(c, place) == call' = [call EXCEPT ![c].at = place]
Replies(c, ok) == call' = [call EXCEPT ![c].at = "replying", ![c].replyOK = ok]

(* Whoever holds a ClientEnd may call, whether or not the end has been     *)
(* deleted since: the request is then taken in and fails.                  *)
Call(c) ==
    /\ call[c].at = "idle" /\ EndOf[c] \in made
    /\ Moves(c, "sending")
    /\ UNCHANGED <<networkVars, handler, testerVars>>

(* The network has been destroyed, maybe before its goroutine noticed.     *)
CallRefused(c) ==
    /\ call[c].at = "sending" /\ done
    /\ call' = [call EXCEPT ![c].at = "returned"]
    /\ UNCHANGED <<networkVars, handler, testerVars>>

StopListening ==
    /\ listening /\ done
    /\ listening' = FALSE
    /\ UNCHANGED <<ends, made, enabled, connections, servers, reliable, done, call,
                   handler, testerVars>>

(* readEndnameInfo *)
Info(e) ==
    LET n == connections[e]
    IN  [name |-> n, server |-> IF n = NoName THEN 0 ELSE servers[n], reliable |-> reliable]

IsReachable(e) == e \in enabled /\ Info(e).server # 0

(* The request is taken in; what its end leads to is read once.  If that   *)
(* is nothing, the Call times out.                                         *)
ProcessReq(c) ==
    LET e == EndOf[c]
    IN  /\ call[c].at = "sending" /\ listening
        /\ IF IsReachable(e)
           THEN call' = [call EXCEPT ![c] = At("delayed", Info(e))]
           ELSE Replies(c, FALSE)
        /\ UNCHANGED <<networkVars, handler, testerVars>>

DropRequest(c) ==
    /\ call[c].at = "delayed" /\ ~call[c].to.reliable
    /\ Replies(c, FALSE)
    /\ UNCHANGED <<networkVars, handler, testerVars>>

(* The handler runs on the server that was read, deleted or not. *)
Dispatch(c) ==
    /\ call[c].at = "delayed"
    /\ Moves(c, "waiting")
    /\ handler' = [handler EXCEPT ![c] = "running"]
    /\ UNCHANGED <<networkVars, testerVars>>

(* It persists what it does and then offers its reply on ech. *)
Execute(c) ==
    LET n == call[c].to.name
    IN  /\ handler[c] = "running" /\ c \notin Hangs
        /\ handler' = [handler EXCEPT ![c] = "offering"]
        /\ saved' = IF owner[n] = call[c].to.server
                    THEN [saved EXCEPT ![n] = @ \cup {c}] ELSE saved
        /\ UNCHANGED <<networkVars, call, started, owner, switches>>

Receive(c) ==
    /\ call[c].at = "waiting" /\ handler[c] = "offering"
    /\ handler' = [handler EXCEPT ![c] = "gone"]
    /\ call' = [call EXCEPT ![c].at = "checking", ![c].replyOK = TRUE]
    /\ UNCHANGED <<networkVars, testerVars>>

IsServerDead(c) ==
    EndOf[c] \notin enabled \/ servers[call[c].to.name] # call[c].to.server

\* Mutant: the handler is waited for in any case
WaitOn(c) ==
    /\ call[c].at = "waiting" /\ IsServerDead(c) /\ handler[c] # "running"
    /\ Moves(c, "checking")
    /\ UNCHANGED <<networkVars, handler, testerVars>>

(* Every 100 ms, as long as the handler has not returned. *)
StopWaiting(c) ==
    /\ call[c].at = "waiting" /\ IsServerDead(c)
    /\ Moves(c, "checking")
    /\ UNCHANGED <<networkVars, handler, testerVars>>

\* Mutant: nobody takes what a handler offers too late
DrainNothing(c) ==
    /\ FALSE
    /\ UNCHANGED vars

(* Whoever stopped waiting leaves a goroutine that takes the reply. *)
Drain(c) ==
    /\ handler[c] = "offering" /\ call[c].at # "waiting"
    /\ handler' = [handler EXCEPT ![c] = "gone"]
    /\ UNCHANGED <<networkVars, call, testerVars>>

\* Mutant: looks only when waiting
ReplyUnchecked(c) == call[c].replyOK

(* The reply is good unless the server has been deleted by now. *)
IsGood(c) == call[c].replyOK /\ ~IsServerDead(c)

FinishReq(c) ==
    /\ call[c].at = "checking"
    /\ \/ Replies(c, IsGood(c))
       \/ ~call[c].to.reliable /\ Replies(c, FALSE)
    /\ UNCHANGED <<networkVars, handler, testerVars>>

(* The reply, maybe much later. *)
Return(c) ==
    /\ call[c].at = "replying"
    /\ Moves(c, "returned")
    /\ UNCHANGED <<networkVars, handler, testerVars>>

-----------------------------------------------------------------------------
TesterStep ==
    \/ \E e \in End : \/ MakeEnd(e) \/ DeleteEnd(e) \/ Enable(e)
                      \/ \E n \in ServerName : Connect(e, n)
    \/ \E n \in ServerName : AddServer(n) \/ DeleteServer(n) \/ Supersede(n)
    \/ Reliable \/ Cleanup

CallStep(c) ==
    \/ CallRefused(c) \/ ProcessReq(c) \/ DropRequest(c) \/ Dispatch(c)
    \/ Receive(c) \/ StopWaiting(c) \/ FinishReq(c) \/ Return(c)

HandlerStep(c) == Execute(c) \/ Drain(c)

Next ==
    \/ TesterStep
    \/ StopListening
    \/ \E c \in Request : Call(c) \/ CallStep(c) \/ HandlerStep(c)

Spec == Init /\ [][Next]_vars

(* Goroutines run, and handlers return unless they hang.  The tester owes  *)
(* nothing.                                                                *)
FairSpec ==
    /\ Spec
    /\ \A c \in Request : WF_vars(CallStep(c)) /\ WF_vars(HandlerStep(c))

-----------------------------------------------------------------------------
(* Properties *)

(* A client that got a positive reply can rely on it through any crash:    *)
(* the effect is in the state the server is restarted from, although the   *)
(* handlers of deleted servers go on and persist (labrpc.go:264-269).      *)
PositiveIsKept ==
    \A c \in Request : call[c].replyOK /\ call[c].at \in {"replying", "returned"} =>
        c \in saved[call[c].to.name]

(* Call returns unless its handler does not (labrpc.go:37-38), and even    *)
(* then if the server is deleted, or the end disabled, for good; also when *)
(* the network is destroyed while Call is sending.                         *)
CallReturns ==
    \A c \in Request :
        /\ c \notin Hangs => (call[c].at # "idle" ~> call[c].at = "returned")
        /\ c \in Hangs => ((call[c].at = "waiting" /\ IsServerDead(c)) ~>
              (call[c].at = "returned" \/ (call[c].at = "waiting" /\ ~IsServerDead(c))))

(* No goroutine that ran a handler is left behind. *)
HandlersEnd == \A c \in Request : handler[c] = "offering" ~> handler[c] = "gone"

=============================================================================
