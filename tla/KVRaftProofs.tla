---------------------------- MODULE KVRaftProofs ----------------------------
(***************************************************************************)
(* The replicated key/value service for any number of servers, clerks,     *)
(* operations, elections, crashes and snapshots: what a clerk was told is  *)
(* done is chosen, in the order it called; and, where no request outlives  *)
(* its Call, every operation takes effect once and every read is fresh.    *)
(***************************************************************************)
EXTENDS KVRaft, SequenceTheorems, FiniteSetTheorems, NaturalsInduction,
        WellFoundedInduction, TLAPS

(* What the script of a clerk makes of an operation, and what is logged.   *)
OpOf(c, r) == [type |-> Script[c][r].type, key |-> Script[c][r].key,
               val |-> Script[c][r].val, ck |-> c, req |-> r]
Ops == {OpOf(c, r) : c \in Clerk, r \in Nat}
Entry == [op : Ops, number : Nat]

SentCall == [at : {"sent"}, server : Server, op : Ops]
WaitingCall == [at : {"waiting"}, server : Server, op : Ops, number : Nat, index : Nat]
Call == {Idle} \cup SentCall \cup WaitingCall

LogTypes ==
    /\ rlog \in [Server -> Seq(Entry)] /\ chosen \in Seq(Entry)
    /\ leader \subseteq Server /\ believes \subseteq Server
    /\ \A s, t \in leader : s = t

ClerkTypes ==
    /\ number \in Nat /\ called \in [Clerk -> Nat] /\ since \in [Clerk -> Nat]
    /\ call \in [Clerk -> Call] /\ late \subseteq SentCall
    /\ \A c \in Clerk : call[c] # Idle => call[c].op.ck = c /\ call[c].op.req = called[c]
    /\ MaxLate = 0 => late = {}

ServerTypes ==
    /\ lastApplied \in [Server -> Nat]
    /\ DOMAIN mp = Server /\ DOMAIN logRecord = Server
    /\ DOMAIN ckSessions = Server /\ DOMAIN snapshot = Server /\ DOMAIN got = Clerk
    /\ \A s \in Server : /\ DOMAIN ckSessions[s] = Clerk
                         /\ DOMAIN snapshot[s].ckSessions = Clerk
                         /\ snapshot[s].index \in Nat

-----------------------------------------------------------------------------
(* Entries, calls and logs *)

LEMMA OpFacts ==
    ASSUME NEW o \in Ops
    PROVE  o.ck \in Clerk /\ o.req \in Nat
BY DEF Ops, OpOf

LEMMA EntryFacts ==
    ASSUME NEW e \in Entry
    PROVE  e.op \in Ops /\ e.number \in Nat /\ e.op.ck \in Clerk /\ e.op.req \in Nat
BY OpFacts DEF Entry

LEMMA CallFacts ==
    ASSUME NEW k \in Call
    PROVE  /\ k = Idle <=> k.at = "idle"
           /\ k # Idle => k.server \in Server /\ k.op \in Ops
           /\ k.at = "sent" => k \in SentCall
           /\ k.at = "waiting" => k.number \in Nat /\ k.index \in Nat
<1>1. CASE k = Idle
  BY <1>1 DEF Idle
<1>2. CASE k \in SentCall
  BY <1>2 DEF SentCall, Idle
<1>3. CASE k \in WaitingCall
  BY <1>3 DEF WaitingCall, Idle
<1> QED
  BY <1>1, <1>2, <1>3 DEF Call

LEMMA SentFacts ==
    ASSUME NEW s \in Server, NEW o \in Ops
    PROVE  /\ Sent(s, o) \in SentCall /\ Sent(s, o) \in Call /\ Sent(s, o) # Idle
           /\ Sent(s, o).op = o /\ Sent(s, o).at = "sent" /\ Sent(s, o).server = s
BY DEF Sent, SentCall, Call, Idle

(* One log begins with another. *)
Begins(a, b) == Len(a) <= Len(b) /\ \A i \in 1..Len(a) : a[i] = b[i]

LEMMA PrefixIs ==
    ASSUME NEW a \in Seq(Entry), NEW b \in Seq(Entry)
    PROVE  IsPrefix(a, b) <=> Begins(a, b)
<1>1. Len(a) \in Nat /\ Len(b) \in Nat
  BY LenProperties
<1>2. SubSeq(a, 1, Len(a)) = a
  BY SubSeqFull
<1>3. CASE Len(a) <= Len(b)
  <2>1. \A i \in 1..Len(a) : b[i] \in Entry /\ a[i] \in Entry
    BY <1>1, <1>3, ElementOfSeq
  <2>2. /\ SubSeq(b, 1, Len(a)) \in Seq(Entry)
        /\ Len(SubSeq(b, 1, Len(a))) = IF 1 <= Len(a) THEN Len(a) - 1 + 1 ELSE 0
        /\ \A i \in 1..(Len(a) - 1 + 1) : SubSeq(b, 1, Len(a))[i] = b[1 + i - 1]
    BY <1>1, <2>1, SubSeqProperties
  <2>3. PICK u : u = SubSeq(b, 1, Len(a))
    OBVIOUS
  <2>4. u \in Seq(Entry) /\ Len(u) = Len(a) /\ \A i \in 1..Len(a) : u[i] = b[i]
    BY <1>1, <2>2, <2>3
  <2>5. (a = u) <=> \A i \in 1..Len(a) : a[i] = b[i]
    BY <2>4, SeqEqual
  <2> QED
    BY <1>2, <1>3, <2>3, <2>5 DEF IsPrefix, Begins
<1> QED
  BY <1>3 DEF IsPrefix, Begins

(* The first n entries of a log. *)
LEMMA CutFacts ==
    ASSUME NEW a \in Seq(Entry), NEW n \in Nat, n <= Len(a)
    PROVE  /\ SubSeq(a, 1, n) \in Seq(Entry) /\ Len(SubSeq(a, 1, n)) = n
           /\ Begins(SubSeq(a, 1, n), a)
<1>1. Len(a) \in Nat /\ \A i \in 1..n : a[i] \in Entry
  BY LenProperties, ElementOfSeq
<1>2. /\ SubSeq(a, 1, n) \in Seq(Entry)
      /\ Len(SubSeq(a, 1, n)) = IF 1 <= n THEN n - 1 + 1 ELSE 0
      /\ \A i \in 1..(n - 1 + 1) : SubSeq(a, 1, n)[i] = a[1 + i - 1]
  BY <1>1, SubSeqProperties
<1>3. n - 1 + 1 = n /\ \A i \in 1..n : 1 + i - 1 = i
  OBVIOUS
<1> QED
  BY <1>1, <1>2, <1>3 DEF Begins

LEMMA AppendFacts ==
    ASSUME NEW a \in Seq(Entry), NEW e \in Entry
    PROVE  /\ Append(a, e) \in Seq(Entry) /\ Len(Append(a, e)) = Len(a) + 1
           /\ Append(a, e)[Len(a) + 1] = e /\ Begins(a, Append(a, e))
BY DEF Begins

-----------------------------------------------------------------------------
(* Types *)

LEMMA InitTypes == Init => LogTypes /\ ClerkTypes /\ ServerTypes
<1> SUFFICES ASSUME Init PROVE LogTypes /\ ClerkTypes /\ ServerTypes
  OBVIOUS
<1>1. LogTypes
  BY DEF Init, LogInit, LogTypes
<1>2. ClerkTypes
  BY DEF Init, ClerkTypes, Call
<1>3. ServerTypes
  BY DEF Init, ServerTypes, NewSessions, NoSnapshot
<1> QED
  BY <1>1, <1>2, <1>3

LEMMA LogTypesStep ==
    ASSUME LogTypes, ClerkTypes, ServerTypes, [Next]_vars,
           \A s \in Server : snapshot[s].index <= Len(chosen)
    PROVE  LogTypes'
<1>1. ASSUME UNCHANGED raftVars PROVE LogTypes'
  BY <1>1 DEF raftVars, LogTypes
<1>2. ASSUME NEW s \in Server, Elect(s) PROVE LogTypes'
  BY <1>2 DEF Elect, LogElect, LogTypes
<1>3. ASSUME NEW l \in Server, Commit(l) PROVE LogTypes'
  BY <1>3 DEF Commit, LogCommit, LogTypes
<1>4. ASSUME NEW s \in Server, Restart(s) PROVE LogTypes'
  BY <1>4 DEF Restart, LogRestart, LogTypes
<1>5. ASSUME NEW l \in Server, NEW s \in Server, Replicate(l, s) PROVE LogTypes'
  BY <1>5 DEF Replicate, LogReplicate, LogTypes
<1>6. ASSUME NEW l \in Server, NEW s \in Server, InstallSnapshot(l, s) PROVE LogTypes'
  <2>1. PICK n \in Nat : n = snapshot[l].index
    BY DEF ServerTypes
  <2>2. SubSeq(chosen, 1, n) \in Seq(Entry)
    BY <2>1, CutFacts DEF LogTypes
  <2> QED
    BY <1>6, <2>1, <2>2 DEF InstallSnapshot, LogInstall, LogTypes
<1>7. ASSUME NEW s \in Server, NEW o \in Ops, Starts(s, o) PROVE LogTypes'
  <2>1. [op |-> o, number |-> number + 1] \in Entry
    BY DEF Entry, ClerkTypes
  <2> QED
    BY <1>7, <2>1 DEF Starts, LogStart, LogTypes
<1>8. ASSUME NEW c \in Clerk, HandleStart(c) PROVE LogTypes'
  <2>1. call[c] \in Call /\ call[c] # Idle
    BY <1>8, CallFacts DEF ClerkTypes, HandleStart, Idle
  <2>2. call[c].server \in Server /\ call[c].op \in Ops
    BY <2>1, CallFacts
  <2> QED
    BY <1>7, <1>8, <2>2 DEF HandleStart
<1>9. ASSUME NEW r \in late, HandleLate(r) PROVE LogTypes'
  <2>1. r.server \in Server /\ r.op \in Ops
    BY DEF ClerkTypes, SentCall
  <2> QED
    BY <1>7, <1>9, <2>1 DEF HandleLate
<1> QED
  <2>1. ASSUME NEW s \in Server, Apply(s) \/ ApplySnapshot(s) PROVE UNCHANGED raftVars
    BY <2>1 DEF Apply, ApplySnapshot
  <2>2. ASSUME NEW c \in Clerk,
               Invoke(c) \/ TryNext(c) \/ GiveUp(c) \/ HandleAnswered(c) \/ HandleCommitted(c)
        PROVE  UNCHANGED raftVars
    BY <2>2 DEF Invoke, TryNext, GiveUp, HandleAnswered, HandleCommitted
  <2>3. UNCHANGED vars => UNCHANGED raftVars
    BY DEF vars, raftVars
  <2> QED
    BY <1>1, <1>2, <1>3, <1>4, <1>5, <1>6, <1>8, <1>9, <2>1, <2>2, <2>3 DEF Next

(* The operation of a clerk that is called next. *)
LEMMA InvokeIs ==
    ASSUME ClerkTypes, NEW c \in Clerk, Invoke(c)
    PROVE  \E s \in Server :
             /\ called' = [called EXCEPT ![c] = called[c] + 1]
             /\ call' = [call EXCEPT ![c] = Sent(s, OpOf(c, called[c] + 1))]
             /\ OpOf(c, called[c] + 1) \in Ops
<1>1. PICK n \in Nat : n = called[c] + 1
  BY DEF ClerkTypes
<1>2. OpOf(c, n) \in Ops
  BY DEF Ops
<1> QED
  BY <1>1, <1>2 DEF Invoke, OpOf

(* A call that goes on, with what the clerk sends next. *)
LEMMA ResendTypes ==
    ASSUME ClerkTypes, NEW c \in Clerk, call[c] # Idle, NEW s \in Server,
           call' = [call EXCEPT ![c] = Sent(s, call[c].op)], called' = called
    PROVE  /\ call' \in [Clerk -> Call]
           /\ \A d \in Clerk : call'[d] # Idle => call'[d].op.ck = d /\ call'[d].op.req = called'[d]
<1>1. call[c] \in Call /\ call[c].op \in Ops
  BY CallFacts DEF ClerkTypes
<1>2. Sent(s, call[c].op) \in Call /\ Sent(s, call[c].op).op = call[c].op
  BY <1>1, SentFacts
<1> QED
  BY <1>2 DEF ClerkTypes

(* The clerks' variables keep their types. *)
LEMMA ClerkTypesStep ==
    ASSUME LogTypes, ClerkTypes, [Next]_vars
    PROVE  ClerkTypes'
<1>1. ASSUME UNCHANGED clerkVars, UNCHANGED since, UNCHANGED number PROVE ClerkTypes'
  BY <1>1 DEF clerkVars, ClerkTypes
<1>2. ASSUME NEW s \in Server, Restart(s) PROVE ClerkTypes'
  <2>1. ASSUME NEW c \in Clerk
        PROVE  /\ call'[c] \in Call
               /\ call'[c] # Idle => call'[c].op.ck = c /\ call'[c].op.req = called'[c]
    <3>1. call[c] \in Call /\ (call[c] # Idle => call[c].op \in Ops)
      BY CallFacts DEF ClerkTypes
    <3>2. call[c] # Idle => /\ Sent(s, call[c].op) \in Call
                            /\ Sent(s, call[c].op).op = call[c].op
      BY <3>1, SentFacts
    <3>3. call'[c] = call[c] \/ (call[c] # Idle /\ call'[c] = Sent(s, call[c].op))
      BY <1>2 DEF Restart
    <3> QED
      BY <1>2, <3>1, <3>2, <3>3 DEF Restart, ClerkTypes
  <2>2. call' \in [Clerk -> Call]
    BY <1>2, <2>1 DEF Restart
  <2> QED
    BY <1>2, <2>1, <2>2 DEF Restart, ClerkTypes
<1>3. ASSUME NEW c \in Clerk, Invoke(c) PROVE ClerkTypes'
  <2>1. PICK s \in Server :
             /\ called' = [called EXCEPT ![c] = called[c] + 1]
             /\ call' = [call EXCEPT ![c] = Sent(s, OpOf(c, called[c] + 1))]
             /\ OpOf(c, called[c] + 1) \in Ops
    BY <1>3, InvokeIs
  <2>2. PICK k : k = Sent(s, OpOf(c, called[c] + 1))
    OBVIOUS
  <2>3. k \in Call /\ k.op = OpOf(c, called[c] + 1)
    BY <2>1, <2>2, SentFacts
  <2>4. k.op.ck = c /\ k.op.req = called[c] + 1
    BY <2>3 DEF OpOf
  <2>5. called' \in [Clerk -> Nat] /\ called'[c] = called[c] + 1
    BY <2>1 DEF ClerkTypes
  <2>6. since' \in [Clerk -> Nat]
    BY <1>3, LenProperties DEF Invoke, ClerkTypes, LogTypes
  <2>7. \A d \in Clerk : call'[d] # Idle => call'[d].op.ck = d /\ call'[d].op.req = called'[d]
    BY <2>1, <2>2, <2>4, <2>5 DEF ClerkTypes
  <2> QED
    BY <1>3, <2>1, <2>2, <2>3, <2>5, <2>6, <2>7 DEF Invoke, ClerkTypes, bounds
<1>4. ASSUME NEW c \in Clerk, TryNext(c) PROVE ClerkTypes'
  BY <1>4, ResendTypes DEF TryNext, ClerkTypes, bounds
<1>5. ASSUME NEW c \in Clerk, GiveUp(c) PROVE ClerkTypes'
  <2>1. call[c] \in SentCall /\ call[c] # Idle
    BY <1>5, CallFacts DEF GiveUp, ClerkTypes, Idle
  <2>2. MaxLate # 0
    <3>1. MaxLate = 0 => Cardinality(late) = 0
      BY FS_EmptySet DEF ClerkTypes
    <3> QED
      BY <1>5, <3>1 DEF GiveUp
  <2> QED
    BY <1>5, <2>1, <2>2, ResendTypes DEF GiveUp, ClerkTypes, bounds
<1>6. ASSUME NEW c \in Clerk, HandleStart(c) PROVE ClerkTypes'
  <2>1. call[c] \in Call /\ call[c] # Idle
    BY <1>6, CallFacts DEF HandleStart, ClerkTypes, Idle
  <2>2. call[c].server \in Server /\ call[c].op \in Ops
    BY <2>1, CallFacts
  <2>3. PICK k : k = [at |-> "waiting", server |-> call[c].server, op |-> call[c].op,
                      number |-> number + 1, index |-> Len(rlog[call[c].server]) + 1]
    OBVIOUS
  <2>4. k.op = call[c].op
    BY <2>3
  <2>5. k \in Call
    <3>1. Len(rlog[call[c].server]) \in Nat
      BY <2>2, LenProperties DEF LogTypes
    <3> QED
      BY <2>2, <2>3, <3>1 DEF Call, WaitingCall, ClerkTypes
  <2>6. number' = number + 1 /\ call' = [call EXCEPT ![c] = k]
    BY <1>6, <2>3 DEF HandleStart, Starts, NextIndex
  <2>7. called' = called /\ late' = late /\ since' = since
    BY <1>6 DEF HandleStart
  <2> QED
    BY <2>1, <2>4, <2>5, <2>6, <2>7 DEF ClerkTypes
<1>7. ASSUME NEW r \in late, HandleLate(r) PROVE ClerkTypes'
  BY <1>7 DEF HandleLate, Starts, ClerkTypes
<1>8. ASSUME NEW c \in Clerk, HandleAnswered(c) \/ HandleCommitted(c) PROVE ClerkTypes'
  <2>1. call' = [call EXCEPT ![c] = Idle] /\ called' = called /\ late' = late
        /\ since' = since /\ number' = number
    BY <1>8 DEF HandleAnswered, HandleCommitted, Return, bounds
  <2> QED
    BY <2>1 DEF ClerkTypes, Call
<1> QED
  <2>1. ASSUME NEW s \in Server, Elect(s) \/ Commit(s) \/ Apply(s) \/ ApplySnapshot(s)
        PROVE  ClerkTypes'
    BY <1>1, <2>1 DEF Elect, Commit, Apply, ApplySnapshot, bounds
  <2>2. ASSUME NEW l \in Server, NEW s \in Server, Replicate(l, s) \/ InstallSnapshot(l, s)
        PROVE  ClerkTypes'
    BY <1>1, <2>2 DEF Replicate, InstallSnapshot, bounds
  <2>3. UNCHANGED vars => ClerkTypes'
    BY <1>1 DEF vars, clerkVars
  <2> QED
    BY <1>2, <1>3, <1>4, <1>5, <1>6, <1>7, <1>8, <2>1, <2>2, <2>3 DEF Next

(* So do the servers'. *)
LEMMA ServerTypesStep ==
    ASSUME LogTypes, ServerTypes, [Next]_vars
    PROVE  ServerTypes'
<1>1. ASSUME UNCHANGED kvVars, UNCHANGED got PROVE ServerTypes'
  BY <1>1 DEF kvVars, ServerTypes
<1>2. ASSUME NEW s \in Server, Apply(s) PROVE ServerTypes'
  <2>1. PICK i \in Nat : i = lastApplied[s] + 1
    BY DEF ServerTypes
  <2>2. lastApplied' = [lastApplied EXCEPT ![s] = i] /\ got' = got
    BY <1>2, <2>1 DEF Apply
  <2>3. PICK c : ckSessions' = [ckSessions EXCEPT ![s][c] = NewSession(chosen[i], i)]
    BY <1>2, <2>1 DEF Apply
  <2>4. DOMAIN ckSessions' = Server /\ \A t \in Server : DOMAIN ckSessions'[t] = Clerk
    BY <2>3 DEF ServerTypes
  <2>5. DOMAIN mp' = Server /\ DOMAIN logRecord' = Server
    BY <1>2 DEF Apply, ServerTypes
  <2>6. snapshot' = snapshot \/ snapshot' = [snapshot EXCEPT ![s] =
                    [index |-> i, mp |-> mp'[s], ckSessions |-> ckSessions'[s]]]
    BY <1>2, <2>1 DEF Apply
  <2>7. /\ DOMAIN snapshot' = Server
        /\ \A t \in Server : DOMAIN snapshot'[t].ckSessions = Clerk /\ snapshot'[t].index \in Nat
    BY <2>4, <2>6 DEF ServerTypes
  <2> QED
    BY <2>2, <2>4, <2>5, <2>7 DEF ServerTypes
<1>3. ASSUME NEW s \in Server, ApplySnapshot(s) PROVE ServerTypes'
  BY <1>3 DEF ApplySnapshot, ServerTypes, RestoredSessions
<1>4. ASSUME NEW s \in Server, Restart(s) PROVE ServerTypes'
  BY <1>4 DEF Restart, ServerTypes, NewSessions
<1>5. ASSUME NEW l \in Server, NEW s \in Server, InstallSnapshot(l, s) PROVE ServerTypes'
  BY <1>5 DEF InstallSnapshot, ServerTypes
<1>6. ASSUME NEW c \in Clerk, HandleAnswered(c) \/ HandleCommitted(c) PROVE ServerTypes'
  <2>1. UNCHANGED kvVars /\ DOMAIN got' = Clerk
    BY <1>6 DEF HandleAnswered, HandleCommitted, Return, ServerTypes
  <2> QED
    BY <2>1 DEF kvVars, ServerTypes
<1> QED
  <2>1. ASSUME NEW s \in Server, Elect(s) \/ Commit(s) PROVE ServerTypes'
    BY <1>1, <2>1 DEF Elect, Commit
  <2>2. ASSUME NEW l \in Server, NEW s \in Server, Replicate(l, s) PROVE ServerTypes'
    BY <1>1, <2>2 DEF Replicate
  <2>3. ASSUME NEW c \in Clerk, Invoke(c) \/ TryNext(c) \/ GiveUp(c) \/ HandleStart(c)
        PROVE  ServerTypes'
    BY <1>1, <2>3 DEF Invoke, TryNext, GiveUp, HandleStart
  <2>4. ASSUME NEW r \in late, HandleLate(r) PROVE ServerTypes'
    BY <1>1, <2>4 DEF HandleLate
  <2>5. UNCHANGED vars => ServerTypes'
    BY <1>1 DEF vars, kvVars
  <2> QED
    BY <1>2, <1>3, <1>4, <1>5, <1>6, <2>1, <2>2, <2>3, <2>4, <2>5 DEF Next

-----------------------------------------------------------------------------
(* What is in the logs *)

Agrees(l, i, ch) == \A j \in 1..i : j <= Len(ch) => l[j] = ch[j]

(* Every earlier operation of the clerk comes before entry i. *)
Preceded(l, i) ==
    \A r \in 1..(l[i].op.req - 1) : \E j \in 1..(i - 1) : Is(l[j], l[i].op.ck, r)

(* A log, given what is chosen, how often Start was called, and the state  *)
(* of the clerks.  A log that may still be chosen misses no operation.     *)
(* Without late requests a clerk's operations are in order in every log.   *)
Sound(l, ch, n, cd, cl) ==
    \A i \in 1..Len(l) :
        /\ l[i].number \in 1..n
        /\ l[i].op.req \in 1..cd[l[i].op.ck]
        /\ Agrees(l, i, ch) => Preceded(l, i)
        /\ \A c \in Clerk : cl[c].at = "waiting" /\ cl[c].number = l[i].number
                            => l[i].op = cl[c].op
        /\ MaxLate = 0 =>
             \A j \in 1..i : l[j].op.ck = l[i].op.ck => l[j].op.req <= l[i].op.req

(* What holds of a log holds of what it begins with. *)
LEMMA SoundPart ==
    ASSUME NEW a \in Seq(Entry), NEW b \in Seq(Entry), Begins(a, b),
           NEW ch \in Seq(Entry), NEW n, NEW cd, NEW cl, Sound(b, ch, n, cd, cl)
    PROVE  Sound(a, ch, n, cd, cl)
<1> SUFFICES ASSUME NEW i \in 1..Len(a)
    PROVE  /\ a[i].number \in 1..n
           /\ a[i].op.req \in 1..cd[a[i].op.ck]
           /\ Agrees(a, i, ch) => Preceded(a, i)
           /\ \A c \in Clerk : cl[c].at = "waiting" /\ cl[c].number = a[i].number
                               => a[i].op = cl[c].op
           /\ MaxLate = 0 =>
                \A j \in 1..i : a[j].op.ck = a[i].op.ck => a[j].op.req <= a[i].op.req
  BY DEF Sound
<1>1. Len(a) \in Nat /\ Len(b) \in Nat /\ Len(a) <= Len(b) /\ i \in 1..Len(b)
  BY LenProperties DEF Begins
<1>2. \A j \in 1..i : a[j] = b[j]
  BY <1>1 DEF Begins
<1>3. a[i] = b[i]
  BY <1>1, <1>2
<1>4. Agrees(a, i, ch) => Agrees(b, i, ch)
  BY <1>2 DEF Agrees
<1>5. Preceded(b, i) => Preceded(a, i)
  <2>1. \A j \in 1..(i - 1) : a[j] = b[j]
    BY <1>1, <1>2
  <2> QED
    BY <1>3, <2>1 DEF Preceded
<1>6. /\ b[i].number \in 1..n
      /\ b[i].op.req \in 1..cd[b[i].op.ck]
      /\ Agrees(b, i, ch) => Preceded(b, i)
      /\ \A c \in Clerk : cl[c].at = "waiting" /\ cl[c].number = b[i].number
                          => b[i].op = cl[c].op
      /\ MaxLate = 0 =>
           \A j \in 1..i : b[j].op.ck = b[i].op.ck => b[j].op.req <= b[i].op.req
  BY <1>1 DEF Sound
<1> QED
  BY <1>2, <1>3, <1>4, <1>5, <1>6

(* More is chosen, started and called. *)
Later(ch, n, cd, cl, di, m, ce, cm) ==
    /\ ch \in Seq(Entry) /\ di \in Seq(Entry) /\ Begins(ch, di)
    /\ n \in Nat /\ m \in Nat /\ n <= m
    /\ cd \in [Clerk -> Nat] /\ ce \in [Clerk -> Nat] /\ \A c \in Clerk : cd[c] <= ce[c]
    /\ \A c \in Clerk : cm[c].at = "waiting" => cm[c] = cl[c] \/ cm[c].number \notin 1..n

LEMMA SoundLater ==
    ASSUME NEW l \in Seq(Entry), NEW ch, NEW n, NEW cd, NEW cl, NEW di, NEW m, NEW ce, NEW cm,
           Later(ch, n, cd, cl, di, m, ce, cm),
           Sound(l, ch, n, cd, cl)
    PROVE  Sound(l, di, m, ce, cm)
<1> USE DEF Later
<1> SUFFICES ASSUME NEW i \in 1..Len(l)
    PROVE  /\ l[i].number \in 1..m
           /\ l[i].op.req \in 1..ce[l[i].op.ck]
           /\ Agrees(l, i, di) => Preceded(l, i)
           /\ \A c \in Clerk : cm[c].at = "waiting" /\ cm[c].number = l[i].number
                               => l[i].op = cm[c].op
           /\ MaxLate = 0 =>
                \A j \in 1..i : l[j].op.ck = l[i].op.ck => l[j].op.req <= l[i].op.req
  BY DEF Sound
<1>1. /\ l[i].number \in 1..n
      /\ l[i].op.req \in 1..cd[l[i].op.ck]
      /\ Agrees(l, i, ch) => Preceded(l, i)
      /\ \A c \in Clerk : cl[c].at = "waiting" /\ cl[c].number = l[i].number
                          => l[i].op = cl[c].op
      /\ MaxLate = 0 =>
           \A j \in 1..i : l[j].op.ck = l[i].op.ck => l[j].op.req <= l[i].op.req
  BY DEF Sound
<1>2. l[i] \in Entry /\ l[i].op.ck \in Clerk
  BY ElementOfSeq, EntryFacts
<1>3. Agrees(l, i, di) => Agrees(l, i, ch)
  <2>1. Len(l) \in Nat /\ Len(ch) \in Nat /\ Len(di) \in Nat
    BY LenProperties
  <2> QED
    BY <2>1 DEF Agrees, Begins
<1>4. l[i].op.req \in 1..ce[l[i].op.ck]
  BY <1>1, <1>2
<1>5. l[i].number \in 1..m
  BY <1>1
<1>6. \A c \in Clerk : cm[c].at = "waiting" /\ cm[c].number = l[i].number
                      => l[i].op = cm[c].op
  BY <1>1
<1> QED
  BY <1>1, <1>3, <1>4, <1>5, <1>6

(* A log in which an operation is started with a fresh number. *)
LEMMA SoundStart ==
    ASSUME NEW l \in Seq(Entry), NEW ch \in Seq(Entry), NEW n \in Nat,
           NEW cd \in [Clerk -> Nat], NEW cl,
           NEW e \in Entry, e.number = n + 1, e.op.req \in 1..cd[e.op.ck],
           \A i \in 1..Len(ch) : ch[i].number \in 1..n,
           \A r \in 1..(e.op.req - 1) : \E i \in 1..Len(ch) : Is(ch[i], e.op.ck, r),
           \A c \in Clerk : cl[c].at = "waiting" /\ cl[c].number = n + 1 => cl[c].op = e.op,
           MaxLate = 0 => e.op.req = cd[e.op.ck],
           Sound(l, ch, n + 1, cd, cl)
    PROVE  Sound(Append(l, e), ch, n + 1, cd, cl)
<1>1. PICK a : a = Append(l, e)
  OBVIOUS
<1>2. /\ a \in Seq(Entry) /\ Len(l) \in Nat /\ Len(a) = Len(l) + 1
      /\ a[Len(l) + 1] = e /\ \A i \in 1..Len(l) : a[i] = l[i]
  BY <1>1
<1>3. PICK p \in Nat : p = Len(l) + 1
  BY <1>2
<1> SUFFICES ASSUME NEW i \in 1..Len(a)
    PROVE  /\ a[i].number \in 1..(n + 1)
           /\ a[i].op.req \in 1..cd[a[i].op.ck]
           /\ Agrees(a, i, ch) => Preceded(a, i)
           /\ \A c \in Clerk : cl[c].at = "waiting" /\ cl[c].number = a[i].number
                               => a[i].op = cl[c].op
           /\ MaxLate = 0 =>
                \A j \in 1..i : a[j].op.ck = a[i].op.ck => a[j].op.req <= a[i].op.req
  BY <1>1 DEF Sound
<1>4. CASE i = p
  <2>1. a[i] = e
    BY <1>2, <1>3, <1>4
  <2>2. ASSUME Agrees(a, i, ch) PROVE Preceded(a, i)
    <3>1. Len(ch) \in Nat
      BY LenProperties
    <3>2. ~(i <= Len(ch))
      <4>1. i <= Len(ch) => ch[i] = e /\ i \in 1..Len(ch)
        BY <1>3, <1>4, <2>1, <2>2, <3>1 DEF Agrees
      <4> QED
        BY <4>1
    <3>3. \A j \in 1..Len(ch) : j \in 1..(i - 1) /\ a[j] = ch[j]
      BY <1>3, <1>4, <2>2, <3>1, <3>2 DEF Agrees
    <3> QED
      BY <2>1, <3>3 DEF Preceded
  <2>3. ASSUME MaxLate = 0, NEW j \in 1..i, a[j].op.ck = a[i].op.ck
        PROVE  a[j].op.req <= a[i].op.req
    <3>1. e.op.req \in Nat /\ e.op.ck \in Clerk
      BY EntryFacts
    <3>2. CASE j = i
      BY <2>1, <3>1, <3>2
    <3>3. CASE j # i
      <4>1. j \in 1..Len(l) /\ a[j] = l[j]
        BY <1>2, <1>3, <1>4, <3>3
      <4>2. l[j].op.req \in 1..cd[l[j].op.ck]
        BY <4>1 DEF Sound
      <4> QED
        BY <2>1, <2>3, <3>1, <4>1, <4>2
    <3> QED
      BY <3>2, <3>3
  <2> QED
    BY <2>1, <2>2, <2>3
<1>5. CASE i # p
  <2>1. i \in 1..Len(l)
    BY <1>2, <1>3, <1>5
  <2>2. \A j \in 1..i : a[j] = l[j]
    BY <1>2, <2>1
  <2>3. /\ l[i].number \in 1..(n + 1)
        /\ l[i].op.req \in 1..cd[l[i].op.ck]
        /\ Agrees(l, i, ch) => Preceded(l, i)
        /\ \A c \in Clerk : cl[c].at = "waiting" /\ cl[c].number = l[i].number
                            => l[i].op = cl[c].op
        /\ MaxLate = 0 =>
             \A j \in 1..i : l[j].op.ck = l[i].op.ck => l[j].op.req <= l[i].op.req
    BY <2>1 DEF Sound
  <2>4. Agrees(a, i, ch) => Agrees(l, i, ch)
    BY <2>2 DEF Agrees
  <2>5. a[i] = l[i] /\ \A j \in 1..(i - 1) : a[j] = l[j]
    BY <1>2, <2>1
  <2>6. Preceded(l, i) => Preceded(a, i)
    BY <2>5 DEF Preceded
  <2> QED
    BY <2>2, <2>3, <2>4, <2>5, <2>6
<1> QED
  BY <1>4, <1>5

(* The leader has everything chosen; all logs are sound. *)
LogInv ==
    /\ \A s \in leader : Begins(chosen, rlog[s])
    /\ \A s \in Server : Sound(rlog[s], chosen, number, called, call)
    /\ Sound(chosen, chosen, number, called, call)

(* What a clerk was told is done is chosen; what it is calling was not     *)
(* chosen before it called.                                                *)
CallInv ==
    /\ \A c \in Clerk : \A r \in 1..Returned(c) : \E i \in 1..Len(chosen) : Is(chosen[i], c, r)
    /\ \A c \in Clerk : call[c] # Idle =>
         /\ called[c] > 0 /\ since[c] <= Len(chosen)
         /\ \A i \in 1..since[c] : ~Is(chosen[i], c, called[c])
    /\ \A c \in Clerk : call[c].at = "waiting" => call[c].number \in 1..number
    /\ \A r \in late : r.op.req \in 1..called[r.op.ck]

(* The logs stay and nothing is started: nothing but the calls changes.    *)
LEMMA LogsKept ==
    ASSUME LogTypes, ClerkTypes, LogInv, ClerkTypes', UNCHANGED raftVars, number' = number,
           \A c \in Clerk : called[c] <= called'[c],
           \A c \in Clerk : call'[c].at = "waiting" => call'[c] = call[c]
    PROVE  LogInv'
<1>1. /\ chosen \in Seq(Entry) /\ \A s \in Server : rlog[s] \in Seq(Entry)
      /\ number \in Nat /\ called \in [Clerk -> Nat] /\ called' \in [Clerk -> Nat]
  BY DEF LogTypes, ClerkTypes
<1>2. Begins(chosen, chosen)
  BY <1>1, LenProperties DEF Begins
<1>3. ASSUME NEW l \in Seq(Entry), Sound(l, chosen, number, called, call)
      PROVE  Sound(l, chosen, number, called', call')
  <2>1. Later(chosen, number, called, call, chosen, number, called', call')
    BY <1>1, <1>2 DEF Later
  <2> QED
    BY <1>3, <2>1, SoundLater
<1> QED
  BY <1>1, <1>3 DEF LogInv, raftVars

(* The logs of the next state begin logs of this one. *)
LEMMA LogsCut ==
    ASSUME LogTypes, ClerkTypes, LogInv, LogTypes', number' = number, called' = called,
           call' = call, Begins(chosen, chosen'),
           \A s \in Server : \/ rlog'[s] = rlog[s]
                             \/ Begins(rlog'[s], chosen)
                             \/ \E t \in Server : rlog'[s] = rlog[t],
           \A s \in leader' : Begins(chosen', rlog'[s]),
           chosen' # chosen => \E t \in Server : Begins(chosen', rlog[t])
    PROVE  LogInv'
<1>1. /\ chosen \in Seq(Entry) /\ \A s \in Server : rlog[s] \in Seq(Entry)
      /\ chosen' \in Seq(Entry) /\ \A s \in Server : rlog'[s] \in Seq(Entry)
      /\ number \in Nat /\ called \in [Clerk -> Nat]
  BY DEF LogTypes, ClerkTypes
<1>2. ASSUME NEW l \in Seq(Entry), Sound(l, chosen, number, called, call)
      PROVE  Sound(l, chosen', number, called, call)
  <2>1. Later(chosen, number, called, call, chosen', number, called, call)
    BY <1>1 DEF Later
  <2> QED
    BY <1>2, <2>1, SoundLater
<1>3. /\ \A s \in Server : Sound(rlog[s], chosen, number, called, call)
      /\ Sound(chosen, chosen, number, called, call)
  BY DEF LogInv
<1>4. ASSUME NEW s \in Server PROVE Sound(rlog'[s], chosen', number, called, call)
  <2>1. Sound(rlog'[s], chosen, number, called, call)
    <3>1. CASE Begins(rlog'[s], chosen)
      BY <1>1, <1>3, <3>1, SoundPart
    <3> QED
      BY <1>3, <3>1
  <2> QED
    BY <1>1, <1>2, <2>1
<1>5. Sound(chosen', chosen', number, called, call)
  <2>1. CASE chosen' = chosen
    BY <1>1, <1>2, <1>3, <2>1
  <2>2. CASE chosen' # chosen
    <3>1. PICK t \in Server : Begins(chosen', rlog[t])
      BY <2>2
    <3>2. Sound(chosen', chosen, number, called, call)
      BY <1>1, <1>3, <3>1, SoundPart
    <3> QED
      BY <1>1, <1>2, <3>2
  <2> QED
    BY <2>1, <2>2
<1> QED
  BY <1>4, <1>5 DEF LogInv

(* An operation is started. *)
LEMMA LogsStart ==
    ASSUME LogTypes, ClerkTypes, LogInv, CallInv, NEW s \in Server, NEW o \in Ops,
           Starts(s, o), o.req \in 1..called[o.ck], MaxLate = 0 => o.req = called[o.ck],
           called' = called,
           \A c \in Clerk : call'[c].at = "waiting" =>
               call'[c] = call[c] \/ (call'[c].number = number + 1 /\ call'[c].op = o)
    PROVE  LogInv'
<1>1. /\ chosen \in Seq(Entry) /\ \A t \in Server : rlog[t] \in Seq(Entry)
      /\ number \in Nat /\ number + 1 \in Nat /\ called \in [Clerk -> Nat]
  BY DEF LogTypes, ClerkTypes
<1>2. PICK e : e = [op |-> o, number |-> number + 1]
  OBVIOUS
<1>3. e \in Entry /\ e.op = o /\ e.number = number + 1
  BY <1>1, <1>2 DEF Entry
<1>4. /\ rlog' = [rlog EXCEPT ![s] = Append(rlog[s], e)]
      /\ chosen' = chosen /\ leader' = leader /\ number' = number + 1
  BY <1>2 DEF Starts, LogStart
<1>5. PICK cm : cm = call'
  OBVIOUS
<1>6. ASSUME NEW l \in Seq(Entry), Sound(l, chosen, number, called, call)
      PROVE  Sound(l, chosen, number + 1, called, cm)
  <2>1. number <= number + 1 /\ \A c \in Clerk : called[c] <= called[c]
    BY <1>1
  <2>2. \A c \in Clerk : cm[c].at = "waiting" => cm[c] = call[c] \/ cm[c].number \notin 1..number
    BY <1>1, <1>5
  <2>3. Begins(chosen, chosen)
    BY <1>1, LenProperties DEF Begins
  <2>4. Later(chosen, number, called, call, chosen, number + 1, called, cm)
    BY <1>1, <2>1, <2>2, <2>3 DEF Later
  <2> QED
    BY <1>6, <2>4, SoundLater
<1>7. /\ \A t \in Server : Sound(rlog[t], chosen, number + 1, called, cm)
      /\ Sound(chosen, chosen, number + 1, called, cm)
  BY <1>1, <1>6 DEF LogInv
<1>8. Sound(Append(rlog[s], e), chosen, number + 1, called, cm)
  <2>1. \A i \in 1..Len(chosen) : chosen[i].number \in 1..number
    BY DEF LogInv, Sound
  <2>2. \A c \in Clerk : cm[c].at = "waiting" /\ cm[c].number = number + 1 => cm[c].op = e.op
    BY <1>1, <1>3, <1>5 DEF CallInv
  <2>3. \A r \in 1..(e.op.req - 1) : \E i \in 1..Len(chosen) : Is(chosen[i], e.op.ck, r)
    <3>1. o.ck \in Clerk /\ o.req \in Nat /\ called[o.ck] \in Nat
      BY <1>1, OpFacts
    <3>2. \A r \in 1..(o.req - 1) : r \in 1..Returned(o.ck)
      BY <3>1 DEF Returned
    <3> QED
      BY <1>3, <3>1, <3>2 DEF CallInv
  <2>4. e.op.req \in 1..called[e.op.ck] /\ (MaxLate = 0 => e.op.req = called[e.op.ck])
    BY <1>3
  <2> QED
    BY <1>1, <1>3, <1>7, <2>1, <2>2, <2>3, <2>4, SoundStart
<1>9. \A t \in Server : Sound(rlog'[t], chosen, number + 1, called, cm)
  BY <1>1, <1>4, <1>7, <1>8 DEF LogTypes
<1>10. \A t \in leader : Begins(chosen, rlog'[t])
  <2>1. Len(chosen) \in Nat /\ Len(rlog[s]) \in Nat /\ Begins(rlog[s], Append(rlog[s], e))
    BY <1>1, <1>3, LenProperties, AppendFacts
  <2>2. Begins(chosen, rlog[s]) => Begins(chosen, Append(rlog[s], e))
    <3>1. PICK a : a = Append(rlog[s], e)
      OBVIOUS
    <3>2. Len(a) = Len(rlog[s]) + 1
      BY <1>1, <1>3, <3>1
    <3> QED
      BY <2>1, <3>1, <3>2 DEF Begins
  <2> QED
    BY <1>4, <2>2 DEF LogInv, LogTypes
<1> QED
  BY <1>4, <1>5, <1>7, <1>9, <1>10 DEF LogInv

LEMMA BeginsSelf ==
    ASSUME NEW a \in Seq(Entry)
    PROVE  Begins(a, a)
BY LenProperties DEF Begins

(* A commit: the log of the leader begins with what is chosen now.         *)
LEMMA CommitIs ==
    ASSUME LogTypes, LogInv, NEW l \in Server, Commit(l)
    PROVE  /\ chosen' \in Seq(Entry) /\ Len(chosen') = Len(chosen) + 1
           /\ Begins(chosen, chosen') /\ Begins(chosen', rlog[l]) /\ l \in leader
<1>1. /\ l \in leader /\ Len(chosen) < Len(rlog[l])
      /\ chosen' = Append(chosen, rlog[l][Len(chosen) + 1])
  BY DEF Commit, LogCommit
<1>2. chosen \in Seq(Entry) /\ rlog[l] \in Seq(Entry)
  BY DEF LogTypes
<1>3. PICK e : e = rlog[l][Len(chosen) + 1]
  OBVIOUS
<1>4. e \in Entry /\ Len(chosen) \in Nat /\ Len(rlog[l]) \in Nat
  BY <1>1, <1>2, <1>3
<1>5. /\ chosen' \in Seq(Entry) /\ Len(chosen') = Len(chosen) + 1
      /\ chosen'[Len(chosen) + 1] = e /\ Begins(chosen, chosen')
  BY <1>1, <1>2, <1>3, <1>4, AppendFacts
<1>6. Begins(chosen, rlog[l])
  BY <1>1 DEF LogInv
<1>7. ASSUME NEW i \in 1..Len(chosen') PROVE chosen'[i] = rlog[l][i]
  <2>1. i \in 1..Len(chosen) \/ i = Len(chosen) + 1
    BY <1>4, <1>5
  <2>2. i \in 1..Len(chosen) => chosen'[i] = chosen[i] /\ chosen[i] = rlog[l][i]
    BY <1>5, <1>6 DEF Begins
  <2>3. i = Len(chosen) + 1 => chosen'[i] = rlog[l][i]
    BY <1>3, <1>5
  <2> QED
    BY <2>1, <2>2, <2>3
<1>8. Begins(chosen', rlog[l])
  <2>1. Len(chosen') <= Len(rlog[l])
    BY <1>1, <1>4, <1>5
  <2> QED
    BY <1>7, <2>1 DEF Begins
<1> QED
  BY <1>1, <1>5, <1>8

(* Every step keeps the logs sound and the leader complete. *)
LEMMA LogStep ==
    ASSUME LogTypes, ClerkTypes, ServerTypes, LogInv, CallInv, [Next]_vars,
           LogTypes', ClerkTypes',
           \A s \in Server : snapshot[s].index <= Len(chosen)
    PROVE  LogInv'
<1> USE DEF bounds, clerkVars
<1>1. chosen \in Seq(Entry) /\ \A s \in Server : rlog[s] \in Seq(Entry)
  BY DEF LogTypes
<1>2. Begins(chosen, chosen)
  BY <1>1, BeginsSelf
<1>3. ASSUME NEW s \in Server, Elect(s) PROVE LogInv'
  <2>1. /\ rlog' = rlog /\ chosen' = chosen /\ leader' = {s} /\ IsPrefix(chosen, rlog[s])
        /\ number' = number /\ called' = called /\ call' = call
    BY <1>3 DEF Elect, LogElect
  <2>2. Begins(chosen, rlog[s])
    BY <1>1, <2>1, PrefixIs
  <2> QED
    BY <1>2, <2>1, <2>2, LogsCut
<1>4. ASSUME NEW s \in Server, Restart(s) PROVE LogInv'
  <2>1. /\ rlog' = rlog /\ chosen' = chosen /\ leader' \subseteq leader
        /\ number' = number /\ called' = called
    BY <1>4 DEF Restart, LogRestart
  <2>2. \A c \in Clerk : call'[c].at = "waiting" => call'[c] = call[c]
    BY <1>4 DEF Restart, Sent
  <2>3. ASSUME NEW l \in Seq(Entry), Sound(l, chosen, number, called, call)
        PROVE  Sound(l, chosen, number, called, call')
    <3>1. Later(chosen, number, called, call, chosen, number, called, call')
      BY <1>1, <1>2, <2>2 DEF Later, ClerkTypes
    <3> QED
      BY <2>3, <3>1, SoundLater
  <2> QED
    BY <1>1, <2>1, <2>3 DEF LogInv
<1>5. ASSUME NEW l \in Server, Commit(l) PROVE LogInv'
  <2>1. Begins(chosen, chosen') /\ Begins(chosen', rlog[l]) /\ l \in leader
    BY <1>5, CommitIs
  <2>2. /\ rlog' = rlog /\ leader' = leader
        /\ number' = number /\ called' = called /\ call' = call
    BY <1>5 DEF Commit, LogCommit
  <2>3. \A s \in leader' : Begins(chosen', rlog'[s])
    BY <2>1, <2>2 DEF LogTypes
  <2> QED
    BY <2>1, <2>2, <2>3, LogsCut
<1>6. ASSUME NEW l \in Server, NEW s \in Server, Replicate(l, s) PROVE LogInv'
  <2>1. /\ rlog' = [rlog EXCEPT ![s] = rlog[l]] /\ chosen' = chosen /\ leader' = leader
        /\ l \in leader /\ number' = number /\ called' = called /\ call' = call
    BY <1>6 DEF Replicate, LogReplicate
  <2>2. \A t \in Server : rlog'[t] = rlog[t] \/ rlog'[t] = rlog[l]
    BY <2>1 DEF LogTypes
  <2>3. \A t \in leader' : Begins(chosen', rlog'[t])
    BY <2>1, <2>2 DEF LogInv, LogTypes
  <2> QED
    BY <1>2, <2>1, <2>2, <2>3, LogsCut
<1>7. ASSUME NEW l \in Server, NEW s \in Server, InstallSnapshot(l, s) PROVE LogInv'
  <2>1. PICK n \in Nat : n = snapshot[l].index
    BY DEF ServerTypes
  <2>2. Begins(SubSeq(chosen, 1, n), chosen)
    BY <1>1, <2>1, CutFacts
  <2>3. /\ \/ rlog' = [rlog EXCEPT ![s] = rlog[s]]
           \/ rlog' = [rlog EXCEPT ![s] = SubSeq(chosen, 1, n)]
        /\ chosen' = chosen /\ leader' = leader /\ s # l
        /\ l \in leader /\ number' = number /\ called' = called /\ call' = call
    BY <1>7, <2>1 DEF InstallSnapshot, LogInstall
  <2>4. \A t \in Server : rlog'[t] = rlog[t] \/ (t = s /\ Begins(rlog'[t], chosen))
    BY <2>2, <2>3 DEF LogTypes
  <2>5. \A t \in leader : t # s
    BY <2>3 DEF LogTypes
  <2>6. \A t \in leader' : Begins(chosen', rlog'[t])
    BY <2>3, <2>4, <2>5 DEF LogInv, LogTypes
  <2> QED
    BY <1>2, <2>3, <2>4, <2>6, LogsCut
<1>8. ASSUME NEW c \in Clerk, HandleStart(c) PROVE LogInv'
  <2>1. call[c] \in Call /\ call[c] # Idle
    BY <1>8, CallFacts DEF ClerkTypes, HandleStart, Idle
  <2>2. call[c].server \in Server /\ call[c].op \in Ops
    BY <2>1, CallFacts
  <2>3. PICK o \in Ops : o = call[c].op
    BY <2>2
  <2>4. o.ck = c /\ o.req = called[c] /\ called[c] \in Nat /\ called[c] > 0
    BY <2>1, <2>3 DEF ClerkTypes, CallInv
  <2>5. Starts(call[c].server, o) /\ called' = called
    BY <1>8, <2>3 DEF HandleStart
  <2>6. \A d \in Clerk : call'[d] = call[d] \/ (call'[d].number = number + 1 /\ call'[d].op = o)
    BY <1>8, <2>3 DEF HandleStart, Starts, ClerkTypes
  <2> QED
    BY <2>2, <2>4, <2>5, <2>6, LogsStart
<1>9. ASSUME NEW r \in late, HandleLate(r) PROVE LogInv'
  <2>1. r.server \in Server /\ r.op \in Ops /\ MaxLate # 0 /\ r.op.req \in 1..called[r.op.ck]
    BY DEF ClerkTypes, CallInv, SentCall
  <2>2. Starts(r.server, r.op) /\ called' = called /\ call' = call
    BY <1>9 DEF HandleLate
  <2> QED
    BY <2>1, <2>2, LogsStart
<1>10. ASSUME NEW c \in Clerk,
              Invoke(c) \/ TryNext(c) \/ GiveUp(c) \/ HandleAnswered(c) \/ HandleCommitted(c)
       PROVE  LogInv'
  <2>1. UNCHANGED raftVars /\ number' = number
    BY <1>10 DEF Invoke, TryNext, GiveUp, HandleAnswered, HandleCommitted
  <2>2. \A d \in Clerk : called[d] <= called'[d]
    BY <1>10 DEF Invoke, TryNext, GiveUp, HandleAnswered, HandleCommitted, ClerkTypes
  <2>3. \A d \in Clerk : call'[d].at = "waiting" => call'[d] = call[d]
    <3>1. \E k : k.at # "waiting" /\ call' = [call EXCEPT ![c] = k]
      BY <1>10 DEF Invoke, TryNext, GiveUp, HandleAnswered, HandleCommitted, Return, Idle, Sent
    <3> QED
      BY <3>1 DEF ClerkTypes
  <2> QED
    BY <2>1, <2>2, <2>3, LogsKept
<1> QED
  <2>1. ASSUME NEW s \in Server, Apply(s) \/ ApplySnapshot(s) PROVE LogInv'
    BY <2>1 DEF Apply, ApplySnapshot, LogInv, raftVars
  <2>2. UNCHANGED vars => LogInv'
    BY DEF vars, LogInv
  <2> QED
    BY <1>3, <1>4, <1>5, <1>6, <1>7, <1>8, <1>9, <1>10, <2>1, <2>2 DEF Next

-----------------------------------------------------------------------------
(* The servers *)

(* Sessions that are those of the first n chosen entries: each is about    *)
(* the last of them that is the clerk's.                                   *)
SessionsAt(ss, n, ch) ==
    \A c \in Clerk :
        /\ ss[c].valid =>
             /\ ss[c].index \in 1..n /\ Is(ch[ss[c].index], c, ss[c].req)
             /\ \A j \in 1..n : j > ss[c].index => ch[j].op.ck # c
        /\ ~ss[c].valid => \A j \in 1..n : ch[j].op.ck # c

ServerInv ==
    \A s \in Server :
        /\ lastApplied[s] <= Len(chosen) /\ snapshot[s].index <= Len(chosen)
        /\ s \notin installing => snapshot[s].index <= lastApplied[s]
        /\ DOMAIN logRecord[s] \subseteq 1..Len(chosen)
        /\ \A i \in DOMAIN logRecord[s] : logRecord[s][i] = chosen[i].number
        /\ SessionsAt(ckSessions[s], lastApplied[s], chosen)
        /\ SessionsAt(snapshot[s].ckSessions, snapshot[s].index, chosen)

LEMMA SessionsLater ==
    ASSUME NEW ch \in Seq(Entry), NEW di \in Seq(Entry), Begins(ch, di),
           NEW ss, NEW n \in Nat, n <= Len(ch), SessionsAt(ss, n, ch)
    PROVE  SessionsAt(ss, n, di)
<1>1. \A j \in 1..n : di[j] = ch[j]
  BY LenProperties DEF Begins
<1> QED
  BY <1>1 DEF SessionsAt

(* handleApplyMsg makes the entry the last one of its clerk's session.     *)
LEMMA SessionsApply ==
    ASSUME NEW ch \in Seq(Entry), NEW n \in Nat, n + 1 <= Len(ch),
           NEW ss, DOMAIN ss = Clerk, SessionsAt(ss, n, ch)
    PROVE  SessionsAt([ss EXCEPT ![ch[n + 1].op.ck] = NewSession(ch[n + 1], n + 1)], n + 1, ch)
<1>1. PICK i \in Nat : i = n + 1
  OBVIOUS
<1>2. PICK e : e = ch[i]
  OBVIOUS
<1>3. e \in Entry /\ e.op.ck \in Clerk
  BY <1>1, <1>2, LenProperties, ElementOfSeq, EntryFacts
<1>4. PICK tt : tt = [ss EXCEPT ![e.op.ck] = NewSession(e, i)]
  OBVIOUS
<1> SUFFICES ASSUME NEW c \in Clerk
    PROVE  /\ tt[c].valid =>
                /\ tt[c].index \in 1..i /\ Is(ch[tt[c].index], c, tt[c].req)
                /\ \A j \in 1..i : j > tt[c].index => ch[j].op.ck # c
           /\ ~tt[c].valid => \A j \in 1..i : ch[j].op.ck # c
  BY <1>1, <1>2, <1>4 DEF SessionsAt
<1>5. CASE c = e.op.ck
  <2>1. tt[c] = NewSession(e, i)
    BY <1>3, <1>4, <1>5
  <2>2. tt[c].valid /\ tt[c].req = e.op.req /\ tt[c].index = i
    BY <2>1 DEF NewSession
  <2> QED
    BY <1>1, <1>2, <1>5, <2>2 DEF Is
<1>6. CASE c # e.op.ck
  <2>1. tt[c] = ss[c]
    BY <1>4, <1>6
  <2>2. \A j \in 1..i : j \in 1..n \/ ch[j].op.ck # c
    BY <1>1, <1>2, <1>6
  <2>3. /\ ss[c].valid =>
             /\ ss[c].index \in 1..n /\ Is(ch[ss[c].index], c, ss[c].req)
             /\ \A j \in 1..n : j > ss[c].index => ch[j].op.ck # c
        /\ ~ss[c].valid => \A j \in 1..n : ch[j].op.ck # c
    BY DEF SessionsAt
  <2>4. 1..n \subseteq 1..i
    BY <1>1
  <2> QED
    BY <2>1, <2>2, <2>3, <2>4
<1> QED
  BY <1>5, <1>6

LEMMA NoSessions ==
    ASSUME NEW ch
    PROVE  SessionsAt(NewSessions, 0, ch)
BY DEF SessionsAt, NewSessions, NoSession

(* Server s applies the entry e at index i. *)
AppliedAt(s, i, e) ==
    /\ i = lastApplied[s] + 1 /\ i \in 1..Len(chosen) /\ e = chosen[i]
    /\ lastApplied' = [lastApplied EXCEPT ![s] = i]
    /\ UNCHANGED <<raftVars, clerkVars, since, got, number>>

AppliedSessions(s, i, e) ==
    /\ ckSessions'[s] = [ckSessions[s] EXCEPT ![e.op.ck] = NewSession(e, i)]
    /\ \A t \in Server : t # s => ckSessions'[t] = ckSessions[t]

AppliedStore(s, i, e) ==
    /\ \A t \in Server : t # s => mp'[t] = mp[t]
    /\ Stale(ckSessions[s][e.op.ck], e, i) => mp'[s] = mp[s]
    /\ ~Stale(ckSessions[s][e.op.ck], e, i) => mp'[s] = After(mp[s], e.op)

AppliedRecord(s, i, e) ==
    /\ DOMAIN logRecord'[s] = DOMAIN logRecord[s] \cup {i} /\ logRecord'[s][i] = e.number
    /\ \A j \in DOMAIN logRecord[s] : j # i => logRecord'[s][j] = logRecord[s][j]
    /\ \A t \in Server : t # s => logRecord'[t] = logRecord[t]

AppliedSnapshot(s, i) ==
    /\ \A t \in Server : t # s => snapshot'[t] = snapshot[t]
    /\ \/ snapshot'[s] = snapshot[s]
       \/ snapshot'[s] = [index |-> i, mp |-> mp'[s], ckSessions |-> ckSessions'[s]]

Applied(s, i, e) ==
    /\ AppliedAt(s, i, e) /\ AppliedSessions(s, i, e) /\ AppliedStore(s, i, e)
    /\ AppliedRecord(s, i, e) /\ AppliedSnapshot(s, i)

LEMMA ApplyIs ==
    ASSUME LogTypes, ServerTypes, NEW s \in Server, Apply(s)
    PROVE  \E i \in Nat, e \in Entry : Applied(s, i, e)
<1>1. PICK i \in Nat : i = lastApplied[s] + 1
  BY DEF ServerTypes
<1>2. Len(chosen) \in Nat /\ i <= Len(chosen) /\ i \in 1..Len(chosen)
  BY <1>1, LenProperties DEF Apply, Delivers, LogTypes, ServerTypes
<1>3. PICK e \in Entry : e = chosen[i]
  BY <1>2, ElementOfSeq DEF LogTypes
<1>4. /\ logRecord' = [logRecord EXCEPT ![s] =
                         [j \in DOMAIN logRecord[s] \cup {i} |->
                            IF j = i THEN e.number ELSE logRecord[s][j]]]
      /\ lastApplied' = [lastApplied EXCEPT ![s] = i]
      /\ ckSessions' = [ckSessions EXCEPT ![s][e.op.ck] = NewSession(e, i)]
      /\ mp' = IF Stale(ckSessions[s][e.op.ck], e, i) THEN mp
               ELSE [mp EXCEPT ![s] = After(mp[s], e.op)]
      /\ UNCHANGED <<raftVars, clerkVars, since, got, bounds>>
  BY <1>1, <1>3 DEF Apply
<1>5. \/ snapshot' = snapshot
      \/ snapshot' = [snapshot EXCEPT ![s] =
                        [index |-> i, mp |-> mp'[s], ckSessions |-> ckSessions'[s]]]
  BY <1>1 DEF Apply
<1>6. AppliedRecord(s, i, e)
  BY <1>4 DEF ServerTypes, AppliedRecord
<1>7. AppliedSessions(s, i, e)
  BY <1>4 DEF ServerTypes, AppliedSessions
<1>8. AppliedStore(s, i, e)
  BY <1>4 DEF ServerTypes, AppliedStore
<1>9. AppliedSnapshot(s, i)
  BY <1>5 DEF ServerTypes, AppliedSnapshot
<1>10. AppliedAt(s, i, e)
  <2>1. UNCHANGED <<raftVars, clerkVars, since, got, number>>
    BY <1>4 DEF bounds
  <2> QED
    BY <1>1, <1>2, <1>3, <1>4, <2>1 DEF AppliedAt
<1> QED
  BY <1>6, <1>7, <1>8, <1>9, <1>10 DEF Applied

(* Every step keeps the servers' records and sessions true. *)
LEMMA ServerStep ==
    ASSUME LogTypes, ServerTypes, LogInv, ServerInv, [Next]_vars, LogTypes', ServerTypes'
    PROVE  ServerInv'
<1> USE DEF kvVars
<1>1. chosen \in Seq(Entry) /\ chosen' \in Seq(Entry) /\ Len(chosen) \in Nat
  BY LenProperties DEF LogTypes
<1>2. \A s \in Server : lastApplied[s] \in Nat /\ snapshot[s].index \in Nat
  BY DEF ServerTypes
<1>3. ASSUME NEW l \in Server, Commit(l) PROVE ServerInv'
  <2>1. Begins(chosen, chosen') /\ Len(chosen') = Len(chosen) + 1
    BY <1>3, CommitIs
  <2>2. UNCHANGED kvVars
    BY <1>3 DEF Commit
  <2> SUFFICES ASSUME NEW s \in Server
      PROVE  /\ lastApplied[s] <= Len(chosen') /\ snapshot[s].index <= Len(chosen')
             /\ s \notin installing => snapshot[s].index <= lastApplied[s]
             /\ DOMAIN logRecord[s] \subseteq 1..Len(chosen')
             /\ \A i \in DOMAIN logRecord[s] : logRecord[s][i] = chosen'[i].number
             /\ SessionsAt(ckSessions[s], lastApplied[s], chosen')
             /\ SessionsAt(snapshot[s].ckSessions, snapshot[s].index, chosen')
    BY <2>2 DEF ServerInv
  <2>3. /\ lastApplied[s] <= Len(chosen) /\ snapshot[s].index <= Len(chosen)
        /\ s \notin installing => snapshot[s].index <= lastApplied[s]
        /\ DOMAIN logRecord[s] \subseteq 1..Len(chosen)
        /\ \A i \in DOMAIN logRecord[s] : logRecord[s][i] = chosen[i].number
        /\ SessionsAt(ckSessions[s], lastApplied[s], chosen)
        /\ SessionsAt(snapshot[s].ckSessions, snapshot[s].index, chosen)
    BY DEF ServerInv
  <2>4. \A i \in DOMAIN logRecord[s] : logRecord[s][i] = chosen'[i].number
    BY <1>1, <1>2, <2>1, <2>3 DEF Begins
  <2>5. SessionsAt(ckSessions[s], lastApplied[s], chosen')
    BY <1>1, <1>2, <2>1, <2>3, SessionsLater
  <2>6. SessionsAt(snapshot[s].ckSessions, snapshot[s].index, chosen')
    BY <1>1, <1>2, <2>1, <2>3, SessionsLater
  <2> QED
    BY <1>1, <1>2, <2>1, <2>3, <2>4, <2>5, <2>6
<1>4. ASSUME NEW s \in Server, Apply(s) PROVE ServerInv'
  <2>0. PICK i \in Nat, e \in Entry : Applied(s, i, e)
    BY <1>4, ApplyIs
  <2>1. /\ i = lastApplied[s] + 1 /\ i \in 1..Len(chosen) /\ e = chosen[i]
        /\ lastApplied' = [lastApplied EXCEPT ![s] = i]
        /\ ckSessions'[s] = [ckSessions[s] EXCEPT ![e.op.ck] = NewSession(e, i)]
        /\ \A t \in Server : t # s => ckSessions'[t] = ckSessions[t]
        /\ DOMAIN logRecord'[s] = DOMAIN logRecord[s] \cup {i} /\ logRecord'[s][i] = e.number
        /\ \A j \in DOMAIN logRecord[s] : j # i => logRecord'[s][j] = logRecord[s][j]
        /\ \A t \in Server : t # s => logRecord'[t] = logRecord[t]
        /\ \A t \in Server : t # s => snapshot'[t] = snapshot[t]
        /\ \/ snapshot'[s] = snapshot[s]
           \/ snapshot'[s] = [index |-> i, mp |-> mp'[s], ckSessions |-> ckSessions'[s]]
        /\ UNCHANGED raftVars /\ s \notin installing /\ installing' = installing
    BY <1>4, <2>0 DEF Apply, Applied, AppliedAt, AppliedSessions, AppliedRecord, AppliedSnapshot
  <2>2. chosen' = chosen
    BY <2>1 DEF raftVars
  <2>3. lastApplied'[s] = i /\ \A t \in Server : t # s => lastApplied'[t] = lastApplied[t]
    BY <2>1 DEF ServerTypes
  <2>4. SessionsAt(ckSessions'[s], i, chosen)
    <3>1. PICK n \in Nat : n = lastApplied[s]
      BY <1>2
    <3>2. SessionsAt(ckSessions[s], n, chosen) /\ DOMAIN ckSessions[s] = Clerk
      BY <3>1 DEF ServerInv, ServerTypes
    <3>3. i = n + 1 /\ n + 1 <= Len(chosen)
      BY <1>1, <2>1, <3>1
    <3>4. SessionsAt([ckSessions[s] EXCEPT ![chosen[n + 1].op.ck] =
                        NewSession(chosen[n + 1], n + 1)], n + 1, chosen)
      BY <1>1, <3>2, <3>3, SessionsApply
    <3> QED
      BY <2>1, <3>3, <3>4
  <2>5. ASSUME NEW t \in Server, t # s
        PROVE  /\ lastApplied'[t] <= Len(chosen) /\ snapshot'[t].index <= Len(chosen)
               /\ t \notin installing' => snapshot'[t].index <= lastApplied'[t]
               /\ DOMAIN logRecord'[t] \subseteq 1..Len(chosen)
               /\ \A j \in DOMAIN logRecord'[t] : logRecord'[t][j] = chosen[j].number
               /\ SessionsAt(ckSessions'[t], lastApplied'[t], chosen)
               /\ SessionsAt(snapshot'[t].ckSessions, snapshot'[t].index, chosen)
    BY <2>1, <2>3, <2>5 DEF ServerInv
  <2>6. /\ DOMAIN logRecord[s] \subseteq 1..Len(chosen)
        /\ snapshot[s].index <= lastApplied[s]
        /\ \A j \in DOMAIN logRecord[s] : logRecord[s][j] = chosen[j].number
        /\ snapshot[s].index <= Len(chosen)
        /\ SessionsAt(snapshot[s].ckSessions, snapshot[s].index, chosen)
    BY <2>1 DEF ServerInv
  <2>7. DOMAIN logRecord'[s] \subseteq 1..Len(chosen)
    BY <2>1, <2>6
  <2>8. \A j \in DOMAIN logRecord'[s] : logRecord'[s][j] = chosen[j].number
    BY <2>1, <2>6
  <2>9. /\ snapshot'[s].index <= Len(chosen) /\ snapshot'[s].index <= i
        /\ SessionsAt(snapshot'[s].ckSessions, snapshot'[s].index, chosen)
    <3>1. i <= Len(chosen)
      BY <1>1, <2>1
    <3>2. CASE snapshot'[s] = snapshot[s]
      BY <1>2, <2>1, <2>6, <3>2
    <3>3. CASE snapshot'[s] = [index |-> i, mp |-> mp'[s], ckSessions |-> ckSessions'[s]]
      <4>1. snapshot'[s].index = i /\ snapshot'[s].ckSessions = ckSessions'[s]
        BY <3>3
      <4> QED
        BY <2>4, <3>1, <4>1
    <3> QED
      BY <2>1, <3>2, <3>3
  <2>10. i <= Len(chosen)
    BY <1>1, <2>1
  <2> QED
    BY <2>2, <2>3, <2>4, <2>5, <2>7, <2>8, <2>9, <2>10 DEF ServerInv
<1>5. ASSUME NEW s \in Server, ApplySnapshot(s) PROVE ServerInv'
  <2>1. /\ ckSessions' = [ckSessions EXCEPT ![s] = snapshot[s].ckSessions]
        /\ lastApplied' = [lastApplied EXCEPT ![s] = snapshot[s].index]
        /\ chosen' = chosen /\ logRecord' = logRecord /\ snapshot' = snapshot
        /\ installing' = installing \ {s}
    BY <1>5 DEF ApplySnapshot, RestoredSessions, raftVars
  <2>2. /\ lastApplied'[s] = snapshot[s].index /\ ckSessions'[s] = snapshot[s].ckSessions
        /\ \A t \in Server : t # s => lastApplied'[t] = lastApplied[t] /\ ckSessions'[t] = ckSessions[t]
    BY <2>1 DEF ServerTypes
  <2> QED
    BY <1>2, <2>1, <2>2 DEF ServerInv
<1>6. ASSUME NEW s \in Server, Restart(s) PROVE ServerInv'
  <2>1. /\ ckSessions' = [ckSessions EXCEPT ![s] = NewSessions]
        /\ logRecord' = [logRecord EXCEPT ![s] = NoRecord]
        /\ lastApplied' = [lastApplied EXCEPT ![s] = 0]
        /\ chosen' = chosen /\ snapshot' = snapshot
        /\ installing' = {t \in installing \cup {s} : t = s => snapshot[s].index > 0}
    BY <1>6 DEF Restart, LogRestart
  <2>2. /\ lastApplied'[s] = 0 /\ ckSessions'[s] = NewSessions /\ logRecord'[s] = NoRecord
        /\ \A t \in Server : t # s => /\ lastApplied'[t] = lastApplied[t]
                                      /\ ckSessions'[t] = ckSessions[t]
                                      /\ logRecord'[t] = logRecord[t]
    BY <2>1 DEF ServerTypes
  <2>3. DOMAIN NoRecord = {} /\ SessionsAt(NewSessions, 0, chosen) /\ 0 <= Len(chosen)
    BY <1>1, NoSessions DEF NoRecord
  <2>4. \A t \in Server : t \notin installing' =>
           IF t = s THEN snapshot[s].index <= 0 ELSE t \notin installing
    BY <1>2, <2>1
  <2> QED
    BY <2>1, <2>2, <2>3, <2>4 DEF ServerInv
<1>7. ASSUME NEW l \in Server, NEW s \in Server, InstallSnapshot(l, s) PROVE ServerInv'
  <2>1. /\ snapshot' = [snapshot EXCEPT ![s] = snapshot[l]]
        /\ chosen' = chosen /\ logRecord' = logRecord /\ lastApplied' = lastApplied
        /\ ckSessions' = ckSessions /\ installing' = installing \cup {s}
    BY <1>7 DEF InstallSnapshot, LogInstall
  <2>2. \A t \in Server : \/ snapshot'[t] = snapshot[t]
                          \/ t \in installing' /\ snapshot'[t] = snapshot[l]
    BY <2>1 DEF ServerTypes
  <2> QED
    BY <2>1, <2>2 DEF ServerInv
<1>8. ASSUME UNCHANGED kvVars, chosen' = chosen PROVE ServerInv'
  BY <1>8 DEF ServerInv
<1> QED
  <2>1. ASSUME NEW s \in Server, Elect(s) PROVE ServerInv'
    BY <1>8, <2>1 DEF Elect, LogElect
  <2>2. ASSUME NEW l \in Server, NEW s \in Server, Replicate(l, s) PROVE ServerInv'
    BY <1>8, <2>2 DEF Replicate, LogReplicate
  <2>3. ASSUME NEW c \in Clerk, Invoke(c) \/ TryNext(c) \/ GiveUp(c)
                                \/ HandleAnswered(c) \/ HandleCommitted(c)
        PROVE  ServerInv'
    BY <1>8, <2>3 DEF Invoke, TryNext, GiveUp, HandleAnswered, HandleCommitted, raftVars
  <2>4. ASSUME NEW c \in Clerk, HandleStart(c) PROVE ServerInv'
    BY <1>8, <2>4 DEF HandleStart, Starts, LogStart
  <2>5. ASSUME NEW r \in late, HandleLate(r) PROVE ServerInv'
    BY <1>8, <2>5 DEF HandleLate, Starts, LogStart
  <2>6. UNCHANGED vars => ServerInv'
    BY <1>8 DEF vars
  <2> QED
    BY <1>3, <1>4, <1>5, <1>6, <1>7, <2>1, <2>2, <2>3, <2>4, <2>5, <2>6 DEF Next

-----------------------------------------------------------------------------
(* The clerks *)

(* No call begins or ends. *)
LEMMA CallsGoOn ==
    ASSUME LogTypes, ClerkTypes, CallInv, LogTypes', ClerkTypes', Begins(chosen, chosen'),
           \A c \in Clerk : call'[c] = Idle <=> call[c] = Idle,
           called' = called, since' = since, number <= number',
           \A c \in Clerk : call'[c].at = "waiting" =>
               call'[c] = call[c] \/ call'[c].number \in 1..number',
           \A r \in late' : \/ r \in late
                            \/ \E c \in Clerk : call[c] # Idle /\ r.op = call[c].op
    PROVE  CallInv'
<1>1. /\ chosen \in Seq(Entry) /\ chosen' \in Seq(Entry) /\ Len(chosen) \in Nat
      /\ Len(chosen') \in Nat /\ Len(chosen) <= Len(chosen')
      /\ \A i \in 1..Len(chosen) : chosen'[i] = chosen[i] /\ i \in 1..Len(chosen')
  BY LenProperties DEF LogTypes, Begins
<1>2. number \in Nat /\ number' \in Nat /\ since \in [Clerk -> Nat] /\ called \in [Clerk -> Nat]
  BY DEF ClerkTypes
<1>3. ASSUME NEW c \in Clerk, NEW r \in 1..Returned(c)'
      PROVE  \E i \in 1..Len(chosen') : Is(chosen'[i], c, r)
  <2>1. Returned(c)' = Returned(c)
    BY DEF Returned
  <2>2. PICK i \in 1..Len(chosen) : Is(chosen[i], c, r)
    BY <1>3, <2>1 DEF CallInv
  <2> QED
    BY <1>1, <2>2
<1>4. ASSUME NEW c \in Clerk, call'[c] # Idle
      PROVE  /\ called'[c] > 0 /\ since'[c] <= Len(chosen')
             /\ \A i \in 1..since'[c] : ~Is(chosen'[i], c, called'[c])
  <2>1. /\ called[c] > 0 /\ since[c] <= Len(chosen)
        /\ \A i \in 1..since[c] : ~Is(chosen[i], c, called[c])
    BY <1>4 DEF CallInv
  <2>2. \A i \in 1..since[c] : chosen'[i] = chosen[i]
    BY <1>1, <1>2, <2>1
  <2> QED
    BY <1>1, <1>2, <2>1, <2>2
<1>5. \A c \in Clerk : call'[c].at = "waiting" => call'[c].number \in 1..number'
  BY <1>2 DEF CallInv
<1>6. \A r \in late' : r.op.req \in 1..called'[r.op.ck]
  <2> SUFFICES ASSUME NEW r \in late' PROVE r.op.req \in 1..called[r.op.ck]
    OBVIOUS
  <2>1. CASE r \in late
    BY <2>1 DEF CallInv
  <2>2. ASSUME NEW c \in Clerk, call[c] # Idle, r.op = call[c].op
        PROVE  r.op.req \in 1..called[r.op.ck]
    <3>1. call[c].op.ck = c /\ call[c].op.req = called[c]
      BY <2>2 DEF ClerkTypes
    <3>2. called[c] \in Nat /\ called[c] > 0
      BY <1>2, <2>2 DEF CallInv
    <3>3. called[c] \in 1..called[c]
      BY <3>2
    <3> QED
      BY <2>2, <3>1, <3>3
  <2> QED
    BY <2>1, <2>2
<1> QED
  BY <1>3, <1>4, <1>5, <1>6 DEF CallInv

(* A clerk is only told what is chosen: by a server that answered from its *)
(* session, or that finds the operation at the index it waits for.         *)
LEMMA ReturnChosen ==
    ASSUME LogTypes, ClerkTypes, ServerTypes, LogInv, ServerInv, NEW c \in Clerk,
           HandleAnswered(c) \/ HandleCommitted(c)
    PROVE  \E s \in Server : \E i \in 1..lastApplied[s] :
             /\ call[c] # Idle /\ Return(c, s) /\ lastApplied[s] <= Len(chosen)
             /\ Is(chosen[i], c, called[c])
<1>1. call[c] \in Call /\ call[c] # Idle
  BY CallFacts DEF ClerkTypes, HandleAnswered, HandleCommitted, Idle
<1>2. /\ call[c].server \in Server /\ call[c].op.ck = c /\ call[c].op.req = called[c]
      /\ (call[c].at = "waiting" => call[c].index \in Nat)
  BY <1>1, CallFacts DEF ClerkTypes
<1>3. PICK s \in Server : s = call[c].server
  BY <1>2
<1>4. lastApplied[s] \in Nat /\ lastApplied[s] <= Len(chosen) /\ Len(chosen) \in Nat
  BY LenProperties DEF ServerTypes, ServerInv, LogTypes
<1>5. CASE HandleAnswered(c)
  <2>1. ckSessions[s][c].valid /\ ckSessions[s][c].req = called[c] /\ Return(c, s)
    BY <1>2, <1>3, <1>5 DEF HandleAnswered, Answered
  <2>2. SessionsAt(ckSessions[s], lastApplied[s], chosen)
    BY DEF ServerInv
  <2>3. /\ ckSessions[s][c].index \in 1..lastApplied[s]
        /\ Is(chosen[ckSessions[s][c].index], c, ckSessions[s][c].req)
    BY <2>1, <2>2 DEF SessionsAt
  <2> QED
    BY <1>1, <1>4, <2>1, <2>3
<1>6. CASE HandleCommitted(c)
  <2>1. PICK i : i = call[c].index
    OBVIOUS
  <2>2. /\ call[c].at = "waiting" /\ Return(c, s)
        /\ i \in DOMAIN logRecord[s] /\ logRecord[s][i] = call[c].number
    BY <1>3, <1>6, <2>1 DEF HandleCommitted, Committed
  <2>3. i \in 1..lastApplied[s] /\ chosen[i].number = call[c].number
    <3>1. i \in 1..Len(chosen) /\ chosen[i].number = call[c].number
      BY <2>2 DEF ServerInv
    <3>2. i <= lastApplied[s]
      BY <1>3, <1>6, <2>1 DEF HandleCommitted, Committed
    <3> QED
      BY <1>4, <3>1, <3>2
  <2>4. i \in 1..Len(chosen)
    BY <1>4, <2>3
  <2>5. chosen[i].op = call[c].op
    BY <2>2, <2>3, <2>4 DEF LogInv, Sound
  <2> QED
    BY <1>1, <1>2, <1>4, <2>2, <2>3, <2>5 DEF Is
<1> QED
  BY <1>5, <1>6

(* Every step keeps the promise to the clerks. *)
LEMMA CallStep ==
    ASSUME LogTypes, ClerkTypes, ServerTypes, LogInv, CallInv, ServerInv, [Next]_vars,
           LogTypes', ClerkTypes'
    PROVE  CallInv'
<1> USE DEF clerkVars, bounds
<1>1. /\ chosen \in Seq(Entry) /\ Len(chosen) \in Nat /\ Begins(chosen, chosen)
      /\ number \in Nat /\ called \in [Clerk -> Nat] /\ since \in [Clerk -> Nat]
  BY BeginsSelf, LenProperties DEF LogTypes, ClerkTypes
<1>2. ASSUME UNCHANGED <<clerkVars, since, number>>, Begins(chosen, chosen') PROVE CallInv'
  <2>1. number <= number'
    BY <1>1, <1>2
  <2> QED
    BY <1>2, <2>1, CallsGoOn
<1>3. ASSUME NEW c \in Clerk, Invoke(c) PROVE CallInv'
  <2>1. PICK s \in Server :
             /\ called' = [called EXCEPT ![c] = called[c] + 1]
             /\ call' = [call EXCEPT ![c] = Sent(s, OpOf(c, called[c] + 1))]
             /\ OpOf(c, called[c] + 1) \in Ops
    BY <1>3, InvokeIs
  <2>2. /\ call[c] = Idle /\ chosen' = chosen /\ late' = late /\ number' = number
        /\ since' = [since EXCEPT ![c] = Len(chosen)]
    BY <1>3 DEF Invoke, raftVars
  <2>3. /\ call'[c] # Idle /\ call'[c].at = "sent" /\ called'[c] = called[c] + 1
        /\ since'[c] = Len(chosen)
        /\ \A d \in Clerk : d # c => /\ call'[d] = call[d] /\ called'[d] = called[d]
                                     /\ since'[d] = since[d]
    BY <1>1, <2>1, <2>2, SentFacts DEF ClerkTypes
  <2>4. \A d \in Clerk : Returned(d)' = Returned(d)
    BY <1>1, <2>2, <2>3 DEF Returned
  <2>5. \A i \in 1..Len(chosen) : ~Is(chosen[i], c, called[c] + 1)
    BY <1>1 DEF LogInv, Sound, Is
  <2>6. \A r \in late : r.op.req \in 1..called'[r.op.ck]
    <3> TAKE r \in late
    <3>1. r.op \in Ops /\ r.op.ck \in Clerk /\ r.op.req \in 1..called[r.op.ck]
      <4>1. r.op \in Ops
        BY DEF ClerkTypes, SentCall
      <4> QED
        BY <4>1, OpFacts DEF CallInv
    <3>2. PICK d \in Clerk : d = r.op.ck
      BY <3>1
    <3>3. called[d] \in Nat /\ (called'[d] = called[d] \/ called'[d] = called[d] + 1)
      BY <1>1, <2>3
    <3> QED
      BY <3>1, <3>2, <3>3
  <2>7. \A d \in Clerk : call'[d] # Idle =>
          /\ called'[d] > 0 /\ since'[d] <= Len(chosen)
          /\ \A i \in 1..since'[d] : ~Is(chosen[i], d, called'[d])
    <3> TAKE d \in Clerk
    <3>1. CASE d = c
      BY <1>1, <2>3, <2>5, <3>1
    <3>2. CASE d # c
      BY <2>3, <3>2 DEF CallInv
    <3> QED
      BY <3>1, <3>2
  <2>8. \A d \in Clerk : call'[d].at = "waiting" => call'[d].number \in 1..number
    BY <2>3 DEF CallInv
  <2> QED
    BY <2>2, <2>4, <2>6, <2>7, <2>8 DEF CallInv
<1>4. ASSUME NEW c \in Clerk, HandleAnswered(c) \/ HandleCommitted(c) PROVE CallInv'
  <2>1. PICK s \in Server : \E i \in 1..lastApplied[s] :
             /\ call[c] # Idle /\ Return(c, s) /\ lastApplied[s] <= Len(chosen)
             /\ Is(chosen[i], c, called[c])
    BY <1>4, ReturnChosen
  <2>2. PICK i \in 1..Len(chosen) : Is(chosen[i], c, called[c])
    <3>1. lastApplied[s] \in Nat
      BY DEF ServerTypes
    <3>2. PICK j \in 1..lastApplied[s] : Is(chosen[j], c, called[c]) /\ lastApplied[s] <= Len(chosen)
      BY <2>1
    <3>3. j \in 1..Len(chosen)
      BY <1>1, <3>1, <3>2
    <3> QED
      BY <3>2, <3>3
  <2>3. /\ call' = [call EXCEPT ![c] = Idle] /\ chosen' = chosen /\ late' = late
        /\ called' = called /\ since' = since /\ number' = number
    BY <1>4 DEF HandleAnswered, HandleCommitted, Return, raftVars
  <2>4. call'[c] = Idle /\ \A d \in Clerk : d # c => call'[d] = call[d]
    BY <2>3 DEF ClerkTypes
  <2>5. Returned(c)' = called[c] /\ Returned(c) = called[c] - 1
    BY <2>1, <2>3, <2>4 DEF Returned
  <2>6. \A d \in Clerk : d # c => Returned(d)' = Returned(d)
    BY <2>3, <2>4 DEF Returned
  <2>7. \A d \in Clerk : \A r \in 1..Returned(d)' : \E j \in 1..Len(chosen) : Is(chosen[j], d, r)
    <3> TAKE d \in Clerk
    <3>1. CASE d = c
      <4>1. \A r \in 1..called[c] : r \in 1..(called[c] - 1) \/ r = called[c]
        BY <1>1
      <4> QED
        BY <2>2, <2>5, <3>1, <4>1 DEF CallInv
    <3>2. CASE d # c
      BY <2>6, <3>2 DEF CallInv
    <3> QED
      BY <3>1, <3>2
  <2>8. \A d \in Clerk : call'[d].at = "waiting" => call'[d].number \in 1..number
    BY <2>4 DEF CallInv, Idle
  <2> QED
    BY <2>3, <2>4, <2>7, <2>8 DEF CallInv
<1>5. ASSUME NEW c \in Clerk, TryNext(c) \/ GiveUp(c) PROVE CallInv'
  <2>1. call[c] # Idle /\ UNCHANGED <<raftVars, called, since, number>>
    BY <1>5 DEF TryNext, GiveUp, Idle
  <2>2. PICK s \in Server : call' = [call EXCEPT ![c] = Sent(s, call[c].op)]
    BY <1>5 DEF TryNext, GiveUp
  <2>3. call'[c] = Sent(s, call[c].op) /\ \A d \in Clerk : d # c => call'[d] = call[d]
    BY <2>2 DEF ClerkTypes
  <2>4. call'[c] # Idle /\ call'[c].at # "waiting"
    BY <2>3 DEF Sent, Idle
  <2>5. \A r \in late' : r \in late \/ r.op = call[c].op
    BY <1>5 DEF TryNext, GiveUp
  <2>6. number <= number' /\ Begins(chosen, chosen')
    BY <1>1, <2>1 DEF raftVars
  <2> QED
    BY <2>1, <2>3, <2>4, <2>5, <2>6, CallsGoOn
<1>6. ASSUME NEW c \in Clerk, HandleStart(c) PROVE CallInv'
  <2>1. /\ call[c] # Idle /\ number' = number + 1 /\ UNCHANGED <<chosen, called, late, since>>
    BY <1>6 DEF HandleStart, Starts, LogStart, Idle
  <2>2. call'[c].at = "waiting" /\ call'[c].number = number + 1
    BY <1>6 DEF HandleStart, Starts, ClerkTypes
  <2>3. \A d \in Clerk : d # c => call'[d] = call[d]
    BY <1>6 DEF HandleStart, ClerkTypes
  <2>4. call'[c] # Idle
    BY <2>2 DEF Idle
  <2>5. number <= number' /\ number + 1 \in 1..number' /\ Begins(chosen, chosen')
    BY <1>1, <2>1
  <2> QED
    BY <2>1, <2>2, <2>3, <2>4, <2>5, CallsGoOn
<1>7. ASSUME NEW r \in late, HandleLate(r) PROVE CallInv'
  <2>1. /\ number' = number + 1 /\ UNCHANGED <<chosen, called, call, since>>
        /\ late' \subseteq late
    BY <1>7 DEF HandleLate, Starts, LogStart
  <2>2. number <= number' /\ Begins(chosen, chosen')
    BY <1>1, <2>1
  <2> QED
    BY <2>1, <2>2, CallsGoOn
<1>8. ASSUME NEW s \in Server, Restart(s) PROVE CallInv'
  <2>1. UNCHANGED <<chosen, called, since, number>> /\ late' \subseteq late
    BY <1>8 DEF Restart, LogRestart
  <2>2. \A c \in Clerk : call'[c] = call[c] \/ (call[c] # Idle /\ call'[c] = Sent(s, call[c].op))
    BY <1>8 DEF Restart
  <2>3. \A c \in Clerk : Sent(s, call[c].op) # Idle /\ Sent(s, call[c].op).at # "waiting"
    BY DEF Sent, Idle
  <2>4. number <= number' /\ Begins(chosen, chosen')
    BY <1>1, <2>1
  <2> QED
    BY <2>1, <2>2, <2>3, <2>4, CallsGoOn
<1> QED
  <2>1. ASSUME NEW l \in Server, Commit(l) PROVE CallInv'
    BY <1>2, <2>1, CommitIs DEF Commit
  <2>2. ASSUME NEW s \in Server, Elect(s) \/ Apply(s) \/ ApplySnapshot(s) PROVE CallInv'
    BY <1>1, <1>2, <2>2 DEF Elect, LogElect, Apply, ApplySnapshot, raftVars
  <2>3. ASSUME NEW l \in Server, NEW s \in Server, Replicate(l, s) \/ InstallSnapshot(l, s)
        PROVE  CallInv'
    BY <1>1, <1>2, <2>3 DEF Replicate, LogReplicate, InstallSnapshot, LogInstall
  <2>4. UNCHANGED vars => CallInv'
    BY <1>1, <1>2 DEF vars
  <2> QED
    BY <1>3, <1>4, <1>5, <1>6, <1>7, <1>8, <2>1, <2>2, <2>3, <2>4 DEF Next

-----------------------------------------------------------------------------
(* The first two theorems *)

Inv == LogTypes /\ ClerkTypes /\ ServerTypes /\ LogInv /\ CallInv /\ ServerInv

LEMMA InitInv == Init => Inv
<1> SUFFICES ASSUME Init PROVE LogInv /\ CallInv /\ ServerInv
  BY InitTypes DEF Inv
<1>1. /\ chosen = <<>> /\ leader = {} /\ \A s \in Server : rlog[s] = <<>>
      /\ \A c \in Clerk : call[c] = Idle /\ called[c] = 0
      /\ late = {}
      /\ \A s \in Server : /\ lastApplied[s] = 0 /\ snapshot[s] = NoSnapshot
                           /\ ckSessions[s] = NewSessions /\ logRecord[s] = NoRecord
  BY DEF Init, LogInit
<1>2. Sound(<<>>, <<>>, number, called, call)
  BY DEF Sound
<1>3. LogInv
  BY <1>1, <1>2 DEF LogInv
<1>4. CallInv
  <2>1. \A c \in Clerk : Returned(c) = 0 /\ call[c].at # "waiting"
    BY <1>1 DEF Returned, Idle
  <2> QED
    BY <1>1, <2>1 DEF CallInv
<1>5. ServerInv
  <2>1. DOMAIN NoRecord = {} /\ NoSnapshot.index = 0 /\ NoSnapshot.ckSessions = NewSessions
    BY DEF NoRecord, NoSnapshot
  <2>2. SessionsAt(NewSessions, 0, chosen) /\ Len(chosen) = 0
    BY <1>1, NoSessions
  <2> QED
    BY <1>1, <2>1, <2>2 DEF ServerInv
<1> QED
  BY <1>3, <1>4, <1>5

LEMMA InvStep == Inv /\ [Next]_vars => Inv'
<1> SUFFICES ASSUME Inv, [Next]_vars PROVE Inv'
  OBVIOUS
<1>1. LogTypes /\ ClerkTypes /\ ServerTypes /\ LogInv /\ CallInv /\ ServerInv
  BY DEF Inv
<1>2. \A s \in Server : snapshot[s].index <= Len(chosen)
  BY <1>1 DEF ServerInv
<1>3. LogTypes' /\ ClerkTypes' /\ ServerTypes'
  BY <1>1, <1>2, LogTypesStep, ClerkTypesStep, ServerTypesStep
<1>4. LogInv'
  BY <1>1, <1>2, <1>3, LogStep
<1>5. CallInv'
  BY <1>1, <1>3, CallStep
<1>6. ServerInv'
  BY <1>1, <1>3, ServerStep
<1> QED
  BY <1>3, <1>4, <1>5, <1>6 DEF Inv

LEMMA InvAlways == Spec => []Inv
BY InitInv, InvStep, PTL DEF Spec

LEMMA InvTypes == Inv => TypeOK
<1> SUFFICES ASSUME Inv PROVE TypeOK
  OBVIOUS
<1>1. LogTypes /\ ClerkTypes /\ ServerTypes /\ LogInv /\ ServerInv
  BY DEF Inv
<1>2. ASSUME NEW s \in Server
      PROVE  /\ lastApplied[s] \in 0..Len(chosen)
             /\ s \notin installing => snapshot[s].index <= lastApplied[s]
             /\ DOMAIN logRecord[s] \subseteq 1..Len(chosen)
             /\ \A i \in DOMAIN logRecord[s] : logRecord[s][i] = chosen[i].number
    <2>1. Len(chosen) \in Nat /\ lastApplied[s] \in Nat
      BY <1>1, LenProperties DEF LogTypes, ServerTypes
    <2> QED
      BY <1>1, <2>1 DEF ServerInv
<1>3. ASSUME NEW s \in Server, NEW c \in Clerk, ckSessions[s][c].valid
      PROVE  /\ ckSessions[s][c].index \in 1..lastApplied[s]
             /\ chosen[ckSessions[s][c].index].op.ck = c
             /\ chosen[ckSessions[s][c].index].op.req = ckSessions[s][c].req
  <2>1. SessionsAt(ckSessions[s], lastApplied[s], chosen)
    BY <1>1 DEF ServerInv
  <2> QED
    BY <1>3, <2>1 DEF SessionsAt, Is
<1>4. \A s \in leader : IsPrefix(chosen, rlog[s])
  BY <1>1, PrefixIs DEF LogInv, LogTypes
<1>5. \A c \in Clerk : call[c] = Idle \/ call[c].op.req = called[c]
  BY <1>1 DEF ClerkTypes
<1> QED
  BY <1>2, <1>3, <1>4, <1>5 DEF TypeOK

(* The log of the leader begins with what is chosen; what a server has     *)
(* applied, recorded and remembers of its clerks is chosen, where it says, *)
(* also after a snapshot has taken its service back.                       *)
THEOREM TypeCorrect == Spec => []TypeOK
BY InvAlways, InvTypes, PTL

LEMMA InvOrder == Inv => InProgramOrder
<1> SUFFICES ASSUME Inv PROVE InProgramOrder
  OBVIOUS
<1>1. LogTypes /\ LogInv /\ CallInv
  BY DEF Inv
<1>2. ASSUME NEW i \in 1..Len(chosen) PROVE Preceded(chosen, i)
  <2>1. Agrees(chosen, i, chosen)
    BY DEF Agrees
  <2> QED
    BY <1>1, <2>1 DEF LogInv, Sound
<1> QED
  BY <1>1, <1>2 DEF InProgramOrder, CallInv, Preceded

(* Whatever replies and requests are lost, delayed and repeated, whoever   *)
(* leads and whoever crashes: what a clerk was told is done is chosen, and *)
(* its operations are chosen in the order it called them.                  *)
THEOREM ProgramOrder == Spec => []InProgramOrder
BY InvAlways, InvOrder, PTL

-----------------------------------------------------------------------------
(* The store the chosen entries make *)

(* A non-empty set of naturals has a least element. *)
LEMMA LeastOf ==
    ASSUME NEW T \in SUBSET Nat, T # {}
    PROVE  \E x \in T : \A y \in T : x <= y
<1>1. PICK x \in T : \A y \in T : ~(<<y, x>> \in OpToRel(<, Nat))
  BY NatLessThanWellFounded, WFMin
<1>2. \A y \in T : ~(y < x)
  BY <1>1, Zenon DEF OpToRel
<1> QED
  BY <1>2

(* What entry n makes of the store before it. *)
Effect(log, n, st) == IF IsFirst(log, n) THEN After(st, log[n].op) ELSE st

(* A function that is the ideal store up to entry m. *)
IdealTo(g, log, m) ==
    g = [n \in 0..m |-> IF n = 0 THEN NewStore ELSE Effect(log, n, g[n - 1])]

LEMMA IdealToExists ==
    ASSUME NEW log, NEW m \in Nat
    PROVE  \E g : IdealTo(g, log, m)
<1>1. SUFFICES ASSUME ~\E g : IdealTo(g, log, m) PROVE FALSE
  OBVIOUS
<1>2. PICK T : T = {k \in Nat : ~\E g : IdealTo(g, log, k)}
  OBVIOUS
<1>3. T \in SUBSET Nat /\ T # {}
  BY <1>1, <1>2
<1>4. PICK x \in T : \A y \in T : x <= y
  BY <1>3, LeastOf
<1>5. x \in Nat /\ ~\E g : IdealTo(g, log, x)
  BY <1>2, <1>4
<1>6. x # 0
  <2>1. IdealTo([n \in 0..0 |-> NewStore], log, 0)
    BY DEF IdealTo
  <2> QED
    BY <1>5, <2>1
<1>7. PICK p \in Nat : x = p + 1
  <2>1. x - 1 \in Nat /\ x = (x - 1) + 1
    BY <1>5, <1>6
  <2> QED
    BY <2>1
<1>8. PICK g : IdealTo(g, log, p)
  <2>1. p \notin T
    BY <1>4, <1>7
  <2> QED
    BY <1>2, <2>1
<1>9. PICK h : h = [n \in 0..x |-> IF n = x THEN Effect(log, x, g[p]) ELSE g[n]]
  OBVIOUS
<1>10. \A n \in 0..p : h[n] = g[n]
  BY <1>7, <1>9
<1>11. ASSUME NEW n \in 0..x
       PROVE  h[n] = IF n = 0 THEN NewStore ELSE Effect(log, n, h[n - 1])
  <2>1. CASE n = x
    <3>1. n - 1 = p /\ h[p] = g[p] /\ h[n] = Effect(log, x, g[p])
      BY <1>7, <1>9, <1>10, <2>1
    <3> QED
      BY <1>6, <2>1, <3>1
  <2>2. CASE n # x
    <3>1. n \in 0..p /\ h[n] = g[n]
      BY <1>7, <1>10, <2>2
    <3>2. g[n] = IF n = 0 THEN NewStore ELSE Effect(log, n, g[n - 1])
      BY <1>8, <3>1 DEF IdealTo
    <3>3. n # 0 => h[n - 1] = g[n - 1]
      <4>1. n # 0 => n - 1 \in 0..p
        BY <3>1
      <4> QED
        BY <1>10, <4>1
    <3> QED
      BY <3>1, <3>2, <3>3
  <2> QED
    BY <2>1, <2>2
<1>12. IdealTo(h, log, x)
  <2>1. h = [n \in 0..x |-> h[n]]
    BY <1>9
  <2> QED
    BY <1>11, <2>1 DEF IdealTo
<1> QED
  BY <1>5, <1>12

(* The ideal store, entry by entry. *)
LEMMA IdealSteps ==
    ASSUME NEW log \in Seq(Entry)
    PROVE  /\ Ideal(log)[0] = NewStore
           /\ \A n \in 1..Len(log) : Ideal(log)[n] = Effect(log, n, Ideal(log)[n - 1])
<1>1. PICK m \in Nat : m = Len(log)
  BY LenProperties
<1>2. \E g : IdealTo(g, log, m)
  BY IdealToExists
<1>3. IdealTo(Ideal(log), log, m)
  <2>1. Ideal(log) = CHOOSE g : IdealTo(g, log, m)
    BY <1>1 DEF Ideal, IdealTo, Effect
  <2> QED
    BY <1>2, <2>1
<1>4. \A n \in 0..m :
        Ideal(log)[n] = IF n = 0 THEN NewStore ELSE Effect(log, n, Ideal(log)[n - 1])
  BY <1>3 DEF IdealTo
<1> QED
  BY <1>1, <1>4

(* What more entries do not change. *)
LEMMA IdealKept ==
    ASSUME NEW a \in Seq(Entry), NEW b \in Seq(Entry), Begins(a, b), NEW m \in 0..Len(a)
    PROVE  Ideal(b)[m] = Ideal(a)[m]
<1>1. Len(a) \in Nat /\ Len(b) \in Nat /\ Len(a) <= Len(b)
  BY LenProperties DEF Begins
<1>2. SUFFICES ASSUME Ideal(b)[m] # Ideal(a)[m] PROVE FALSE
  OBVIOUS
<1>3. PICK T : T = {k \in 0..Len(a) : Ideal(b)[k] # Ideal(a)[k]}
  OBVIOUS
<1>4. T \in SUBSET Nat /\ T # {}
  BY <1>2, <1>3
<1>5. PICK x \in T : \A y \in T : x <= y
  BY <1>4, LeastOf
<1>6. x \in 0..Len(a) /\ Ideal(b)[x] # Ideal(a)[x]
  BY <1>3, <1>5
<1>7. x # 0
  BY <1>6, IdealSteps
<1>8. PICK p : p = x - 1
  OBVIOUS
<1>9. p \in 0..Len(a) /\ x \in 1..Len(a) /\ x \in 1..Len(b) /\ p < x
  BY <1>1, <1>6, <1>7, <1>8
<1>10. Ideal(b)[p] = Ideal(a)[p]
  <2>1. p \notin T
    BY <1>5, <1>6, <1>9
  <2> QED
    BY <1>3, <1>9, <2>1
<1>11. \A j \in 1..x : a[j] = b[j]
  BY <1>1, <1>9 DEF Begins
<1>12. IsFirst(a, x) <=> IsFirst(b, x)
  <2>1. a[x] = b[x] /\ \A j \in 1..(x - 1) : a[j] = b[j]
    BY <1>9, <1>11
  <2> QED
    BY <2>1 DEF IsFirst
<1>13. a[x] = b[x]
  BY <1>9, <1>11
<1>14. Effect(a, x, Ideal(a)[p]) = Effect(b, x, Ideal(b)[p])
  BY <1>10, <1>12, <1>13 DEF Effect
<1> QED
  BY <1>6, <1>8, <1>9, <1>14, IdealSteps

-----------------------------------------------------------------------------
(* Exactly once, where no request outlives its Call *)

(* The test of handleApplyMsg finds what was applied before, and only      *)
(* that: a clerk's operations are in order in what is chosen, so the last  *)
(* one of the session is the greatest.                                     *)
LEMMA StaleIsRepeated ==
    ASSUME MaxLate = 0, NEW ch \in Seq(Entry), NEW num, NEW cd, NEW cl,
           Sound(ch, ch, num, cd, cl),
           NEW ss, NEW n \in Nat, SessionsAt(ss, n, ch), NEW i \in 1..Len(ch), i = n + 1
    PROVE  Stale(ss[ch[i].op.ck], ch[i], i) <=> ~IsFirst(ch, i)
<1>1. Len(ch) \in Nat /\ \A j \in 1..Len(ch) : ch[j].op.req \in Nat /\ ch[j].op.ck \in Clerk
  BY LenProperties, ElementOfSeq, EntryFacts
<1>2. PICK c \in Clerk : c = ch[i].op.ck
  BY <1>1
<1>3. \A k \in 1..Len(ch) : \A j \in 1..k :
          ch[j].op.ck = ch[k].op.ck => ch[j].op.req <= ch[k].op.req
  BY DEF Sound
<1>4. /\ ss[c].valid =>
           /\ ss[c].index \in 1..n /\ Is(ch[ss[c].index], c, ss[c].req)
           /\ \A j \in 1..n : j > ss[c].index => ch[j].op.ck # c
      /\ ~ss[c].valid => \A j \in 1..n : ch[j].op.ck # c
  BY DEF SessionsAt
<1>5. 1..(i - 1) = 1..n /\ 1..n \subseteq 1..i /\ 1..n \subseteq 1..Len(ch)
  BY <1>1
<1>6. ASSUME Stale(ss[c], ch[i], i) PROVE ~IsFirst(ch, i)
  <2>1. ss[c].valid /\ ch[i].op.req <= ss[c].req
    BY <1>6 DEF Stale
  <2>2. PICK k \in 1..n : k = ss[c].index /\ Is(ch[k], c, ss[c].req)
    BY <1>4, <2>1
  <2>3. ch[k].op.ck = c /\ ch[k].op.req = ss[c].req /\ k \in 1..i /\ k \in 1..Len(ch)
    BY <1>5, <2>2 DEF Is
  <2>4. ch[k].op.req <= ch[i].op.req
    BY <1>2, <1>3, <2>3
  <2>5. ch[k].op.req = ch[i].op.req
    BY <1>1, <2>1, <2>3, <2>4
  <2> QED
    BY <1>2, <1>5, <2>3, <2>5 DEF IsFirst, Is
<1>7. ASSUME ~IsFirst(ch, i) PROVE Stale(ss[c], ch[i], i)
  <2>1. PICK j \in 1..n : ch[j].op.ck = c /\ ch[j].op.req = ch[i].op.req
    BY <1>2, <1>5, <1>7 DEF IsFirst, Is
  <2>2. ss[c].valid
    BY <1>4, <2>1
  <2>3. PICK k \in 1..n : k = ss[c].index /\ Is(ch[k], c, ss[c].req)
    BY <1>4, <2>2
  <2>4. ~(j > k)
    BY <1>4, <2>1, <2>2, <2>3
  <2>5. j \in 1..k /\ k \in 1..Len(ch) /\ k < i
    BY <1>1, <2>4
  <2>6. ch[j].op.req <= ch[k].op.req
    BY <1>3, <2>1, <2>3, <2>5 DEF Is
  <2> QED
    BY <2>1, <2>2, <2>3, <2>5, <2>6 DEF Stale, Is
<1> QED
  BY <1>2, <1>6, <1>7

(* The stores, live and in snapshots, are those of what is chosen. *)
LEMMA StoreStep ==
    ASSUME MaxLate = 0, Inv, ExactlyOnce, [Next]_vars
    PROVE  ExactlyOnce'
<1> USE DEF kvVars
<1>1. LogTypes /\ ServerTypes /\ LogInv /\ ServerInv
  BY DEF Inv
<1>2. chosen \in Seq(Entry) /\ Len(chosen) \in Nat
  BY <1>1, LenProperties DEF LogTypes
<1>3. \A s \in Server : /\ lastApplied[s] \in 0..Len(chosen) /\ snapshot[s].index \in 0..Len(chosen)
                        /\ mp[s] = Ideal(chosen)[lastApplied[s]]
                        /\ snapshot[s].mp = Ideal(chosen)[snapshot[s].index]
  BY <1>1, <1>2 DEF ServerTypes, ServerInv, ExactlyOnce
<1>4. ASSUME NEW l \in Server, Commit(l) PROVE ExactlyOnce'
  <2>1. Begins(chosen, chosen') /\ chosen' \in Seq(Entry)
    BY <1>1, <1>4, CommitIs
  <2>2. \A m \in 0..Len(chosen) : Ideal(chosen')[m] = Ideal(chosen)[m]
    BY <1>2, <2>1, IdealKept
  <2>3. UNCHANGED kvVars
    BY <1>4 DEF Commit
  <2>4. \A s \in Server : /\ mp[s] = Ideal(chosen')[lastApplied[s]]
                          /\ snapshot[s].mp = Ideal(chosen')[snapshot[s].index]
    BY <1>3, <2>2
  <2> QED
    BY <2>3, <2>4 DEF ExactlyOnce
<1>5. ASSUME NEW s \in Server, Apply(s) PROVE ExactlyOnce'
  <2>1. PICK i \in Nat, e \in Entry : Applied(s, i, e)
    BY <1>1, <1>5, ApplyIs
  <2>2. /\ i = lastApplied[s] + 1 /\ i \in 1..Len(chosen) /\ e = chosen[i]
        /\ lastApplied' = [lastApplied EXCEPT ![s] = i] /\ chosen' = chosen
    BY <2>1 DEF Applied, AppliedAt, raftVars
  <2>3. lastApplied'[s] = i /\ \A t \in Server : t # s => lastApplied'[t] = lastApplied[t]
    BY <1>1, <2>2 DEF ServerTypes
  <2>4. PICK n \in Nat : n = lastApplied[s]
    BY <1>1 DEF ServerTypes
  <2>5. mp[s] = Ideal(chosen)[n] /\ i - 1 = n
    BY <1>3, <2>2, <2>4
  <2>6. Stale(ckSessions[s][e.op.ck], e, i) <=> ~IsFirst(chosen, i)
    <3>1. SessionsAt(ckSessions[s], n, chosen) /\ Sound(chosen, chosen, number, called, call)
      BY <1>1, <2>4 DEF ServerInv, LogInv
    <3> QED
      BY <1>2, <2>2, <2>4, <3>1, StaleIsRepeated
  <2>7. mp'[s] = Effect(chosen, i, mp[s])
    BY <2>1, <2>2, <2>6 DEF Applied, AppliedStore, Effect
  <2>8. mp'[s] = Ideal(chosen)[i]
    BY <1>2, <2>2, <2>5, <2>7, IdealSteps
  <2>9. \A t \in Server : t # s => mp'[t] = mp[t] /\ snapshot'[t] = snapshot[t]
    BY <2>1 DEF Applied, AppliedStore, AppliedSnapshot
  <2>10. snapshot'[s].mp = Ideal(chosen)[snapshot'[s].index]
    <3>1. CASE snapshot'[s] = snapshot[s]
      BY <1>3, <3>1
    <3>2. CASE snapshot'[s] = [index |-> i, mp |-> mp'[s], ckSessions |-> ckSessions'[s]]
      <4>1. snapshot'[s].index = i /\ snapshot'[s].mp = mp'[s]
        BY <3>2
      <4> QED
        BY <2>8, <4>1
    <3> QED
      BY <2>1, <3>1, <3>2 DEF Applied, AppliedSnapshot
  <2>11. \A t \in Server : /\ mp'[t] = Ideal(chosen)[lastApplied'[t]]
                           /\ snapshot'[t].mp = Ideal(chosen)[snapshot'[t].index]
    BY <1>3, <2>3, <2>8, <2>9, <2>10
  <2> QED
    BY <2>2, <2>11 DEF ExactlyOnce
<1>6. ASSUME NEW s \in Server, ApplySnapshot(s) PROVE ExactlyOnce'
  <2>1. /\ mp' = [mp EXCEPT ![s] = snapshot[s].mp]
        /\ lastApplied' = [lastApplied EXCEPT ![s] = snapshot[s].index]
        /\ chosen' = chosen /\ snapshot' = snapshot
    BY <1>6 DEF ApplySnapshot, raftVars
  <2>2. \A t \in Server : \/ mp'[t] = mp[t] /\ lastApplied'[t] = lastApplied[t]
                          \/ mp'[t] = snapshot[t].mp /\ lastApplied'[t] = snapshot[t].index
    BY <1>1, <2>1 DEF ServerTypes
  <2>3. \A t \in Server : mp'[t] = Ideal(chosen)[lastApplied'[t]]
    BY <1>3, <2>2
  <2> QED
    BY <1>3, <2>1, <2>3 DEF ExactlyOnce
<1>7. ASSUME NEW s \in Server, Restart(s) PROVE ExactlyOnce'
  <2>1. /\ mp' = [mp EXCEPT ![s] = NewStore]
        /\ lastApplied' = [lastApplied EXCEPT ![s] = 0]
        /\ chosen' = chosen /\ snapshot' = snapshot
    BY <1>7 DEF Restart, LogRestart
  <2>2. Ideal(chosen)[0] = NewStore
    BY <1>2, IdealSteps
  <2>3. \A t \in Server : \/ mp'[t] = mp[t] /\ lastApplied'[t] = lastApplied[t]
                          \/ mp'[t] = NewStore /\ lastApplied'[t] = 0
    BY <1>1, <2>1 DEF ServerTypes
  <2>4. \A t \in Server : mp'[t] = Ideal(chosen)[lastApplied'[t]]
    BY <1>3, <2>2, <2>3
  <2> QED
    BY <1>3, <2>1, <2>4 DEF ExactlyOnce
<1>8. ASSUME NEW l \in Server, NEW s \in Server, InstallSnapshot(l, s) PROVE ExactlyOnce'
  <2>1. /\ snapshot' = [snapshot EXCEPT ![s] = snapshot[l]]
        /\ chosen' = chosen /\ mp' = mp /\ lastApplied' = lastApplied
    BY <1>8 DEF InstallSnapshot, LogInstall
  <2>2. \A t \in Server : snapshot'[t] = snapshot[t] \/ snapshot'[t] = snapshot[l]
    BY <1>1, <2>1 DEF ServerTypes
  <2>3. \A t \in Server : snapshot'[t].mp = Ideal(chosen)[snapshot'[t].index]
    BY <1>3, <2>2
  <2> QED
    BY <1>3, <2>1, <2>3 DEF ExactlyOnce
<1>9. ASSUME UNCHANGED kvVars, chosen' = chosen PROVE ExactlyOnce'
  BY <1>9 DEF ExactlyOnce
<1> QED
  <2>1. ASSUME NEW s \in Server, Elect(s) PROVE ExactlyOnce'
    BY <1>9, <2>1 DEF Elect, LogElect
  <2>2. ASSUME NEW l \in Server, NEW s \in Server, Replicate(l, s) PROVE ExactlyOnce'
    BY <1>9, <2>2 DEF Replicate, LogReplicate
  <2>3. ASSUME NEW c \in Clerk, Invoke(c) \/ TryNext(c) \/ GiveUp(c)
                                \/ HandleAnswered(c) \/ HandleCommitted(c)
        PROVE  ExactlyOnce'
    BY <1>9, <2>3 DEF Invoke, TryNext, GiveUp, HandleAnswered, HandleCommitted, raftVars
  <2>4. ASSUME NEW c \in Clerk, HandleStart(c) PROVE ExactlyOnce'
    BY <1>9, <2>4 DEF HandleStart, Starts, LogStart
  <2>5. ASSUME NEW r \in late, HandleLate(r) PROVE ExactlyOnce'
    BY <1>9, <2>5 DEF HandleLate, Starts, LogStart
  <2>6. UNCHANGED vars => ExactlyOnce'
    BY <1>9 DEF vars
  <2> QED
    BY <1>4, <1>5, <1>6, <1>7, <1>8, <2>1, <2>2, <2>3, <2>4, <2>5, <2>6 DEF Next

LEMMA InitStore == Init => ExactlyOnce
<1> SUFFICES ASSUME Init PROVE ExactlyOnce
  OBVIOUS
<1>1. chosen \in Seq(Entry)
  BY DEF Init, LogInit
<1>2. Ideal(chosen)[0] = NewStore
  BY <1>1, IdealSteps
<1>3. \A s \in Server : /\ mp[s] = NewStore /\ lastApplied[s] = 0
                        /\ snapshot[s].mp = NewStore /\ snapshot[s].index = 0
  BY DEF Init, NoSnapshot
<1> QED
  BY <1>2, <1>3 DEF ExactlyOnce

(* Where no request is handled after its Call has failed, every operation  *)
(* takes effect once in every store and in every snapshot, however often   *)
(* it was sent, started and committed, and whoever crashed.  (With such a  *)
(* request it does not: the run kvraft_regress.)                           *)
THEOREM EffectsOnce == MaxLate = 0 => (Spec => []ExactlyOnce)
<1> SUFFICES ASSUME MaxLate = 0 PROVE Spec => []ExactlyOnce
  OBVIOUS
<1>1. Inv /\ ExactlyOnce /\ [Next]_vars => ExactlyOnce'
  BY StoreStep
<1> QED
  BY <1>1, InitStore, InvAlways, PTL DEF Spec

-----------------------------------------------------------------------------
(* Reads *)

(* A read is of the store after n entries: all that was chosen at the call *)
(* are among them, and all of them were chosen at the return.              *)
ReadInv ==
    \A c \in Clerk :
        /\ got[c].from \in Nat /\ got[c].to \in Nat /\ got[c].to <= Len(chosen)
        /\ got[c].key \in Key =>
             \E n \in got[c].from..got[c].to : got[c].value = Ideal(chosen)[n][got[c].key]

LEMMA InitReads == Init => ReadInv
<1> SUFFICES ASSUME Init PROVE ReadInv
  OBVIOUS
<1>1. chosen \in Seq(Entry) /\ Len(chosen) = 0
  BY DEF Init, LogInit
<1>2. Ideal(chosen)[0] = NewStore
  BY <1>1, IdealSteps
<1>3. \A c \in Clerk : /\ got[c].from = 0 /\ got[c].to = 0 /\ got[c].value = Empty
  BY DEF Init
<1>4. \A k \in Key : NewStore[k] = Empty
  BY DEF NewStore
<1> QED
  BY <1>1, <1>2, <1>3, <1>4 DEF ReadInv

LEMMA ReadStep ==
    ASSUME Inv, ExactlyOnce, ReadInv, [Next]_vars
    PROVE  ReadInv'
<1>1. LogTypes /\ ClerkTypes /\ ServerTypes /\ LogInv /\ ServerInv /\ CallInv
  BY DEF Inv
<1>2. chosen \in Seq(Entry) /\ Len(chosen) \in Nat
  BY <1>1, LenProperties DEF LogTypes
<1>3. ASSUME NEW l \in Server, Commit(l) PROVE ReadInv'
  <2>1. Begins(chosen, chosen') /\ chosen' \in Seq(Entry) /\ Len(chosen') = Len(chosen) + 1
    BY <1>1, <1>3, CommitIs
  <2>2. \A m \in 0..Len(chosen) : Ideal(chosen')[m] = Ideal(chosen)[m]
    BY <1>2, <2>1, IdealKept
  <2>3. got' = got
    BY <1>3 DEF Commit
  <2>4. ASSUME NEW c \in Clerk
        PROVE  /\ got[c].from \in Nat /\ got[c].to \in Nat /\ got[c].to <= Len(chosen')
               /\ got[c].key \in Key =>
                    \E n \in got[c].from..got[c].to :
                        got[c].value = Ideal(chosen')[n][got[c].key]
    <3>1. got[c].from \in Nat /\ got[c].to \in Nat /\ got[c].to <= Len(chosen)
      BY DEF ReadInv
    <3>2. got[c].to <= Len(chosen')
      BY <1>2, <2>1, <3>1
    <3>3. ASSUME got[c].key \in Key
          PROVE  \E n \in got[c].from..got[c].to : got[c].value = Ideal(chosen')[n][got[c].key]
      <4>1. PICK n \in got[c].from..got[c].to : got[c].value = Ideal(chosen)[n][got[c].key]
        BY <3>3 DEF ReadInv
      <4>2. n \in 0..Len(chosen)
        BY <1>2, <3>1
      <4> QED
        BY <2>2, <4>1, <4>2
    <3> QED
      BY <3>1, <3>2, <3>3
  <2> QED
    BY <2>3, <2>4 DEF ReadInv
<1>4. ASSUME NEW c \in Clerk, HandleAnswered(c) \/ HandleCommitted(c) PROVE ReadInv'
  <2>1. PICK s \in Server : \E i \in 1..lastApplied[s] :
             /\ call[c] # Idle /\ Return(c, s) /\ lastApplied[s] <= Len(chosen)
             /\ Is(chosen[i], c, called[c])
    BY <1>1, <1>4, ReturnChosen
  <2>2. PICK i \in 1..lastApplied[s] : Is(chosen[i], c, called[c])
    BY <2>1
  <2>3. PICK n \in Nat : n = lastApplied[s]
    BY <1>1 DEF ServerTypes
  <2>4. since[c] \in Nat /\ since[c] <= n /\ n <= Len(chosen)
    <3>1. since[c] \in Nat /\ \A j \in 1..since[c] : ~Is(chosen[j], c, called[c])
      BY <1>1, <2>1 DEF ClerkTypes, CallInv
    <3>2. i \notin 1..since[c]
      BY <2>2, <3>1
    <3> QED
      BY <2>1, <2>3, <3>1, <3>2
  <2>5. chosen' = chosen /\ mp[s] = Ideal(chosen)[n]
    BY <1>4, <2>3 DEF HandleAnswered, HandleCommitted, raftVars, ExactlyOnce
  <2>6. CASE got' = got
    BY <2>5, <2>6 DEF ReadInv
  <2>7. CASE got' = [got EXCEPT ![c] = [key |-> Current(c).key,
                                        value |-> mp[s][Current(c).key],
                                        from |-> since[c], to |-> Len(chosen)]]
    <3>1. PICK k : k = Current(c).key
      OBVIOUS
    <3>2. PICK g : g = [key |-> k, value |-> mp[s][k], from |-> since[c], to |-> Len(chosen)]
      OBVIOUS
    <3>3. g.key = k /\ g.value = mp[s][k] /\ g.from = since[c] /\ g.to = Len(chosen)
      BY <3>2
    <3>4. got'[c] = g /\ \A d \in Clerk : d # c => got'[d] = got[d]
      BY <1>1, <2>7, <3>1, <3>2 DEF ServerTypes
    <3>5. n \in g.from..g.to /\ g.value = Ideal(chosen)[n][g.key]
      BY <1>2, <2>4, <2>5, <3>3
    <3>6. g.from \in Nat /\ g.to \in Nat /\ g.to <= Len(chosen)
      BY <1>2, <2>4, <3>3
    <3> SUFFICES ASSUME NEW d \in Clerk
        PROVE  /\ got'[d].from \in Nat /\ got'[d].to \in Nat /\ got'[d].to <= Len(chosen)
               /\ got'[d].key \in Key =>
                    \E m \in got'[d].from..got'[d].to :
                        got'[d].value = Ideal(chosen)[m][got'[d].key]
      BY <2>5 DEF ReadInv
    <3>7. CASE d = c
      BY <3>4, <3>5, <3>6, <3>7
    <3>8. CASE d # c
      BY <3>4, <3>8 DEF ReadInv
    <3> QED
      BY <3>7, <3>8
  <2> QED
    BY <2>1, <2>6, <2>7 DEF Return
<1>5. ASSUME got' = got, chosen' = chosen PROVE ReadInv'
  BY <1>5 DEF ReadInv
<1> QED
  <2>1. ASSUME NEW s \in Server, Elect(s) \/ Apply(s) \/ ApplySnapshot(s) \/ Restart(s)
        PROVE  ReadInv'
    BY <1>5, <2>1 DEF Elect, LogElect, Apply, ApplySnapshot, Restart, LogRestart, raftVars
  <2>2. ASSUME NEW l \in Server, NEW s \in Server, Replicate(l, s) \/ InstallSnapshot(l, s)
        PROVE  ReadInv'
    BY <1>5, <2>2 DEF Replicate, LogReplicate, InstallSnapshot, LogInstall
  <2>3. ASSUME NEW c \in Clerk, Invoke(c) \/ TryNext(c) \/ GiveUp(c) PROVE ReadInv'
    BY <1>5, <2>3 DEF Invoke, TryNext, GiveUp, raftVars
  <2>4. ASSUME NEW c \in Clerk, HandleStart(c) PROVE ReadInv'
    BY <1>5, <2>4 DEF HandleStart, Starts, LogStart
  <2>5. ASSUME NEW r \in late, HandleLate(r) PROVE ReadInv'
    BY <1>5, <2>5 DEF HandleLate, Starts, LogStart
  <2>6. UNCHANGED vars => ReadInv'
    BY <1>5 DEF vars
  <2> QED
    BY <1>3, <1>4, <2>1, <2>2, <2>3, <2>4, <2>5, <2>6 DEF Next

(* Under the same condition every read returns what its key held at a      *)
(* moment of the call, whatever server answered it and however often it    *)
(* was tried.                                                              *)
THEOREM ReadsAreFresh == MaxLate = 0 => (Spec => []ReadsFresh)
<1> SUFFICES ASSUME MaxLate = 0 PROVE Spec => []ReadsFresh
  OBVIOUS
<1>1. Inv /\ ExactlyOnce /\ ReadInv /\ [Next]_vars => ReadInv'
  BY ReadStep
<1>2. ReadInv => ReadsFresh
  BY DEF ReadInv, ReadsFresh
<1>3. Spec => []ExactlyOnce
  BY EffectsOnce
<1> QED
  BY <1>1, <1>2, <1>3, InitReads, InvAlways, PTL DEF Spec

=============================================================================
