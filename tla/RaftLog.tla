------------------------------ MODULE RaftLog ------------------------------
(***************************************************************************)
(* The log of one Raft peer and what raft.go computes from logs alone.     *)
(*                                                                         *)
(* rf.log is a Go slice that always holds at least one entry: position 0   *)
(* is a filler (or the last entry covered by the snapshot) and carries the *)
(* global index at which the slice starts.  Go position i is position      *)
(* i + 1 of the TLA+ sequence; the "local" indices below keep Go's base 0. *)
(*                                                                         *)
(* An entry's Type is folded into its command: a command equal to Noop     *)
(* stands for LT_Noop.  (Snapshot() leaves the old Command in an entry it  *)
(* turns into a no-op; nothing reads the Command of a no-op.)              *)
(***************************************************************************)
EXTENDS Integers, Sequences, FiniteSets

CONSTANTS
    Commands,   \* what the service passes to Start()
    Noop        \* the command of an LT_Noop entry

ASSUME CommandsAssumption == Noop \notin Commands

Entry == [term : Nat, index : Nat, cmd : Commands \cup {Noop}]

(* Non-empty logs.                                                         *)
Log == {l \in Seq(Entry) : Len(l) > 0}

(* The Index fields of entries es count up from first; the Index field of  *)
(* every entry of a log is its global index.                               *)
Consecutive(es, first) == \A i \in 1..Len(es) : es[i].index = first + i - 1
Indexed(l) == Consecutive(l, l[1].index)

NoopEntry(i, t) == [term |-> t, index |-> i, cmd |-> Noop]

(***************************************************************************)
(* Index arithmetic: local <-> global <-> external.  External indices,     *)
(* the only ones the service sees, skip no-ops and start after the         *)
(* snapshot, which covers external indices up to snap.                     *)
(***************************************************************************)
LocalIndex(l, g) == g - l[1].index
GlobalIndex(l, i) == i + l[1].index
GlobalLogLen(l) == Len(l) + l[1].index
LastIndex(l) == GlobalLogLen(l) - 1
LastTerm(l) == l[Len(l)].term

(* rf.log[rf.localIndex(g)], rf.log[rf.localIndex(g):] and                 *)
(* rf.log[:rf.localIndex(g)]                                               *)
At(l, g) == l[LocalIndex(l, g) + 1]
From(l, g) == SubSeq(l, LocalIndex(l, g) + 1, Len(l))
Before(l, g) == SubSeq(l, 1, LocalIndex(l, g))

InLog(l, g) == LocalIndex(l, g) >= 0 /\ g < GlobalLogLen(l)

(* The number of commands at local positions first..last.                  *)
CommandCount(l, first, last) ==
    Cardinality({i \in first..last : l[i + 1].cmd # Noop})

SinceSnapshot(l, snap, g) ==   \* mutant of ExternalIndex
    CommandCount(l, 1, LocalIndex(l, g))

ExternalIndex(l, snap, g) == snap + CommandCount(l, 1, LocalIndex(l, g))

(* The first position by which e - snap commands have gone by; the last    *)
(* position when there is none.                                            *)
InternalIndex(l, snap, e) ==
    LET hits == {i \in 0..(Len(l) - 1) : CommandCount(l, 0, i) = e - snap}
    IN  IF hits = {} THEN GlobalIndex(l, Len(l) - 1)
        ELSE GlobalIndex(l, CHOOSE i \in hits : \A j \in hits : i <= j)

(***************************************************************************)
(* Voting: is a candidate whose log ends like this at least as up to date  *)
(* as log l?  (LastLogIndex is the length of the log on both sides.)       *)
(***************************************************************************)
IsUpToDate(l, lastLogIndex, lastLogTerm) ==
    \/ lastLogTerm > LastTerm(l)
    \/ lastLogTerm = LastTerm(l) /\ lastLogIndex >= GlobalLogLen(l)

(***************************************************************************)
(* The log part of an AppendEntries request, built by a leader with log l  *)
(* for a follower whose nextIndex is next, clamped to what l still holds.  *)
(***************************************************************************)
RealNextIndex(l, next) ==
    IF next < GlobalIndex(l, 1) THEN GlobalIndex(l, 1)
    ELSE IF next > GlobalLogLen(l) THEN GlobalLogLen(l)
    ELSE next

AppendArgs(l, next) ==
    LET real == RealNextIndex(l, next)
    IN  [prev |-> real - 1, prevTerm |-> At(l, real - 1).term, entries |-> From(l, real)]

(* The leader's log length when it built the request (newNextIndex).       *)
NewNextIndex(a) == a.prev + Len(a.entries) + 1

(***************************************************************************)
(* The follower's side: what it does with the request a when its log is l  *)
(* and its last applied index is la.                                       *)
(***************************************************************************)
AnyTerm(l, a) == LastIndex(l) = a.prev   \* mutant of GoodCase

GoodCase(l, a) == LastIndex(l) = a.prev /\ LastTerm(l) = a.prevTerm

FixPackage(l, la, a) == ~GoodCase(l, a) /\ LastIndex(l) > a.prev /\ a.prev = la

(* The entries of a fix package that the follower holds already.           *)
PrefixEntries(l, la, a) ==
    \/ LocalIndex(l, la + 1) < 0
    \/ \A i \in 1..Len(a.entries) :
           la + i < GlobalLogLen(l) /\ At(l, la + i).term = a.entries[i].term

BadCase(l, la, a) == ~GoodCase(l, a) /\ ~FixPackage(l, la, a)

(* The follower's log afterwards.                                          *)
Appended(l, la, a) ==
    IF GoodCase(l, a) THEN l \o a.entries
    ELSE IF FixPackage(l, la, a) /\ ~PrefixEntries(l, la, a)
         THEN Before(l, la + 1) \o a.entries
    ELSE l

(***************************************************************************)
(* handleFailedReply: a leader with log l learns that a follower whose log *)
(* ends at r.lastIndex in r.lastTerm, with r.lastApplied applied, refused  *)
(* the request a.                                                          *)
(***************************************************************************)
Case12(l, a, r) ==
    /\ LocalIndex(l, r.lastIndex + 1) > 0
    /\ \/ r.lastTerm = a.prevTerm /\ r.lastIndex < a.prev
       \/ /\ r.lastIndex # a.prev
          /\ r.lastIndex < GlobalLogLen(l)
          /\ r.lastTerm = At(l, r.lastIndex).term

Case34(l, a, r) ==
    /\ ~Case12(l, a, r)
    /\ LocalIndex(l, r.lastApplied + 1) >= 0
    /\ LocalIndex(l, r.lastIndex) >= 0
    /\ \/ r.lastIndex >= a.prev
       \/ r.lastIndex >= GlobalLogLen(l)
       \/ /\ r.lastIndex < a.prev
          /\ r.lastIndex < GlobalLogLen(l)
          /\ r.lastTerm # At(l, r.lastIndex).term

Case5(l, a, r) ==
    /\ ~Case12(l, a, r)
    /\ ~Case34(l, a, r)
    /\ \/ LocalIndex(l, r.lastIndex + 1) < 0
       \/ LocalIndex(l, r.lastApplied + 1) < 0
       \/ LocalIndex(l, r.lastIndex) < 0

(***************************************************************************)
(* Snapshots: cut the log so that it starts at global index g, and the log *)
(* a follower is left with after installing a snapshot that ends at entry  *)
(* g of term t.                                                            *)
(***************************************************************************)
FreshFiller(l, g) == [From(l, g) EXCEPT ![1] = NoopEntry(0, @.term)]   \* mutant of CutAt

CutAt(l, g) == [From(l, g) EXCEPT ![1].cmd = Noop]

NoFiller(l, g, t) ==   \* mutant of Installed
    IF InLog(l, g) /\ At(l, g).term = t THEN From(l, g) ELSE <<>>

Installed(l, g, t) ==
    IF InLog(l, g) /\ At(l, g).term = t
    THEN [From(l, g) EXCEPT ![1] = NoopEntry(g, t)]
    ELSE <<NoopEntry(g, t)>>

=============================================================================
