---------------------------- MODULE ReplicatedLog ---------------------------
(***************************************************************************)
(* What a service may rely on when it runs on Raft: an abstract            *)
(* specification of module Raft, in the indices the service sees (the      *)
(* no-op entries do not count).                                            *)
(*                                                                         *)
(* Every peer has a log.  Some are leaders in their own eyes; one of them, *)
(* at most, is the leader of the latest term and has everything that is    *)
(* chosen.  What a deposed leader took in may be lost, or may be chosen    *)
(* later, when it leads again.                                             *)
(***************************************************************************)
EXTENDS Integers, SequencesExt

CONSTANT Server

VARIABLES
    rlog,      \* peer -> the entries of its log
    chosen,    \* the committed entries
    leader,    \* the leader of the latest term, if it has one
    believes   \* who takes itself for a leader

raftVars == <<rlog, chosen, leader, believes>>

LogInit ==
    /\ rlog = [s \in Server |-> <<>>] /\ chosen = <<>>
    /\ leader = {} /\ believes = {}

(* A peer with everything chosen is elected; others may not have heard.    *)
LogElect(s) ==
    /\ IsPrefix(chosen, rlog[s])
    /\ leader' = {s}
    /\ \E deaf \in SUBSET (believes \ {s}) : believes' = {s} \cup deaf
    /\ UNCHANGED <<rlog, chosen>>

(* A follower takes over the log of the leader. *)
LogReplicate(l, s) ==
    /\ l \in leader /\ s # l
    /\ rlog[s] # rlog[l] \/ s \in believes
    /\ rlog' = [rlog EXCEPT ![s] = rlog[l]]
    /\ believes' = believes \ {s}
    /\ UNCHANGED <<chosen, leader>>

(* The leader finds its next entry committed. *)
LogCommit(l) ==
    /\ l \in leader
    /\ Len(chosen) < Len(rlog[l])
    /\ chosen' = Append(chosen, rlog[l][Len(chosen) + 1])
    /\ UNCHANGED <<rlog, leader, believes>>

(* A peer that takes itself for a leader takes in an entry; the index it   *)
(* returns is NextIndex.                                                   *)
NextIndex(s) == Len(rlog[s]) + 1

LogStart(s, entry) ==
    /\ s \in believes
    /\ rlog' = [rlog EXCEPT ![s] = Append(@, entry)]
    /\ UNCHANGED <<chosen, leader, believes>>

(* The entry i can be delivered to the service of s. *)
Delivers(s, i) ==
    i <= Len(chosen) /\ IsPrefix(SubSeq(chosen, 1, i), rlog[s])

(* The leader sends s its snapshot, of the first i entries. *)
LogInstall(l, s, i) ==
    /\ l \in leader /\ s # l
    /\ rlog' = [rlog EXCEPT ![s] =
                  IF IsPrefix(SubSeq(chosen, 1, i), @) THEN @ ELSE SubSeq(chosen, 1, i)]
    /\ believes' = believes \ {s}
    /\ UNCHANGED <<chosen, leader>>

(* A restarted peer has its log and is nobody's leader. *)
LogRestart(s) ==
    /\ believes' = believes \ {s} /\ leader' = leader \ {s}
    /\ UNCHANGED <<rlog, chosen>>

=============================================================================
