--------------------------- MODULE RaftLogProofs ---------------------------
(***************************************************************************)
(* What the operators of RaftLog return, for logs of every length.         *)
(***************************************************************************)
EXTENDS RaftLog, SequenceTheorems, NaturalsInduction, WellFoundedInduction, TLAPS

(* A log in range: non-empty, its Index fields are its global indices.     *)
GoodLog(l) == l \in Log /\ Indexed(l)

(* A non-empty set of naturals has a least element.                        *)
LEMMA LeastNatural ==
    ASSUME NEW T \in SUBSET Nat, T # {}
    PROVE  \E x \in T : \A y \in T : x <= y
<1>1. PICK x \in T : \A y \in T : ~(<<y, x>> \in OpToRel(<, Nat))
  BY NatLessThanWellFounded, WFMin
<1>2. \A y \in T : ~(y < x)
  BY <1>1, Zenon DEF OpToRel
<1> QED
  BY <1>2

LEMMA LogFacts ==
    ASSUME NEW l, GoodLog(l)
    PROVE  /\ l \in Seq(Entry) /\ Len(l) \in Nat /\ Len(l) > 0
           /\ \A i \in 1..Len(l) : /\ l[i] \in Entry /\ l[i].index \in Nat /\ l[i].term \in Nat
                                   /\ l[i].index = l[1].index + i - 1
           /\ l[1].index \in Nat
           /\ GlobalLogLen(l) \in Nat /\ LastIndex(l) \in Nat /\ LastTerm(l) \in Nat
<1>1. l \in Seq(Entry) /\ Len(l) \in Nat /\ Len(l) > 0
  BY DEF GoodLog, Log
<1>2. \A i \in 1..Len(l) : /\ l[i] \in Entry /\ l[i].index \in Nat /\ l[i].term \in Nat
  <2> TAKE i \in 1..Len(l)
  <2>1. l[i] \in Entry
    BY <1>1, ElementOfSeq
  <2> QED
    BY <2>1 DEF Entry
<1>3. \A i \in 1..Len(l) : l[i].index = l[1].index + i - 1
  BY DEF GoodLog, Indexed, Consecutive
<1>4. l[1].index \in Nat /\ l[Len(l)].term \in Nat
  BY <1>1, <1>2
<1> QED
  BY <1>1, <1>2, <1>3, <1>4 DEF GlobalLogLen, LastIndex, LastTerm

(* A slice of a sequence of entries whose indices count up from b.         *)
LEMMA SliceGood ==
    ASSUME NEW l \in Seq(Entry), NEW b \in Nat, Consecutive(l, b),
           NEW m \in Nat, m >= 1, NEW n \in Nat, n <= Len(l)
    PROVE  /\ SubSeq(l, m, n) \in Seq(Entry)
           /\ Len(SubSeq(l, m, n)) = IF m <= n THEN n - m + 1 ELSE 0
           /\ \A i \in 1..(n - m + 1) : SubSeq(l, m, n)[i] = l[m + i - 1]
           /\ Consecutive(SubSeq(l, m, n), b + m - 1)
<1>1. \A i \in m..n : l[i] \in Entry
  BY ElementOfSeq
<1>2. PICK f : f = SubSeq(l, m, n)
  OBVIOUS
<1>3. /\ f \in Seq(Entry)
      /\ Len(f) = IF m <= n THEN n - m + 1 ELSE 0
      /\ \A i \in 1..(n - m + 1) : f[i] = l[m + i - 1]
  BY <1>1, <1>2, SubSeqProperties
<1>4. ASSUME NEW i \in 1..Len(f) PROVE f[i].index = b + m - 1 + i - 1
  <2>1. i \in Nat /\ Len(f) \in Nat /\ i >= 1 /\ i <= Len(f)
    BY <1>3, LenProperties
  <2>2. m <= n /\ i \in 1..(n - m + 1)
    BY <2>1, <1>3
  <2>3. f[i] = l[m + i - 1]
    BY <2>2, <1>3
  <2>4. Len(l) \in Nat
    BY LenProperties
  <2>5. m + i - 1 \in 1..Len(l)
    BY <2>1, <2>2, <2>4
  <2>6. l[m + i - 1].index = b + (m + i - 1) - 1
    BY <2>5 DEF Consecutive
  <2> QED
    BY <2>1, <2>3, <2>6
<1> QED
  BY <1>2, <1>3, <1>4 DEF Consecutive

(* A non-empty sequence of entries whose indices count up from b is a good *)
(* log that starts at b.                                                   *)
LEMMA GoodFromConsecutive ==
    ASSUME NEW l \in Seq(Entry), Len(l) > 0, NEW b \in Nat, Consecutive(l, b)
    PROVE  GoodLog(l) /\ l[1].index = b
<1>1. Len(l) \in Nat /\ 1 \in 1..Len(l)
  BY LenProperties
<1>2. l[1].index = b + 1 - 1
  BY <1>1 DEF Consecutive
<1>3. l[1].index = b
  BY <1>2
<1> QED
  BY <1>3 DEF GoodLog, Log, Indexed

(* Two stretches of entries that meet.                                     *)
LEMMA ConcatConsecutive ==
    ASSUME NEW p \in Seq(Entry), NEW q \in Seq(Entry), NEW b \in Nat,
           Consecutive(p, b), Consecutive(q, b + Len(p))
    PROVE  Consecutive(p \o q, b)
<1>1. PICK c : c = p \o q
  OBVIOUS
<1>2. /\ Len(c) = Len(p) + Len(q) /\ Len(p) \in Nat /\ Len(q) \in Nat
      /\ \A i \in 1..(Len(p) + Len(q)) : c[i] = IF i <= Len(p) THEN p[i] ELSE q[i - Len(p)]
  BY <1>1, ConcatProperties, LenProperties
<1>3. ASSUME NEW i \in 1..Len(c) PROVE c[i].index = b + i - 1
  <2>1. i \in Nat /\ i >= 1 /\ i <= Len(p) + Len(q) /\ i \in 1..(Len(p) + Len(q))
    BY <1>2
  <2>2. CASE i <= Len(p)
    <3>1. c[i] = p[i] /\ i \in 1..Len(p)
      BY <2>1, <2>2, <1>2
    <3>2. p[i].index = b + i - 1
      BY <3>1 DEF Consecutive
    <3> QED
      BY <3>1, <3>2
  <2>3. CASE ~(i <= Len(p))
    <3>1. c[i] = q[i - Len(p)] /\ i - Len(p) \in 1..Len(q)
      BY <2>1, <2>3, <1>2
    <3>2. q[i - Len(p)].index = (b + Len(p)) + (i - Len(p)) - 1
      BY <3>1 DEF Consecutive
    <3>3. (b + Len(p)) + (i - Len(p)) - 1 = b + i - 1
      BY <1>2, <2>1
    <3> QED
      BY <3>1, <3>2, <3>3
  <2> QED
    BY <2>2, <2>3
<1> QED
  BY <1>1, <1>3 DEF Consecutive

(* A good log followed by entries that continue it.                        *)
LEMMA ConcatGood ==
    ASSUME NEW l, GoodLog(l), NEW es \in Seq(Entry), Consecutive(es, GlobalLogLen(l))
    PROVE  GoodLog(l \o es) /\ (l \o es)[1].index = l[1].index
<1>1. /\ l \in Seq(Entry) /\ Len(l) \in Nat /\ Len(l) > 0 /\ l[1].index \in Nat
      /\ Consecutive(l, l[1].index)
  BY LogFacts DEF GoodLog, Indexed
<1>2. GlobalLogLen(l) = l[1].index + Len(l)
  BY <1>1 DEF GlobalLogLen
<1>3. Consecutive(l \o es, l[1].index)
  BY <1>1, <1>2, ConcatConsecutive
<1>4. l \o es \in Seq(Entry) /\ Len(l \o es) > 0
  BY <1>1, ConcatProperties, LenProperties
<1> QED
  BY <1>1, <1>3, <1>4, GoodFromConsecutive

(* Start() and a new leader's no-op: appending the next entry.             *)
LEMMA AppendGood ==
    ASSUME NEW l, GoodLog(l), NEW e \in Entry, e.index = GlobalLogLen(l)
    PROVE  GoodLog(Append(l, e)) /\ Append(l, e)[1].index = l[1].index
<1>1. l \in Seq(Entry) /\ GlobalLogLen(l) \in Nat
  BY LogFacts
<1>2. Append(l, e) = l \o <<e>>
  BY <1>1, AppendIsConcat
<1>3. <<e>> \in Seq(Entry)
  OBVIOUS
<1>4. Consecutive(<<e>>, GlobalLogLen(l))
  BY <1>1 DEF Consecutive
<1> QED
  BY <1>2, <1>3, <1>4, ConcatGood

(* A suffix of a log that starts at a global index the log holds.          *)
LEMMA FromGood ==
    ASSUME NEW l, GoodLog(l), NEW g \in Nat, l[1].index <= g, g < GlobalLogLen(l)
    PROVE  GoodLog(From(l, g)) /\ From(l, g)[1].index = g
<1>1. /\ l \in Seq(Entry) /\ Len(l) \in Nat /\ l[1].index \in Nat
      /\ Consecutive(l, l[1].index)
  BY LogFacts DEF GoodLog, Indexed
<1>2. PICK m \in Nat : m = g - l[1].index + 1
  BY <1>1
<1>3. m >= 1 /\ m <= Len(l) /\ l[1].index + m - 1 = g
  BY <1>1, <1>2 DEF GlobalLogLen
<1>4. From(l, g) = SubSeq(l, m, Len(l))
  BY <1>2 DEF From, LocalIndex
<1>5. PICK n \in Nat, b \in Nat : n = Len(l) /\ b = l[1].index /\ n <= Len(l) /\ m <= n
  BY <1>1, <1>3
<1>6. /\ SubSeq(l, m, n) \in Seq(Entry)
      /\ Len(SubSeq(l, m, n)) = IF m <= n THEN n - m + 1 ELSE 0
      /\ Consecutive(SubSeq(l, m, n), b + m - 1)
  BY <1>1, <1>3, <1>5, SliceGood
<1>7. Len(SubSeq(l, m, n)) > 0
  BY <1>5, <1>6
<1>8. Consecutive(From(l, g), g) /\ From(l, g) \in Seq(Entry) /\ Len(From(l, g)) > 0
  BY <1>3, <1>4, <1>5, <1>6, <1>7
<1> QED
  BY <1>8, GoodFromConsecutive

(* The part of a log before a global index above its first.                *)
LEMMA BeforeGood ==
    ASSUME NEW l, GoodLog(l), NEW g \in Nat, l[1].index < g, g <= GlobalLogLen(l)
    PROVE  /\ GoodLog(Before(l, g)) /\ Before(l, g)[1].index = l[1].index
           /\ GlobalLogLen(Before(l, g)) = g
<1>1. /\ l \in Seq(Entry) /\ Len(l) \in Nat /\ l[1].index \in Nat
      /\ Consecutive(l, l[1].index)
  BY LogFacts DEF GoodLog, Indexed
<1>2. PICK n \in Nat : n = g - l[1].index
  BY <1>1
<1>3. n >= 1 /\ n <= Len(l) /\ l[1].index + 1 - 1 = l[1].index
  BY <1>1, <1>2 DEF GlobalLogLen
<1>4. Before(l, g) = SubSeq(l, 1, n)
  BY <1>2 DEF Before, LocalIndex
<1>5. /\ SubSeq(l, 1, n) \in Seq(Entry)
      /\ Len(SubSeq(l, 1, n)) = n - 1 + 1
      /\ Consecutive(SubSeq(l, 1, n), l[1].index + 1 - 1)
  BY <1>1, <1>3, SliceGood
<1>6. Len(SubSeq(l, 1, n)) = n
  BY <1>5
<1>7. GoodLog(Before(l, g)) /\ Before(l, g)[1].index = l[1].index
  <2>1. Consecutive(Before(l, g), l[1].index) /\ Before(l, g) \in Seq(Entry)
    BY <1>3, <1>4, <1>5
  <2>2. Len(Before(l, g)) > 0
    BY <1>3, <1>4, <1>6
  <2> QED
    BY <1>1, <2>1, <2>2, GoodFromConsecutive
<1> QED
  BY <1>1, <1>2, <1>4, <1>6, <1>7 DEF GlobalLogLen

(* The entry a log holds at a global index.                                *)
LEMMA AtGood ==
    ASSUME NEW l, GoodLog(l), NEW g \in Nat, l[1].index <= g, g < GlobalLogLen(l)
    PROVE  At(l, g) \in Entry /\ At(l, g).term \in Nat
<1>1. /\ l \in Seq(Entry) /\ Len(l) \in Nat /\ l[1].index \in Nat
  BY LogFacts
<1>2. PICK m \in Nat : m = g - l[1].index + 1
  BY <1>1
<1>3. m \in 1..Len(l)
  BY <1>1, <1>2 DEF GlobalLogLen
<1>4. l[m] \in Entry
  BY <1>1, <1>3, ElementOfSeq
<1>5. At(l, g) = l[m]
  BY <1>2 DEF At, LocalIndex
<1> QED
  BY <1>4, <1>5 DEF Entry

(* What syncEntries sends: indices that are not negative, entries that     *)
(* follow PrevLogIndex.                                                    *)
LEMMA AppendArgsGood ==
    ASSUME NEW l, GoodLog(l), NEW next \in Nat
    PROVE  /\ AppendArgs(l, next).prev \in Nat
           /\ AppendArgs(l, next).prevTerm \in Nat
           /\ AppendArgs(l, next).entries \in Seq(Entry)
           /\ Consecutive(AppendArgs(l, next).entries, AppendArgs(l, next).prev + 1)
<1>1. /\ l \in Seq(Entry) /\ Len(l) \in Nat /\ l[1].index \in Nat /\ Len(l) > 0
      /\ GlobalLogLen(l) \in Nat /\ Consecutive(l, l[1].index)
  BY LogFacts DEF GoodLog, Indexed
<1>2. PICK real : real = RealNextIndex(l, next)
  OBVIOUS
<1>3. real \in Nat /\ real >= l[1].index + 1 /\ real <= GlobalLogLen(l)
  BY <1>1, <1>2 DEF RealNextIndex, GlobalIndex, GlobalLogLen
<1>4. PICK m \in Nat : m = real - l[1].index + 1
  BY <1>1, <1>3
<1>5. m >= 1 /\ l[1].index + m - 1 = (real - 1) + 1 /\ Len(l) <= Len(l)
  BY <1>1, <1>3, <1>4
<1>6. From(l, real) = SubSeq(l, m, Len(l))
  BY <1>4 DEF From, LocalIndex
<1>7. From(l, real) \in Seq(Entry) /\ Consecutive(From(l, real), l[1].index + m - 1)
  <2>1. PICK n \in Nat, b \in Nat : n = Len(l) /\ b = l[1].index /\ n <= Len(l)
    BY <1>1
  <2>2. SubSeq(l, m, n) \in Seq(Entry) /\ Consecutive(SubSeq(l, m, n), b + m - 1)
    BY <1>1, <1>5, <2>1, SliceGood
  <2> QED
    BY <1>6, <2>1, <2>2
<1>8. real - 1 \in Nat /\ l[1].index <= real - 1 /\ real - 1 < GlobalLogLen(l)
  BY <1>1, <1>3
<1>9. At(l, real - 1).term \in Nat
  BY <1>8, AtGood
<1>10. AppendArgs(l, next) =
          [prev |-> real - 1, prevTerm |-> At(l, real - 1).term, entries |-> From(l, real)]
  BY <1>2 DEF AppendArgs
<1> QED
  BY <1>5, <1>7, <1>8, <1>9, <1>10

(* The AppendEntries handler keeps a log good, whatever log and whatever   *)
(* request: in particular truncating at lastApplied + 1 never empties it.  *)
LEMMA AppendedGood ==
    ASSUME NEW l, GoodLog(l), NEW la \in Nat, la >= l[1].index,
           NEW a, a.prev \in Nat, a.entries \in Seq(Entry), Consecutive(a.entries, a.prev + 1)
    PROVE  GoodLog(Appended(l, la, a)) /\ Appended(l, la, a)[1].index = l[1].index
<1>0. GlobalLogLen(l) \in Nat /\ l[1].index \in Nat
  BY LogFacts
<1>1. CASE GoodCase(l, a)
  <2>1. GlobalLogLen(l) = a.prev + 1
    BY <1>0, <1>1 DEF GoodCase, LastIndex
  <2> QED
    BY <2>1, <1>1, ConcatGood DEF Appended
<1>2. CASE ~GoodCase(l, a) /\ FixPackage(l, la, a) /\ ~PrefixEntries(l, la, a)
  <2>1. la + 1 \in Nat /\ l[1].index < la + 1 /\ la + 1 <= GlobalLogLen(l) /\ a.prev = la
    BY <1>0, <1>2 DEF FixPackage, LastIndex
  <2>2. /\ GoodLog(Before(l, la + 1)) /\ Before(l, la + 1)[1].index = l[1].index
        /\ GlobalLogLen(Before(l, la + 1)) = la + 1
    BY <2>1, BeforeGood
  <2>3. /\ GoodLog(Before(l, la + 1) \o a.entries)
        /\ (Before(l, la + 1) \o a.entries)[1].index = l[1].index
    BY <2>1, <2>2, ConcatGood
  <2> QED
    BY <1>2, <2>3 DEF Appended
<1>3. CASE ~GoodCase(l, a) /\ ~(FixPackage(l, la, a) /\ ~PrefixEntries(l, la, a))
  BY <1>3 DEF Appended
<1> QED
  BY <1>1, <1>2, <1>3

(* Replacing the first entry by one of the same index.                     *)
LEMMA ReplaceFirstGood ==
    ASSUME NEW l, GoodLog(l), NEW e \in Entry, e.index = l[1].index
    PROVE  GoodLog([l EXCEPT ![1] = e]) /\ [l EXCEPT ![1] = e][1].index = l[1].index
<1>1. /\ l \in Seq(Entry) /\ Len(l) \in Nat /\ Len(l) > 0 /\ l[1].index \in Nat
      /\ Consecutive(l, l[1].index)
  BY LogFacts DEF GoodLog, Indexed
<1>2. PICK r : r = [l EXCEPT ![1] = e]
  OBVIOUS
<1>3. 1 \in 1..Len(l)
  BY <1>1
<1>4. r \in Seq(Entry) /\ Len(r) = Len(l) /\ \A i \in 1..Len(l) : r[i] = IF i = 1 THEN e ELSE l[i]
  BY <1>1, <1>2, <1>3, ExceptSeq
<1>5. ASSUME NEW i \in 1..Len(r) PROVE r[i].index = l[1].index + i - 1
  <2>1. i \in 1..Len(l) /\ i \in Nat
    BY <1>1, <1>4
  <2>2. l[i].index = l[1].index + i - 1
    BY <2>1, <1>1 DEF Consecutive
  <2>3. CASE i = 1
    BY <2>1, <2>3, <1>1, <1>4
  <2>4. CASE i # 1
    BY <2>1, <2>2, <2>4, <1>4
  <2> QED
    BY <2>3, <2>4
<1>6. Consecutive(r, l[1].index)
  BY <1>5 DEF Consecutive
<1> QED
  BY <1>1, <1>2, <1>4, <1>6, GoodFromConsecutive

(* Snapshot() leaves a good log that starts at the snapshot's last entry.  *)
LEMMA CutAtGood ==
    ASSUME NEW l, GoodLog(l), NEW g \in Nat, l[1].index <= g, g < GlobalLogLen(l)
    PROVE  GoodLog(CutAt(l, g)) /\ CutAt(l, g)[1].index = g
<1>1. PICK f : f = From(l, g)
  OBVIOUS
<1>2. GoodLog(f) /\ f[1].index = g
  BY <1>1, FromGood
<1>3. f \in Seq(Entry) /\ Len(f) \in Nat /\ Len(f) > 0
  BY <1>2, LogFacts
<1>4. f[1] \in Entry
  BY <1>3, ElementOfSeq
<1>5. PICK e : e = [f[1] EXCEPT !.cmd = Noop]
  OBVIOUS
<1>6. e \in Entry /\ e.index = f[1].index
  BY <1>4, <1>5 DEF Entry
<1>7. CutAt(l, g) = [f EXCEPT ![1] = e]
  BY <1>1, <1>5 DEF CutAt
<1>8. GoodLog([f EXCEPT ![1] = e]) /\ [f EXCEPT ![1] = e][1].index = f[1].index
  BY <1>2, <1>6, ReplaceFirstGood
<1> QED
  BY <1>2, <1>7, <1>8

(* InstallSnapshot leaves a good log that starts at the snapshot's last    *)
(* entry.                                                                  *)
LEMMA InstalledGood ==
    ASSUME NEW l, GoodLog(l), NEW g \in Nat, NEW t \in Nat
    PROVE  GoodLog(Installed(l, g, t)) /\ Installed(l, g, t)[1].index = g
<1>1. PICK e : e = NoopEntry(g, t)
  OBVIOUS
<1>2. e \in Entry /\ e.index = g
  BY <1>1 DEF NoopEntry, Entry
<1>3. l[1].index \in Nat
  BY LogFacts
<1>4. CASE InLog(l, g) /\ At(l, g).term = t
  <2>1. l[1].index <= g /\ g < GlobalLogLen(l)
    BY <1>3, <1>4 DEF InLog, LocalIndex
  <2>2. GoodLog(From(l, g)) /\ From(l, g)[1].index = g
    BY <2>1, FromGood
  <2>3. GoodLog([From(l, g) EXCEPT ![1] = e]) /\ [From(l, g) EXCEPT ![1] = e][1].index = g
    BY <2>2, <1>2, ReplaceFirstGood
  <2> QED
    BY <1>1, <1>4, <2>3 DEF Installed
<1>5. CASE ~(InLog(l, g) /\ At(l, g).term = t)
  <2>1. <<e>> \in Seq(Entry) /\ Len(<<e>>) > 0 /\ Consecutive(<<e>>, g)
    BY <1>2 DEF Consecutive
  <2>2. GoodLog(<<e>>) /\ <<e>>[1].index = g
    BY <2>1, GoodFromConsecutive
  <2> QED
    BY <1>1, <1>5, <2>2 DEF Installed
<1> QED
  BY <1>4, <1>5

(* internalIndex() returns an index the log holds.                         *)
LEMMA InternalIndexInRange ==
    ASSUME NEW l, GoodLog(l), NEW snap, NEW e
    PROVE  LET g == InternalIndex(l, snap, e)
           IN  g \in Nat /\ l[1].index <= g /\ g < GlobalLogLen(l)
<1> DEFINE hits == {i \in 0..(Len(l) - 1) : CommandCount(l, 0, i) = e - snap}
<1>1. CASE hits = {}
  BY <1>1, LogFacts DEF InternalIndex, GlobalIndex, GlobalLogLen
<1>2. CASE hits # {}
  <2> DEFINE least == CHOOSE i \in hits : \A j \in hits : i <= j
  <2>1. hits \in SUBSET Nat
    BY LogFacts
  <2>2. \E i \in hits : \A j \in hits : i <= j
    BY <1>2, <2>1, LeastNatural
  <2>3. least \in hits
    BY <2>2
  <2>4. least \in 0..(Len(l) - 1)
    BY <2>3
  <2>5. InternalIndex(l, snap, e) = GlobalIndex(l, least)
    BY <1>2 DEF InternalIndex
  <2> HIDE DEF least
  <2> QED
    BY <2>4, <2>5, LogFacts DEF GlobalIndex, GlobalLogLen
<1> QED
  BY <1>1, <1>2

(* The "unreachable" log.Fatalf at the end of handleFailedReply is         *)
(* unreachable: whatever the leader's log and the refused request, one of  *)
(* the cases 1-5 applies.                                                  *)
THEOREM FailedReplyCasesTotal ==
    ASSUME NEW l, GoodLog(l), NEW a, a.prev \in Nat,
           NEW r, r.lastIndex \in Nat, r.lastApplied \in Nat
    PROVE  Case12(l, a, r) \/ Case34(l, a, r) \/ Case5(l, a, r)
<1>1. l[1].index \in Nat /\ GlobalLogLen(l) \in Nat
  BY LogFacts
<1> QED
  BY <1>1 DEF Case12, Case34, Case5, LocalIndex

=============================================================================
