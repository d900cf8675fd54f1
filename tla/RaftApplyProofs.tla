-------------------------- MODULE RaftApplyProofs ---------------------------
(***************************************************************************)
(* The safety properties of RaftApply, for every sequence of committed     *)
(* entries and any number of reboots.                                      *)
(***************************************************************************)
EXTENDS RaftApply, RaftLogProofs, FiniteSetTheorems, TLAPS

(* The log that starts at entry f, taken for a no-op, and ends at entry n. *)
Stretch(f, n) ==
    [i \in 1..(n - f + 1) |->
        IF i = 1 THEN [Committed[f + 1] EXCEPT !.cmd = Noop] ELSE Committed[f + i]]

MsgUpTo(e) == [snapshot : BOOLEAN, index : 0..e]

(* The log starts at entry f, where its snapshot ends, and ends at n; and  *)
(* no message is about a command that the log does not reach (although it  *)
(* may be about one that comes after lastApplied, when a snapshot has set  *)
(* that back).  This is what lets Snapshot() find its entry.               *)
LogAt(f, n) ==
    /\ log = Stretch(f, n)
    /\ snapshotIndex = CommandsUpTo(f)
    /\ lastApplied \in f..n \/ (f = 0 /\ n = 0 /\ lastApplied = 1)
    /\ installer = "cleaned" => lastApplied = f
    /\ applyQueue \in Seq(MsgUpTo(CommandsUpTo(n)))
    /\ sending \in MsgUpTo(CommandsUpTo(n))
    /\ received \in MsgUpTo(CommandsUpTo(n))
    /\ position \in 0..CommandsUpTo(n)

LogInv == \E f \in 0..Final : \E n \in f..Final : LogAt(f, n)

(* The types of the rest, and: nobody fills the queue that an installed    *)
(* snapshot has emptied before the snapshot is in it.                      *)
ControlInv ==
    /\ commitIndex \in 0..Final
    /\ leader \in BOOLEAN /\ serving \in BOOLEAN
    /\ applier \in {"top", "waiting", "signalled", "woken", "drain", "send"}
    /\ enqueuer \in {"top", "waiting", "signalled", "loop"}
    /\ installer \in {"idle", "cleaned"}
    /\ service \in {"receive", "received", "snapshot"}
    /\ handler \in {"idle", "locked"}
    /\ reboots \in 0..MaxReboots
    /\ installer = "cleaned" => enqueuer # "loop" /\ applyQueue = <<>>

-----------------------------------------------------------------------------
(* Counting commands *)

(* The commands among positions first..last are finitely many.             *)
LEMMA CountFinite ==
    ASSUME NEW l, NEW first \in Nat, NEW last \in Nat
    PROVE  /\ IsFiniteSet({i \in first..last : l[i + 1].cmd # Noop})
           /\ CommandCount(l, first, last) \in Nat
<1>1. IsFiniteSet(first..last)
  BY FS_Interval
<1>2. IsFiniteSet({i \in first..last : l[i + 1].cmd # Noop})
  BY <1>1, FS_Subset
<1> QED
  BY <1>2, FS_CardinalityType DEF CommandCount

(* One position more counts one more if it holds a command.                *)
LEMMA CountStep ==
    ASSUME NEW l, NEW first \in Nat, NEW last \in Nat, first <= last + 1
    PROVE  /\ l[last + 2].cmd # Noop =>
                  CommandCount(l, first, last + 1) = CommandCount(l, first, last) + 1
           /\ l[last + 2].cmd = Noop =>
                  CommandCount(l, first, last + 1) = CommandCount(l, first, last)
<1> DEFINE S == {i \in first..last : l[i + 1].cmd # Noop}
           T == {i \in first..(last + 1) : l[i + 1].cmd # Noop}
<1>1. IsFiniteSet(S)
  BY CountFinite
<1>2. last + 1 \notin S /\ (last + 1) + 1 = last + 2
  OBVIOUS
<1>3. CASE l[last + 2].cmd # Noop
  <2>1. T = S \cup {last + 1}
    BY <1>2, <1>3
  <2>2. Cardinality(S \cup {last + 1}) = Cardinality(S) + 1
    BY <1>1, <1>2, FS_AddElement
  <2> QED
    BY <1>3, <2>1, <2>2 DEF CommandCount
<1>4. CASE l[last + 2].cmd = Noop
  <2>1. T = S
    BY <1>2, <1>4
  <2> QED
    BY <1>4, <2>1 DEF CommandCount
<1> QED
  BY <1>3, <1>4

LEMMA CountNone ==
    ASSUME NEW l
    PROVE  CommandCount(l, 1, 0) = 0
<1>1. {i \in 1..0 : l[i + 1].cmd # Noop} = {}
  OBVIOUS
<1> QED
  BY <1>1, FS_EmptySet DEF CommandCount

LEMMA UpToStep ==
    ASSUME NEW g \in Nat
    PROVE  /\ CommandsUpTo(g) \in Nat
           /\ CommandsUpTo(0) = 0
           /\ Committed[g + 2].cmd # Noop => CommandsUpTo(g + 1) = CommandsUpTo(g) + 1
           /\ Committed[g + 2].cmd = Noop => CommandsUpTo(g + 1) = CommandsUpTo(g)
<1>1. CommandsUpTo(g) \in Nat
  BY CountFinite DEF CommandsUpTo
<1>2. CommandsUpTo(0) = 0
  BY CountNone DEF CommandsUpTo
<1>3. 1 <= g + 1
  OBVIOUS
<1> QED
  BY <1>1, <1>2, <1>3, CountStep DEF CommandsUpTo

(* No entry is counted twice or taken back.                                *)
LEMMA UpToMonotone ==
    ASSUME NEW g \in Nat, NEW h \in Nat, g <= h
    PROVE  CommandsUpTo(g) <= CommandsUpTo(h)
<1> DEFINE S == {i \in 1..g : Committed[i + 1].cmd # Noop}
           T == {i \in 1..h : Committed[i + 1].cmd # Noop}
<1>1. S \in SUBSET T
  OBVIOUS
<1>2. IsFiniteSet(T)
  BY CountFinite
<1>3. Cardinality(S) <= Cardinality(T)
  BY <1>1, <1>2, FS_Subset
<1> QED
  BY <1>3 DEF CommandsUpTo, CommandCount

(* Every count between two is reached: by the entry at which it is first   *)
(* reached.                                                                *)
LEMMA UpToReaches ==
    ASSUME NEW f \in Nat, NEW n \in Nat, f <= n,
           NEW e \in Nat, CommandsUpTo(f) <= e, e <= CommandsUpTo(n)
    PROVE  \E p \in f..n : CommandsUpTo(p) = e
<1> DEFINE T == {p \in f..n : e <= CommandsUpTo(p)}
<1>1. T \in SUBSET Nat /\ n \in T
  OBVIOUS
<1>2. PICK p \in T : \A q \in T : p <= q
  BY <1>1, LeastNatural
<1>3. p \in f..n /\ p \in Nat /\ e <= CommandsUpTo(p) /\ CommandsUpTo(p) \in Nat
  BY <1>2, UpToStep
<1>4. CASE p = f
  BY <1>3, <1>4
<1>5. CASE p # f
  <2>1. PICK q \in Nat : p = q + 1 /\ q \in f..n
    <3>1. p - 1 \in Nat /\ p = (p - 1) + 1 /\ p - 1 \in f..n
      BY <1>3, <1>5
    <3> QED
      BY <3>1
  <2>2. ~(e <= CommandsUpTo(q)) /\ CommandsUpTo(q) \in Nat
    <3>1. q \notin T
      BY <1>2, <2>1
    <3> QED
      BY <2>1, <3>1, UpToStep
  <2>3. CommandsUpTo(p) <= CommandsUpTo(q) + 1
    BY <2>1, <2>2, UpToStep
  <2> QED
    BY <1>3, <2>2, <2>3
<1> QED
  BY <1>4, <1>5

-----------------------------------------------------------------------------
(* What the operators on logs make of a stretch *)

LEMMA CommittedFacts ==
    /\ Committed \in Seq(Entry) /\ Len(Committed) = Final + 1
    /\ Final \in Nat /\ Final >= 1
    /\ \A i \in 1..(Final + 1) :
         /\ Committed[i] \in Entry /\ Committed[i].index = i - 1
         /\ Committed[i].term \in Nat
    /\ Committed[1].cmd = Noop /\ Committed[2].cmd = Noop
<1>1. Committed \in Seq(Entry) /\ Len(Committed) \in Nat /\ Len(Committed) > 1
  BY CommittedAssumption, LenProperties DEF Log
<1>2. \A i \in 1..Len(Committed) : Committed[i].index = 0 + i - 1
  BY CommittedAssumption DEF Indexed, Consecutive
<1>3. Final = Len(Committed) - 1
  BY CommittedAssumption, <1>1 DEF Final, LastIndex, GlobalLogLen
<1>4. \A i \in 1..Len(Committed) : Committed[i] \in Entry
  BY <1>1, ElementOfSeq
<1>5. \A i \in 1..(Final + 1) : Committed[i] \in Entry /\ Committed[i].index = i - 1
  BY <1>1, <1>2, <1>3, <1>4
<1>6. \A i \in 1..(Final + 1) : Committed[i].term \in Nat
  BY <1>5 DEF Entry
<1> QED
  BY <1>1, <1>3, <1>5, <1>6, CommittedAssumption

(* Log l holds the entries from f, taken for a no-op, to n.                *)
Holds(l, f, n) ==
    /\ l \in Seq(Entry) /\ Len(l) = n - f + 1
    /\ l[1] = [Committed[f + 1] EXCEPT !.cmd = Noop]
    /\ l[1].index = f /\ l[1].cmd = Noop
    /\ l[1].term = Committed[f + 1].term
    /\ \A i \in 2..(n - f + 1) : l[i] = Committed[f + i]
    /\ GlobalLogLen(l) = n + 1 /\ LastIndex(l) = n

LEMMA StretchFacts ==
    ASSUME NEW f \in Nat, NEW n \in Nat, f <= n, n <= Final
    PROVE  Holds(Stretch(f, n), f, n)
<1>1. PICK l : l = Stretch(f, n)
  OBVIOUS
<1>2. f + 1 \in 1..(Final + 1) /\ 1 \in 1..(n - f + 1) /\ n - f + 1 \in Nat
  BY CommittedFacts
<1>3. PICK c : c = [Committed[f + 1] EXCEPT !.cmd = Noop]
  OBVIOUS
<1>4. c \in Entry /\ c.index = f /\ c.cmd = Noop /\ c.term = Committed[f + 1].term
  <2>1. Committed[f + 1] \in Entry /\ Committed[f + 1].index = (f + 1) - 1
    BY <1>2, CommittedFacts
  <2> QED
    BY <1>3, <2>1 DEF Entry
<1>5. l[1] = c /\ \A i \in 2..(n - f + 1) : l[i] = Committed[f + i]
  BY <1>1, <1>2, <1>3 DEF Stretch
<1>6. \A i \in 1..(n - f + 1) : l[i] \in Entry
  BY <1>4, <1>5, CommittedFacts
<1>7. l \in [1..(n - f + 1) -> Entry]
  BY <1>1, <1>6 DEF Stretch
<1>8. l \in Seq(Entry)
  BY <1>2, <1>7, SeqDef
<1>9. Len(l) = n - f + 1
  BY <1>2, <1>7, <1>8, LenProperties
<1>10. GlobalLogLen(l) = n + 1 /\ LastIndex(l) = n
  BY <1>4, <1>5, <1>9 DEF GlobalLogLen, LastIndex
<1> QED
  BY <1>1, <1>3, <1>4, <1>5, <1>8, <1>9, <1>10 DEF Holds

LEMMA EntriesFacts ==
    ASSUME NEW first \in Nat, NEW last \in Nat, first <= last + 1, last <= Final
    PROVE  /\ Entries(first, last) \in Seq(Entry)
           /\ Len(Entries(first, last)) = last - first + 1
           /\ \A i \in 1..(last - first + 1) : Entries(first, last)[i] = Committed[first + i]
<1>1. PICK es : es = SubSeq(Committed, first + 1, last + 1)
  OBVIOUS
<1>2. \A i \in (first + 1)..(last + 1) : Committed[i] \in Entry
  BY CommittedFacts
<1>3. /\ es \in Seq(Entry)
      /\ Len(es) = IF first + 1 <= last + 1 THEN (last + 1) - (first + 1) + 1 ELSE 0
      /\ \A i \in 1..((last + 1) - (first + 1) + 1) : es[i] = Committed[(first + 1) + i - 1]
  BY <1>1, <1>2, SubSeqProperties
<1>4. Len(es) = last - first + 1
  BY <1>3
<1>5. \A i \in 1..(last - first + 1) : es[i] = Committed[first + i]
  BY <1>3
<1> QED
  BY <1>1, <1>3, <1>4, <1>5 DEF Entries

(* AppendEntries, Start and a new leader's no-op make the stretch longer.  *)
LEMMA StretchConcat ==
    ASSUME NEW f \in Nat, NEW n \in Nat, NEW m \in Nat, f <= n, n <= m, m <= Final
    PROVE  Stretch(f, n) \o Entries(n + 1, m) = Stretch(f, m)
<1>0. n <= Final /\ f <= m /\ n + 1 \in Nat /\ n + 1 <= m + 1
  BY CommittedFacts
<1>1. PICK l : l = Stretch(f, n)
  OBVIOUS
<1>2. PICK es : es = Entries(n + 1, m)
  OBVIOUS
<1>3. PICK r : r = Stretch(f, m)
  OBVIOUS
<1>4. /\ l \in Seq(Entry) /\ Len(l) = n - f + 1
      /\ l[1] = [Committed[f + 1] EXCEPT !.cmd = Noop]
      /\ \A i \in 2..(n - f + 1) : l[i] = Committed[f + i]
  BY <1>0, <1>1, StretchFacts DEF Holds
<1>5. /\ r \in Seq(Entry) /\ Len(r) = m - f + 1
      /\ r[1] = [Committed[f + 1] EXCEPT !.cmd = Noop]
      /\ \A i \in 2..(m - f + 1) : r[i] = Committed[f + i]
  <2>1. Holds(r, f, m)
    BY <1>0, <1>3, StretchFacts
  <2> QED
    BY <2>1 DEF Holds
<1>6. /\ es \in Seq(Entry) /\ Len(es) = m - n
      /\ \A i \in 1..(m - n) : es[i] = Committed[n + 1 + i]
  <2>1. m - (n + 1) + 1 = m - n
    OBVIOUS
  <2> QED
    BY <1>0, <1>2, <2>1, EntriesFacts
<1>7. PICK c : c = l \o es
  OBVIOUS
<1>8. /\ c \in Seq(Entry) /\ Len(c) = m - f + 1
      /\ \A i \in 1..(m - f + 1) :
           c[i] = IF i <= n - f + 1 THEN l[i] ELSE es[i - (n - f + 1)]
  <2>1. /\ c \in Seq(Entry) /\ Len(c) = Len(l) + Len(es)
        /\ \A i \in 1..(Len(l) + Len(es)) : c[i] = IF i <= Len(l) THEN l[i] ELSE es[i - Len(l)]
    <3>1. l \in Seq(Entry) /\ es \in Seq(Entry)
      BY <1>4, <1>6
    <3> QED
      BY <1>7, <3>1, ConcatProperties
  <2>2. Len(l) + Len(es) = m - f + 1
    BY <1>4, <1>6
  <2> QED
    BY <1>4, <2>1, <2>2
<1>10. ASSUME NEW i \in 1..(m - f + 1) PROVE c[i] = r[i]
  <2>1. CASE i <= n - f + 1
    <3>1. c[i] = l[i]
      BY <1>8, <2>1
    <3>2. CASE i = 1
      BY <1>4, <1>5, <3>1, <3>2
    <3>3. CASE i # 1
      <4>1. i \in 2..(n - f + 1) /\ i \in 2..(m - f + 1)
        BY <2>1, <3>3
      <4>2. l[i] = Committed[f + i]
        BY <1>4, <4>1
      <4>3. r[i] = Committed[f + i]
        BY <1>5, <4>1
      <4> QED
        BY <3>1, <4>2, <4>3
    <3> QED
      BY <3>2, <3>3
  <2>2. CASE i > n - f + 1
    <3>1. i - (n - f + 1) \in 1..(m - n) /\ i \in 2..(m - f + 1)
      BY <2>2
    <3>2. c[i] = es[i - (n - f + 1)]
      BY <1>8, <2>2
    <3>3. n + 1 + (i - (n - f + 1)) = f + i
      OBVIOUS
    <3>4. es[i - (n - f + 1)] = Committed[f + i]
      BY <1>6, <3>1, <3>3
    <3>5. r[i] = Committed[f + i]
      BY <1>5, <3>1
    <3> QED
      BY <3>2, <3>4, <3>5
  <2> QED
    BY <2>1, <2>2
<1> QED
  BY <1>1, <1>2, <1>3, <1>5, <1>7, <1>8, <1>10, SeqEqual

(* A slice of entries.                                                     *)
LEMMA SliceFacts ==
    ASSUME NEW l, NEW p \in Int, NEW q \in Int, p <= q, \A i \in p..q : l[i] \in Entry
    PROVE  /\ SubSeq(l, p, q) \in Seq(Entry)
           /\ Len(SubSeq(l, p, q)) = q - p + 1
           /\ \A i \in 1..(q - p + 1) : SubSeq(l, p, q)[i] = l[p + i - 1]
  BY SubSeqProperties

(* The last part of a log, from entry g on, once entry g is a no-op.       *)
LEMMA StretchFrom ==
    ASSUME NEW b \in Nat, NEW g \in Nat, NEW n \in Nat, b <= g, g <= n, n <= Final,
           NEW l \in Seq(Entry), Len(l) = n - b + 1, l[1].index = b,
           \A i \in 2..(n - b + 1) : l[i] = Committed[b + i],
           NEW c, c = [Committed[g + 1] EXCEPT !.cmd = Noop]
    PROVE  [From(l, g) EXCEPT ![1] = c] = Stretch(g, n)
<1>1. PICK s : s = From(l, g)
  OBVIOUS
<1>2. s = SubSeq(l, g - b + 1, n - b + 1) /\ g - b + 1 \in Nat /\ n - b + 1 \in Nat
  BY <1>1 DEF From, LocalIndex
<1>3. \A i \in (g - b + 1)..(n - b + 1) : l[i] \in Entry
  <2>1. \A i \in 1..Len(l) : l[i] \in Entry
    BY ElementOfSeq
  <2> QED
    BY <2>1
<1>4. /\ s \in Seq(Entry) /\ Len(s) = n - g + 1
      /\ \A i \in 1..(n - g + 1) : s[i] = l[g - b + i]
  <2>1. PICK p \in Int, q \in Int : p = g - b + 1 /\ q = n - b + 1
    BY <1>2
  <2>2. s = SubSeq(l, p, q) /\ \A i \in p..q : l[i] \in Entry
    BY <1>2, <1>3, <2>1
  <2>3. q - p + 1 = n - g + 1 /\ p <= q
    BY <2>1
  <2>4. /\ s \in Seq(Entry) /\ Len(s) = q - p + 1
        /\ \A i \in 1..(q - p + 1) : s[i] = l[p + i - 1]
    BY <2>2, <2>3, SliceFacts
  <2>5. \A i \in 1..(n - g + 1) : p + i - 1 = g - b + i
    BY <2>1
  <2>6. Len(s) = n - g + 1
    BY <2>3, <2>4
  <2>7. ASSUME NEW i \in 1..(n - g + 1) PROVE s[i] = l[g - b + i]
    <3>1. s[i] = l[p + i - 1]
      BY <2>3, <2>4
    <3> QED
      BY <2>5, <3>1
  <2> QED
    BY <2>4, <2>6, <2>7
<1>5. c \in Entry
  <2>1. Committed[g + 1] \in Entry
    BY CommittedFacts
  <2> QED
    BY <2>1 DEF Entry
<1>6. PICK r : r = [s EXCEPT ![1] = c]
  OBVIOUS
<1>7. /\ r \in Seq(Entry) /\ Len(r) = n - g + 1
      /\ \A i \in 1..(n - g + 1) : r[i] = IF i = 1 THEN c ELSE s[i]
  <2>1. 1 \in 1..Len(s)
    BY <1>4
  <2>2. /\ r \in Seq(Entry) /\ Len(r) = Len(s)
        /\ \A i \in 1..Len(s) : r[i] = IF i = 1 THEN c ELSE s[i]
    BY <1>4, <1>5, <1>6, <2>1, ExceptSeq
  <2> QED
    BY <1>4, <2>2
<1>8. PICK t : t = Stretch(g, n)
  OBVIOUS
<1>9. Holds(t, g, n)
  BY <1>8, StretchFacts
<1>10. /\ t \in Seq(Entry) /\ Len(t) = n - g + 1 /\ t[1] = c
       /\ \A i \in 2..(n - g + 1) : t[i] = Committed[g + i]
  BY <1>9 DEF Holds
<1>11. ASSUME NEW i \in 1..(n - g + 1) PROVE r[i] = t[i]
  <2>1. CASE i = 1
    BY <1>7, <1>10, <2>1
  <2>2. CASE i # 1
    <3>1. i \in 2..(n - g + 1) /\ g - b + i \in 2..(n - b + 1) /\ b + (g - b + i) = g + i
      BY <2>2
    <3>2. r[i] = l[g - b + i]
      BY <1>4, <1>7, <2>2
    <3>3. l[g - b + i] = Committed[g + i]
      BY <3>1
    <3> QED
      BY <1>10, <3>1, <3>2, <3>3
  <2> QED
    BY <2>1, <2>2
<1>12. r = t
  <2>1. r \in Seq(Entry) /\ t \in Seq(Entry) /\ Len(r) = Len(t)
    BY <1>7, <1>10
  <2>2. \A i \in 1..Len(r) : r[i] = t[i]
    BY <1>7, <1>11
  <2> QED
    BY <2>1, <2>2, SeqEqual
<1> QED
  BY <1>1, <1>6, <1>8, <1>12

(* Snapshot() leaves the rest of the stretch.                              *)
LEMMA StretchCut ==
    ASSUME NEW f \in Nat, NEW g \in Nat, NEW n \in Nat, f <= g, g <= n, n <= Final
    PROVE  CutAt(Stretch(f, n), g) = Stretch(g, n)
<1>1. PICK l : l = Stretch(f, n)
  OBVIOUS
<1>2. Holds(l, f, n)
  <2>1. f <= n
    OBVIOUS
  <2> QED
    BY <1>1, <2>1, StretchFacts
<1>3. PICK c : c = [Committed[g + 1] EXCEPT !.cmd = Noop]
  OBVIOUS
<1>4. [From(l, g) EXCEPT ![1] = c] = Stretch(g, n)
  <2>1. /\ l \in Seq(Entry) /\ Len(l) = n - f + 1 /\ l[1].index = f
        /\ \A i \in 2..(n - f + 1) : l[i] = Committed[f + i]
    BY <1>2 DEF Holds
  <2> QED
    BY <1>3, <2>1, StretchFrom
<1>5. [From(l, g)[1] EXCEPT !.cmd = Noop] = c
  <2>1. From(l, g)[1] = l[g - f + 1]
    <3>1. /\ From(l, g) = SubSeq(l, g - f + 1, Len(l)) /\ Len(l) \in Nat
          /\ g - f + 1 \in Nat /\ g - f + 1 <= Len(l) /\ g - f + 1 >= 1
      <4>1. Len(l) = n - f + 1 /\ l[1].index = f
        BY <1>2 DEF Holds
      <4> QED
        BY <4>1 DEF From, LocalIndex
    <3>2. \A i \in 1..Len(l) : l[i] \in Entry
      BY <1>2, ElementOfSeq DEF Holds
    <3>3. \A i \in (g - f + 1)..Len(l) : l[i] \in Entry
      BY <3>1, <3>2
    <3>4. \A i \in 1..(Len(l) - (g - f + 1) + 1) :
             SubSeq(l, g - f + 1, Len(l))[i] = l[(g - f + 1) + i - 1]
      BY <3>1, <3>3, SubSeqProperties
    <3>5. 1 \in 1..(Len(l) - (g - f + 1) + 1) /\ (g - f + 1) + 1 - 1 = g - f + 1
      BY <3>1
    <3> QED
      BY <3>1, <3>4, <3>5
  <2>2. Committed[g + 1] \in Entry
    BY CommittedFacts
  <2>3. CASE g = f
    <3>1. From(l, g)[1] = c
      BY <1>2, <1>3, <2>1, <2>3 DEF Holds
    <3> QED
      BY <1>3, <2>2, <3>1 DEF Entry
  <2>4. CASE g # f
    <3>1. g - f + 1 \in 2..(n - f + 1) /\ f + (g - f + 1) = g + 1
      BY <2>4
    <3>2. l[g - f + 1] = Committed[g + 1]
      BY <1>2, <3>1 DEF Holds
    <3> QED
      BY <1>3, <2>1, <3>2
  <2> QED
    BY <2>3, <2>4
<1> QED
  BY <1>1, <1>4, <1>5 DEF CutAt

(* The entry the log holds at a global index after its first.              *)
LEMMA StretchAt ==
    ASSUME NEW f \in Nat, NEW g \in Nat, NEW n \in Nat, f <= g, g <= n, n <= Final
    PROVE  /\ f < g => At(Stretch(f, n), g) = Committed[g + 1]
           /\ At(Stretch(f, n), g).term = Committed[g + 1].term
<1>1. PICK l : l = Stretch(f, n)
  OBVIOUS
<1>2. f <= n
  OBVIOUS
<1>3. Holds(l, f, n)
  BY <1>1, <1>2, StretchFacts
<1>4. At(l, g) = l[g - f + 1]
  BY <1>3 DEF At, LocalIndex, Holds
<1>5. CASE f < g
  <2>1. g - f + 1 \in 2..(n - f + 1) /\ f + (g - f + 1) = g + 1
    BY <1>5
  <2>2. l[g - f + 1] = Committed[g + 1]
    BY <1>3, <2>1 DEF Holds
  <2> QED
    BY <1>1, <1>4, <2>2
<1>6. CASE f = g
  <2>1. g - f + 1 = 1
    BY <1>6
  <2>2. l[1].term = Committed[f + 1].term
    BY <1>3 DEF Holds
  <2>3. At(l, g).term = Committed[g + 1].term /\ ~(f < g)
    BY <1>4, <1>6, <2>1, <2>2
  <2> QED
    BY <1>1, <2>3
<1> QED
  BY <1>5, <1>6

(* InstallSnapshot leaves the rest of the stretch, or the filler alone.    *)
LEMMA StretchInstalled ==
    ASSUME NEW f \in Nat, NEW g \in Nat, NEW n \in Nat, f <= n, n <= Final, f <= g, g <= Final
    PROVE  LET l == Installed(Stretch(f, n), g, Committed[g + 1].term)
           IN  l = Stretch(g, IF g <= n THEN n ELSE g)
<1>1. PICK l : l = Stretch(f, n)
  OBVIOUS
<1>2. Holds(l, f, n)
  BY <1>1, StretchFacts
<1>3. PICK c : c = NoopEntry(g, Committed[g + 1].term)
  OBVIOUS
<1>4. c = [Committed[g + 1] EXCEPT !.cmd = Noop]
  <2>1. Committed[g + 1] \in Entry /\ Committed[g + 1].index = (g + 1) - 1
    <3>1. g + 1 \in 1..(Final + 1)
      BY CommittedFacts
    <3> QED
      BY <3>1, CommittedFacts
  <2> QED
    <3>1. Committed[g + 1].index = g
      BY <2>1
    <3> QED
      BY <1>3, <2>1, <3>1 DEF NoopEntry, Entry
<1>5. InLog(l, g) <=> g <= n
  BY <1>2 DEF InLog, LocalIndex, Holds
<1>6. CASE g <= n
  <2>1. At(l, g).term = Committed[g + 1].term
    BY <1>1, <1>6, StretchAt
  <2>2. /\ l \in Seq(Entry) /\ Len(l) = n - f + 1 /\ l[1].index = f
        /\ \A i \in 2..(n - f + 1) : l[i] = Committed[f + i]
    BY <1>2 DEF Holds
  <2>3. [From(l, g) EXCEPT ![1] = c] = Stretch(g, n)
    BY <1>4, <1>6, <2>2, StretchFrom
  <2> QED
    BY <1>1, <1>3, <1>5, <1>6, <2>1, <2>3 DEF Installed
<1>7. CASE ~(g <= n)
  <2>1. PICK t : t = Stretch(g, g)
    OBVIOUS
  <2>2. g <= g /\ g - g + 1 = 1
    OBVIOUS
  <2>3. Holds(t, g, g)
    BY <2>1, <2>2, StretchFacts
  <2>4. t \in Seq(Entry) /\ Len(t) = 1 /\ t[1] = c
    BY <1>4, <2>2, <2>3 DEF Holds
  <2>5. t = <<c>>
    BY <2>4
  <2> QED
    BY <1>1, <1>3, <1>5, <1>7, <2>1, <2>5 DEF Installed
<1> QED
  BY <1>6, <1>7

(* The stretch as TypeOK puts it, and as Make() leaves it.                 *)
LEMMA StretchIsCut ==
    ASSUME NEW f \in Nat, NEW n \in Nat, f <= n, n <= Final
    PROVE  Stretch(f, n) = CutAt(Entries(0, n), f)
<1>1. PICK l : l = Entries(0, n)
  OBVIOUS
<1>2. 0 \in Nat /\ 0 <= n + 1 /\ n - 0 + 1 = n + 1
  OBVIOUS
<1>3. /\ l \in Seq(Entry) /\ Len(l) = n + 1
      /\ \A i \in 1..(n + 1) : l[i] = Committed[0 + i]
  BY <1>1, <1>2, EntriesFacts
<1>4. \A i \in 1..(n + 1) : l[i] = Committed[i]
  BY <1>3
<1>5. l[1].index = 0
  BY <1>4, CommittedFacts
<1>6. PICK c : c = [Committed[f + 1] EXCEPT !.cmd = Noop]
  OBVIOUS
<1>7. [From(l, f) EXCEPT ![1] = c] = Stretch(f, n)
  <2>0. PICK b \in Nat : b = 0
    OBVIOUS
  <2>1. /\ Len(l) = n - b + 1 /\ b <= f /\ l[1].index = b
        /\ \A i \in 2..(n - b + 1) : l[i] = Committed[b + i]
    BY <1>3, <1>4, <1>5, <2>0
  <2>2. l \in Seq(Entry)
    BY <1>3
  <2> QED
    BY <1>6, <2>1, <2>2, StretchFrom
<1>8. From(l, f)[1] = Committed[f + 1]
  <2>1. PICK p \in Int, q \in Int : p = f + 1 /\ q = n + 1
    OBVIOUS
  <2>2. From(l, f) = SubSeq(l, p, q)
    BY <1>3, <1>5, <2>1 DEF From, LocalIndex
  <2>3. p <= q /\ \A i \in p..q : l[i] \in Entry
    BY <1>4, <2>1, CommittedFacts
  <2>4. \A i \in 1..(q - p + 1) : SubSeq(l, p, q)[i] = l[p + i - 1]
    BY <2>3, SliceFacts
  <2>5. 1 \in 1..(q - p + 1) /\ p + 1 - 1 = f + 1
    BY <2>1
  <2>6. SubSeq(l, p, q)[1] = l[f + 1]
    BY <2>4, <2>5
  <2> QED
    BY <1>4, <2>2, <2>6
<1> QED
  BY <1>1, <1>6, <1>7, <1>8 DEF CutAt

LEMMA StretchStart == Entries(0, 0) = Stretch(0, 0)
<1>1. PICK l : l = Entries(0, 0)
  OBVIOUS
<1>2. 0 \in Nat /\ 0 <= 0 + 1 /\ 0 <= Final /\ 0 <= 0 /\ 0 - 0 + 1 = 1
  BY CommittedFacts
<1>3. /\ l \in Seq(Entry) /\ Len(l) = 1
      /\ \A i \in 1..1 : l[i] = Committed[0 + i]
  BY <1>1, <1>2, EntriesFacts
<1>4. l[1] = Committed[1]
  BY <1>3
<1>5. Committed[1] = [Committed[1] EXCEPT !.cmd = Noop]
  <2>1. Committed[1] \in Entry /\ Committed[1].cmd = Noop
    <3>1. 1 \in 1..(Final + 1)
      BY CommittedFacts
    <3> QED
      BY <3>1, CommittedFacts
  <2> QED
    BY <2>1 DEF Entry
<1>6. PICK t : t = Stretch(0, 0)
  OBVIOUS
<1>7. Holds(t, 0, 0)
  BY <1>2, <1>6, StretchFacts
<1>8. t \in Seq(Entry) /\ Len(t) = 1 /\ t[1] = l[1]
  BY <1>2, <1>4, <1>5, <1>7 DEF Holds
<1>9. \A i \in 1..Len(t) : t[i] = l[i]
  BY <1>8
<1> QED
  BY <1>1, <1>3, <1>6, <1>8, <1>9, SeqEqual

(* Counting in a stretch, from its start, continues the count up to it:    *)
(* the first position at which it did not would be no such position.       *)
LEMMA StretchCount ==
    ASSUME NEW f \in Nat, NEW n \in Nat, f <= n, n <= Final
    PROVE  \A m \in 0..(n - f) :
             /\ CommandsUpTo(f) + CommandCount(Stretch(f, n), 1, m) = CommandsUpTo(f + m)
             /\ CommandCount(Stretch(f, n), 0, m) = CommandCount(Stretch(f, n), 1, m)
<1>1. PICK l : l = Stretch(f, n)
  OBVIOUS
<1>2. Holds(l, f, n)
  BY <1>1, StretchFacts
<1> DEFINE Bad == {m \in 0..(n - f) :
                     CommandsUpTo(f) + CommandCount(l, 1, m) # CommandsUpTo(f + m)}
<1>3. Bad = {}
  <2>1. SUFFICES ASSUME Bad # {} PROVE FALSE
    OBVIOUS
  <2>2. Bad \in SUBSET Nat
    OBVIOUS
  <2>3. PICK m \in Bad : \A k \in Bad : m <= k
    BY <2>1, <2>2, LeastNatural
  <2>4. m \in 0..(n - f) /\ CommandsUpTo(f) + CommandCount(l, 1, m) # CommandsUpTo(f + m)
    BY <2>3
  <2>5. CASE m = 0
    <3>1. CommandCount(l, 1, m) = 0
      BY <2>5, CountNone
    <3>2. f + m = f /\ CommandsUpTo(f) \in Nat
      BY <2>5, UpToStep
    <3> QED
      BY <2>4, <3>1, <3>2
  <2>6. CASE m # 0
    <3>1. PICK k \in Nat : m = k + 1
      <4>1. m - 1 \in Nat /\ m = (m - 1) + 1
        BY <2>4, <2>6
      <4> QED
        BY <4>1
    <3>2. k \in 0..(n - f) /\ k \notin Bad
      BY <2>3, <2>4, <3>1
    <3>3. CommandsUpTo(f) + CommandCount(l, 1, k) = CommandsUpTo(f + k)
      BY <3>2
    <3>4. l[k + 2] = Committed[(f + k) + 2]
      <4>1. k + 2 \in 2..(n - f + 1) /\ f + (k + 2) = (f + k) + 2
        BY <2>4, <3>1
      <4> QED
        BY <1>2, <4>1 DEF Holds
    <3>5. PICK j \in Nat : j = f + k /\ f + m = j + 1
      BY <3>1
    <3>6. /\ CommandsUpTo(f) \in Nat /\ CommandsUpTo(j) \in Nat
          /\ Committed[j + 2].cmd # Noop => CommandsUpTo(j + 1) = CommandsUpTo(j) + 1
          /\ Committed[j + 2].cmd = Noop => CommandsUpTo(j + 1) = CommandsUpTo(j)
      BY UpToStep
    <3>7. /\ CommandCount(l, 1, k) \in Nat
          /\ l[k + 2].cmd # Noop => CommandCount(l, 1, k + 1) = CommandCount(l, 1, k) + 1
          /\ l[k + 2].cmd = Noop => CommandCount(l, 1, k + 1) = CommandCount(l, 1, k)
      <4>1. 1 \in Nat /\ 1 <= k + 1
        OBVIOUS
      <4> QED
        BY <4>1, CountStep, CountFinite
    <3>8. CommandsUpTo(f) + CommandCount(l, 1, k + 1) = CommandsUpTo(j + 1)
      <4> HIDE DEF Bad
      <4>1. l[k + 2] = Committed[j + 2] /\ CommandsUpTo(f) + CommandCount(l, 1, k) = CommandsUpTo(j)
        BY <3>3, <3>4, <3>5
      <4> QED
        BY <3>6, <3>7, <4>1
    <3> QED
      BY <2>4, <3>1, <3>5, <3>8
  <2> QED
    BY <2>5, <2>6
<1>4. ASSUME NEW m \in 0..(n - f)
      PROVE  CommandCount(l, 0, m) = CommandCount(l, 1, m)
  <2>1. l[0 + 1].cmd = Noop
    <3>1. l[1].cmd = Noop
      BY <1>2 DEF Holds
    <3> QED
      BY <3>1
  <2>2. {i \in 0..m : l[i + 1].cmd # Noop} = {i \in 1..m : l[i + 1].cmd # Noop}
    BY <2>1
  <2> QED
    BY <2>2 DEF CommandCount
<1>5. \A m \in 0..(n - f) : CommandsUpTo(f) + CommandCount(l, 1, m) = CommandsUpTo(f + m)
  BY <1>3
<1> HIDE DEF Bad
<1> QED
  BY <1>1, <1>4, <1>5

(* externalIndex() is the number of commands up to the entry, whatever     *)
(* snapshot the log starts at.                                             *)
LEMMA ExternalOfStretch ==
    ASSUME NEW f \in Nat, NEW g \in Nat, NEW n \in Nat, f <= g, g <= n, n <= Final
    PROVE  ExternalIndex(Stretch(f, n), CommandsUpTo(f), g) = CommandsUpTo(g)
<1>1. f <= n /\ g - f \in 0..(n - f) /\ f + (g - f) = g
  OBVIOUS
<1>2. Stretch(f, n)[1].index = f
  BY <1>1, StretchFacts DEF Holds
<1>3. CommandsUpTo(f) + CommandCount(Stretch(f, n), 1, g - f) = CommandsUpTo(f + (g - f))
  BY <1>1, StretchCount
<1> QED
  BY <1>1, <1>2, <1>3 DEF ExternalIndex, LocalIndex

(* internalIndex() finds an entry up to which there are e commands, if the *)
(* log reaches that far.                                                   *)
LEMMA InternalOfStretch ==
    ASSUME NEW f \in Nat, NEW n \in Nat, f <= n, n <= Final,
           NEW e \in Nat, CommandsUpTo(f) <= e, e <= CommandsUpTo(n)
    PROVE  LET g == InternalIndex(Stretch(f, n), CommandsUpTo(f), e)
           IN  g \in f..n /\ CommandsUpTo(g) = e
<1>1. PICK l : l = Stretch(f, n)
  OBVIOUS
<1>2. Len(l) - 1 = n - f /\ l[1].index = f
  <2>1. Holds(l, f, n)
    BY <1>1, StretchFacts
  <2>2. Len(l) = n - f + 1 /\ l[1].index = f
    BY <2>1 DEF Holds
  <2> QED
    BY <2>2
<1>3. PICK b \in Nat : b = CommandsUpTo(f)
  BY UpToStep
<1> DEFINE hits == {i \in 0..(Len(l) - 1) : CommandCount(l, 0, i) = e - b}
<1>4. ASSUME NEW i \in 0..(n - f)
      PROVE  CommandCount(l, 0, i) = e - b <=> CommandsUpTo(f + i) = e
  <2>1. b + CommandCount(l, 0, i) = CommandsUpTo(f + i)
    BY <1>1, <1>3, StretchCount
  <2>2. CommandCount(l, 0, i) \in Nat
    <3>1. 0 \in Nat /\ i \in Nat
      OBVIOUS
    <3> QED
      BY <3>1, CountFinite
  <2>3. PICK k \in Nat : k = CommandCount(l, 0, i)
    BY <2>2
  <2>4. k = e - b <=> b + k = e
    OBVIOUS
  <2> QED
    BY <2>1, <2>3, <2>4
<1>5. hits # {}
  <2>1. PICK p \in f..n : CommandsUpTo(p) = e
    BY UpToReaches
  <2>2. p - f \in 0..(n - f) /\ f + (p - f) = p
    OBVIOUS
  <2>3. p - f \in hits
    BY <1>2, <1>4, <2>1, <2>2
  <2> QED
    BY <2>3
<1>6. hits \in SUBSET Nat
  BY <1>2
<1>7. \E i \in hits : \A j \in hits : i <= j
  BY <1>5, <1>6, LeastNatural
<1> DEFINE least == CHOOSE i \in hits : \A j \in hits : i <= j
<1>8. least \in hits
  BY <1>7
<1>9. least \in 0..(n - f) /\ CommandsUpTo(f + least) = e
  BY <1>2, <1>4, <1>8
<1>10. InternalIndex(l, b, e) = GlobalIndex(l, least)
  BY <1>5 DEF InternalIndex
<1> HIDE DEF least
<1>11. InternalIndex(l, b, e) = f + least
  BY <1>2, <1>9, <1>10 DEF GlobalIndex
<1> HIDE DEF hits
<1> QED
  BY <1>1, <1>3, <1>9, <1>11

-----------------------------------------------------------------------------
(* The log, its snapshot, and what the messages are about *)

(* A longer log: what was typed still is.                                  *)
LEMMA Wider ==
    ASSUME NEW n \in Nat, NEW m \in Nat, n <= m
    PROVE  /\ CommandsUpTo(n) \in Nat /\ CommandsUpTo(m) \in Nat
           /\ MsgUpTo(CommandsUpTo(n)) \subseteq MsgUpTo(CommandsUpTo(m))
           /\ 0..CommandsUpTo(n) \subseteq 0..CommandsUpTo(m)
           /\ Seq(MsgUpTo(CommandsUpTo(n))) \subseteq Seq(MsgUpTo(CommandsUpTo(m)))
<1>1. /\ CommandsUpTo(n) \in Nat /\ CommandsUpTo(m) \in Nat
      /\ CommandsUpTo(n) <= CommandsUpTo(m)
  BY UpToStep, UpToMonotone
<1>2. 0..CommandsUpTo(n) \subseteq 0..CommandsUpTo(m)
  BY <1>1
<1>3. MsgUpTo(CommandsUpTo(n)) \subseteq MsgUpTo(CommandsUpTo(m))
  BY <1>2 DEF MsgUpTo
<1>4. Seq(MsgUpTo(CommandsUpTo(n))) \subseteq Seq(MsgUpTo(CommandsUpTo(m)))
  BY <1>3, SeqMonotonic
<1> QED
  BY <1>1, <1>2, <1>3, <1>4

LEMMA SimpleMsgs ==
    ASSUME NEW n \in Nat, NEW e \in 0..CommandsUpTo(n)
    PROVE  /\ NoMsg \in MsgUpTo(CommandsUpTo(n))
           /\ SnapshotMsg(e) \in MsgUpTo(CommandsUpTo(n))
           /\ CommandMsg(e) \in MsgUpTo(CommandsUpTo(n))
  BY UpToStep DEF NoMsg, SnapshotMsg, CommandMsg, MsgUpTo

(* What LogInv says of the log that can be seen.                           *)
LEMMA LogSeen ==
    ASSUME NEW f \in 0..Final, NEW n \in f..Final, log = Stretch(f, n)
    PROVE  /\ f \in Nat /\ n \in Nat /\ f <= n /\ n <= Final /\ Final \in Nat
           /\ log[1].index = f /\ LastIndex(log) = n /\ GlobalLogLen(log) = n + 1
           /\ log = Entries(0, 0) <=> f = 0 /\ n = 0
<1>1. f \in Nat /\ n \in Nat /\ f <= n /\ n <= Final /\ Final \in Nat
  BY CommittedFacts
<1>2. log[1].index = f /\ LastIndex(log) = n /\ GlobalLogLen(log) = n + 1
  BY <1>1, StretchFacts DEF Holds
<1>3. ASSUME log = Entries(0, 0) PROVE f = 0 /\ n = 0
  <2>1. Holds(Stretch(0, 0), 0, 0)
    BY CommittedFacts, StretchFacts
  <2>2. log = Stretch(0, 0)
    BY <1>3, StretchStart
  <2>3. log[1].index = 0 /\ LastIndex(log) = 0
    BY <2>1, <2>2 DEF Holds
  <2> QED
    BY <1>2, <2>3
<1> QED
  BY <1>1, <1>2, <1>3, StretchStart

LEMMA InitLog == Init => LogInv /\ ControlInv
<1> SUFFICES ASSUME Init PROVE LogInv /\ ControlInv
  OBVIOUS
<1>1. 0 \in 0..Final /\ Final \in Nat
  BY CommittedFacts
<1>2. CommandsUpTo(0) = 0
  BY UpToStep
<1>3. NoMsg \in MsgUpTo(CommandsUpTo(0))
  BY <1>2, SimpleMsgs
<1>4. LogAt(0, 0)
  <2>1. log = Stretch(0, 0)
    BY StretchStart DEF Init
  <2>2. applyQueue \in Seq(MsgUpTo(CommandsUpTo(0)))
    BY EmptySeq DEF Init
  <2>3. position \in 0..CommandsUpTo(0) /\ snapshotIndex = CommandsUpTo(0)
    BY <1>2 DEF Init
  <2> QED
    BY <1>3, <2>1, <2>2, <2>3 DEF Init, LogAt
<1>5. ControlInv
  <2>1. reboots \in 0..MaxReboots /\ commitIndex \in 0..Final
    BY <1>1, CommittedAssumption DEF Init
  <2> QED
    BY <2>1 DEF Init, ControlInv
<1> QED
  BY <1>1, <1>4, <1>5 DEF LogInv

(* Steps that leave the log alone and give no message.                     *)
LEMMA LogAlone ==
    ASSUME NEW f \in 0..Final, NEW n \in f..Final, LogAt(f, n),
           UNCHANGED <<log, snapshotIndex, lastApplied>>,
           installer' \in {installer, "idle"},
           applyQueue' \in Seq(MsgUpTo(CommandsUpTo(n))),
           sending' \in MsgUpTo(CommandsUpTo(n)),
           received' \in MsgUpTo(CommandsUpTo(n)),
           position' \in 0..CommandsUpTo(n)
    PROVE  LogInv'
<1>1. LogAt(f, n)'
  BY DEF LogAt
<1> QED
  BY <1>1 DEF LogInv

LEMMA ApplierLog ==
    ASSUME LogInv, Applier
    PROVE  LogInv'
<1> USE DEF raftVars, serviceVars
<1>1. PICK f \in 0..Final : \E n \in f..Final : LogAt(f, n)
  BY DEF LogInv
<1>2. PICK n \in f..Final : LogAt(f, n)
  BY <1>1
<1>3. PICK M : M = MsgUpTo(CommandsUpTo(n))
  OBVIOUS
<1>4. applyQueue \in Seq(M) /\ sending \in M /\ received \in M /\ position \in 0..CommandsUpTo(n)
  BY <1>2, <1>3 DEF LogAt
<1>5. NoMsg \in M
  <2>1. n \in Nat /\ 0 \in 0..CommandsUpTo(n)
    BY CommittedFacts, UpToStep
  <2> QED
    BY <1>3, <2>1, SimpleMsgs
<1>6. CASE ApplierWait \/ ApplierWake \/ ApplierUnlock
  BY <1>2, <1>3, <1>4, <1>6, LogAlone DEF ApplierWait, ApplierWake, ApplierUnlock
<1>7. CASE Dequeue
  <2>1. applyQueue' \in Seq(M) /\ sending' \in M
    BY <1>4, <1>7, HeadTailProperties DEF Dequeue
  <2> QED
    BY <1>2, <1>3, <1>4, <1>7, <2>1, LogAlone DEF Dequeue
<1>8. CASE Send
  BY <1>2, <1>3, <1>4, <1>5, <1>8, LogAlone DEF Send
<1> QED
  BY <1>6, <1>7, <1>8 DEF Applier

(* An entry that becomes applied is in the log, so its command is counted. *)
LEMMA EnqueuerLog ==
    ASSUME LogInv, ControlInv, Enqueuer
    PROVE  LogInv'
<1> USE DEF raftVars, threadVars, serviceVars
<1>1. PICK f \in 0..Final : \E n \in f..Final : LogAt(f, n)
  BY DEF LogInv
<1>2. PICK n \in f..Final : LogAt(f, n)
  BY <1>1
<1>3. /\ applyQueue \in Seq(MsgUpTo(CommandsUpTo(n)))
      /\ sending \in MsgUpTo(CommandsUpTo(n)) /\ received \in MsgUpTo(CommandsUpTo(n))
      /\ position \in 0..CommandsUpTo(n) /\ log = Stretch(f, n)
      /\ snapshotIndex = CommandsUpTo(f)
  BY <1>2 DEF LogAt
<1>4. /\ f \in Nat /\ n \in Nat /\ f <= n /\ n <= Final /\ Final \in Nat
      /\ log[1].index = f /\ GlobalLogLen(log) = n + 1
  BY <1>3, LogSeen
<1>5. CASE EnqueuerWait \/ EnqueuerWake \/ EnqueueDone
  BY <1>2, <1>3, <1>5, LogAlone DEF EnqueuerWait, EnqueuerWake, EnqueueDone
<1>6. ASSUME enqueuer = "loop", IsNext(lastApplied + 1)
      PROVE  lastApplied + 1 \in f..n /\ installer = "idle"
  <2>1. lastApplied + 1 < n + 1 /\ (lastApplied + 1) - f > 0
    BY <1>4, <1>6 DEF IsNext, LocalIndex
  <2>2. lastApplied \in Nat
    BY <1>2, <1>4 DEF LogAt
  <2>3. installer = "idle"
    BY <1>6 DEF ControlInv
  <2> QED
    BY <1>4, <2>1, <2>2, <2>3
<1>7. CASE EnqueueCommand
  <2>1. lastApplied + 1 \in f..n /\ installer = "idle"
    BY <1>6, <1>7 DEF EnqueueCommand
  <2>2. PICK i \in Nat : i = lastApplied + 1 /\ f <= i /\ i <= n
    BY <1>4, <2>1
  <2>3. ExternalIndex(log, snapshotIndex, i) = CommandsUpTo(i)
    BY <1>3, <1>4, <2>2, ExternalOfStretch
  <2>4. CommandsUpTo(i) \in 0..CommandsUpTo(n)
    BY <1>4, <2>2, UpToStep, UpToMonotone
  <2>5. CommandMsg(CommandsUpTo(i)) \in MsgUpTo(CommandsUpTo(n))
    BY <1>4, <2>4, SimpleMsgs
  <2>6. applyQueue' = Append(applyQueue, CommandMsg(CommandsUpTo(i)))
    BY <1>7, <2>2, <2>3 DEF EnqueueCommand
  <2>7. applyQueue' \in Seq(MsgUpTo(CommandsUpTo(n)))
    BY <1>3, <2>5, <2>6, AppendProperties
  <2>8. /\ UNCHANGED <<log, snapshotIndex, installer, sending, received, position>>
        /\ lastApplied' = i
    BY <1>7, <2>2 DEF EnqueueCommand
  <2>9. LogAt(f, n)'
    BY <1>3, <2>1, <2>2, <2>7, <2>8 DEF LogAt
  <2> QED
    BY <2>9 DEF LogInv
<1>8. CASE SkipNoop
  <2>1. lastApplied + 1 \in f..n /\ installer = "idle"
    BY <1>6, <1>8 DEF SkipNoop
  <2>2. /\ UNCHANGED <<log, snapshotIndex, installer, applyQueue, sending, received, position>>
        /\ lastApplied' = lastApplied + 1
    BY <1>8 DEF SkipNoop
  <2>3. LogAt(f, n)'
    BY <1>3, <2>1, <2>2 DEF LogAt
  <2> QED
    BY <2>3 DEF LogInv
<1> QED
  BY <1>5, <1>7, <1>8 DEF Enqueuer

(* Steps that make the log longer.                                         *)
LEMMA LogGrows ==
    ASSUME NEW f \in 0..Final, NEW n \in f..Final, LogAt(f, n),
           NEW m \in n..Final, log' = log \o Entries(n + 1, m), m > n \/ lastApplied \in f..n,
           UNCHANGED <<snapshotIndex, lastApplied, applyQueue, installer, sending, received,
                       position>>
    PROVE  LogInv'
<1>1. /\ f \in Nat /\ n \in Nat /\ m \in Nat /\ f <= n /\ n <= m /\ m <= Final
      /\ m \in f..Final
  BY CommittedFacts
<1>2. log' = Stretch(f, m)
  BY <1>1, StretchConcat DEF LogAt
<1>3. /\ applyQueue' \in Seq(MsgUpTo(CommandsUpTo(m)))
      /\ sending' \in MsgUpTo(CommandsUpTo(m)) /\ received' \in MsgUpTo(CommandsUpTo(m))
      /\ position' \in 0..CommandsUpTo(m)
  BY <1>1, Wider DEF LogAt
<1>4. lastApplied' \in f..m
  BY <1>1 DEF LogAt
<1>5. LogAt(f, m)'
  BY <1>2, <1>3, <1>4 DEF LogAt
<1> QED
  BY <1>1, <1>5 DEF LogInv

(* Snapshot() cuts the log at the entry up to which there are as many      *)
(* commands as the service has seen.                                       *)
LEMMA ServiceLog ==
    ASSUME LogInv, ControlInv, Service
    PROVE  LogInv'
<1> USE DEF raftVars, threadVars, serviceVars
<1>1. PICK f \in 0..Final : \E n \in f..Final : LogAt(f, n)
  BY DEF LogInv
<1>2. PICK n \in f..Final : LogAt(f, n)
  BY <1>1
<1>3. /\ applyQueue \in Seq(MsgUpTo(CommandsUpTo(n)))
      /\ sending \in MsgUpTo(CommandsUpTo(n)) /\ received \in MsgUpTo(CommandsUpTo(n))
      /\ position \in 0..CommandsUpTo(n) /\ log = Stretch(f, n)
      /\ snapshotIndex = CommandsUpTo(f)
  BY <1>2 DEF LogAt
<1>4. /\ f \in Nat /\ n \in Nat /\ f <= n /\ n <= Final /\ Final \in Nat
      /\ log[1].index = f /\ GlobalLogLen(log) = n + 1
  BY <1>3, LogSeen
<1>5. received.index \in 0..CommandsUpTo(n) /\ NoMsg \in MsgUpTo(CommandsUpTo(n))
  BY <1>3, <1>4, SimpleMsgs DEF MsgUpTo
<1>6. CASE ServiceApply
  <2>1. /\ received' \in MsgUpTo(CommandsUpTo(n)) /\ position' \in 0..CommandsUpTo(n)
        /\ UNCHANGED <<log, snapshotIndex, lastApplied, installer, applyQueue, sending>>
    BY <1>3, <1>5, <1>6 DEF ServiceApply
  <2> QED
    BY <1>2, <1>3, <2>1, LogAlone
<1>7. CASE HandlerLock
  BY <1>2, <1>3, <1>7, LogAlone DEF HandlerLock
<1>8. CASE ServiceSnapshot
  <2>1. PICK e, g : e = received.index /\ g = InternalIndex(log, snapshotIndex, e)
    OBVIOUS
  <2>2. /\ UNCHANGED <<lastApplied, applyQueue, installer, sending, position>>
        /\ received' = NoMsg /\ installer = "idle"
    BY <1>8 DEF ServiceSnapshot, MuFree
  <2>3. CASE IsRefused(e, g)
    <3>1. log' = log /\ snapshotIndex' = snapshotIndex
      BY <1>8, <2>1, <2>3 DEF ServiceSnapshot
    <3> QED
      BY <1>2, <1>3, <1>5, <2>2, <3>1, LogAlone
  <2>4. CASE ~IsRefused(e, g)
    <3>1. log' = CutAt(log, g) /\ snapshotIndex' = e
      BY <1>8, <2>1, <2>4 DEF ServiceSnapshot
    <3>2. /\ e \in Nat /\ CommandsUpTo(f) \in Nat /\ CommandsUpTo(n) \in Nat
          /\ CommandsUpTo(f) < e /\ e <= CommandsUpTo(n) /\ ~(lastApplied < g)
      <4>1. CommandsUpTo(f) \in Nat /\ CommandsUpTo(n) \in Nat
        BY <1>4, UpToStep
      <4>2. e \in 0..CommandsUpTo(n) /\ ~(CommandsUpTo(f) >= e) /\ ~(lastApplied < g)
        BY <1>3, <1>5, <2>1, <2>4 DEF IsRefused
      <4> QED
        BY <4>1, <4>2
    <3>3. g \in f..n /\ CommandsUpTo(g) = e
      <4>1. CommandsUpTo(f) <= e
        BY <3>2
      <4> QED
        BY <1>3, <1>4, <2>1, <3>2, <4>1, InternalOfStretch
    <3>4. n # 0
      <4>1. ASSUME n = 0 PROVE f = n
        BY <1>4, <4>1
      <4> QED
        BY <3>2, <4>1
    <3>5. lastApplied \in g..n
      BY <1>2, <1>4, <3>2, <3>3, <3>4 DEF LogAt
    <3>6. log' = Stretch(g, n)
      <4>1. g \in Nat /\ f <= g /\ g <= n
        BY <1>4, <3>3
      <4> QED
        BY <1>3, <1>4, <3>1, <4>1, StretchCut
    <3>7. LogAt(g, n)'
      BY <1>3, <1>5, <2>2, <3>1, <3>3, <3>5, <3>6 DEF LogAt
    <3>8. g \in 0..Final /\ n \in g..Final
      BY <1>4, <3>3
    <3> QED
      BY <3>7, <3>8 DEF LogInv
  <2> QED
    BY <2>3, <2>4
<1>9. CASE HandlerStart
  <2>1. UNCHANGED <<snapshotIndex, lastApplied, applyQueue, installer, sending, received, position>>
    BY <1>9 DEF HandlerStart
  <2>2. CASE log' = log
    BY <1>2, <1>3, <2>1, <2>2, LogAlone
  <2>3. CASE log' # log
    <3>1. log' = log \o Entries(n + 1, n + 1) /\ n + 1 <= Final
      BY <1>4, <1>9, <2>3 DEF HandlerStart
    <3>2. n + 1 \in n..Final /\ n + 1 > n
      BY <1>4, <3>1
    <3> QED
      BY <1>2, <2>1, <3>1, <3>2, LogGrows
  <2> QED
    BY <2>2, <2>3
<1> QED
  BY <1>6, <1>7, <1>8, <1>9 DEF Service

(* A snapshot that is installed ends after the one before it: entries that *)
(* it does not reach stay, and a message on its way may be about them.     *)
LEMMA InstallLog ==
    ASSUME LogInv, NEW g \in 0..Final, InstallSnapshot(g)
    PROVE  LogInv'
<1> USE DEF serviceVars
<1>1. PICK f \in 0..Final : \E n \in f..Final : LogAt(f, n)
  BY DEF LogInv
<1>2. PICK n \in f..Final : LogAt(f, n)
  BY <1>1
<1>3. /\ sending \in MsgUpTo(CommandsUpTo(n)) /\ received \in MsgUpTo(CommandsUpTo(n))
      /\ position \in 0..CommandsUpTo(n) /\ log = Stretch(f, n)
      /\ snapshotIndex = CommandsUpTo(f)
  BY <1>2 DEF LogAt
<1>4. /\ f \in Nat /\ n \in Nat /\ f <= n /\ n <= Final /\ Final \in Nat
      /\ g \in Nat /\ g <= Final
  BY <1>3, LogSeen
<1>5. f <= g
  <2>1. CommandsUpTo(g) > CommandsUpTo(f)
    BY <1>3 DEF InstallSnapshot
  <2>2. CommandsUpTo(g) \in Nat /\ CommandsUpTo(f) \in Nat
    BY <1>4, UpToStep
  <2>3. ASSUME g <= f PROVE FALSE
    <3>1. CommandsUpTo(g) <= CommandsUpTo(f)
      BY <1>4, <2>3, UpToMonotone
    <3> QED
      BY <2>1, <2>2, <3>1
  <2> QED
    BY <1>4, <2>3
<1>6. PICK m \in Nat : /\ m = IF g <= n THEN n ELSE g
                       /\ n <= m /\ g <= m /\ m <= Final /\ m \in g..Final
  BY <1>4
<1>7. Entries(g, g)[1] = Committed[g + 1]
  <2>1. g <= g + 1 /\ 1 \in 1..(g - g + 1)
    BY <1>4
  <2>2. \A i \in 1..(g - g + 1) : Entries(g, g)[i] = Committed[g + i]
    BY <1>4, <2>1, EntriesFacts
  <2> QED
    BY <2>1, <2>2
<1>8. log' = Stretch(g, m)
  <2>1. log' = Installed(log, g, Committed[g + 1].term)
    BY <1>7 DEF InstallSnapshot
  <2> QED
    BY <1>3, <1>4, <1>5, <1>6, <2>1, StretchInstalled
<1>9. /\ sending' \in MsgUpTo(CommandsUpTo(m)) /\ received' \in MsgUpTo(CommandsUpTo(m))
      /\ position' \in 0..CommandsUpTo(m) /\ applyQueue' \in Seq(MsgUpTo(CommandsUpTo(m)))
  <2>1. UNCHANGED <<sending, received, position>> /\ applyQueue' = <<>>
    BY DEF InstallSnapshot
  <2> QED
    BY <1>3, <1>4, <1>6, <2>1, Wider, EmptySeq
<1>10. LogAt(g, m)'
  <2>1. lastApplied' = g /\ snapshotIndex' = CommandsUpTo(g) /\ g \in g..m
    BY <1>4, <1>6 DEF InstallSnapshot
  <2> QED
    BY <1>8, <1>9, <2>1 DEF LogAt
<1> QED
  BY <1>6, <1>10 DEF LogInv

LEMMA PeerLog ==
    ASSUME LogInv, ControlInv, Peer
    PROVE  LogInv'
<1> USE DEF raftVars, threadVars, serviceVars
<1>1. PICK f \in 0..Final : \E n \in f..Final : LogAt(f, n)
  BY DEF LogInv
<1>2. PICK n \in f..Final : LogAt(f, n)
  BY <1>1
<1>3. /\ applyQueue \in Seq(MsgUpTo(CommandsUpTo(n)))
      /\ sending \in MsgUpTo(CommandsUpTo(n)) /\ received \in MsgUpTo(CommandsUpTo(n))
      /\ position \in 0..CommandsUpTo(n) /\ log = Stretch(f, n)
      /\ snapshotIndex = CommandsUpTo(f)
  BY <1>2 DEF LogAt
<1>4. /\ f \in Nat /\ n \in Nat /\ f <= n /\ n <= Final /\ Final \in Nat
      /\ log[1].index = f /\ GlobalLogLen(log) = n + 1 /\ LastIndex(log) = n
      /\ log = Entries(0, 0) <=> f = 0 /\ n = 0
  BY <1>3, LogSeen
<1>5. /\ snapshotIndex \in 0..CommandsUpTo(n)
      /\ NoMsg \in MsgUpTo(CommandsUpTo(n))
      /\ SnapshotMsg(snapshotIndex) \in MsgUpTo(CommandsUpTo(n))
  <2>1. snapshotIndex \in 0..CommandsUpTo(n)
    BY <1>3, <1>4, UpToStep, UpToMonotone
  <2> QED
    BY <1>4, <2>1, SimpleMsgs
<1>6. ASSUME NEW last \in 0..Final, NEW commit \in 0..Final, AppendEntries(last, commit)
      PROVE  LogInv'
  <2>1. /\ UNCHANGED <<snapshotIndex, lastApplied, applyQueue, installer, sending, received,
                       position>>
        /\ last \in n..Final /\ log' = log \o Entries(n + 1, last)
    BY <1>4, <1>6 DEF AppendEntries
  <2>2. CASE last > n \/ lastApplied \in f..n
    BY <1>2, <2>1, <2>2, LogGrows
  <2>3. CASE ~(last > n \/ lastApplied \in f..n)
    <3>1. last = n
      BY <1>4, <2>1, <2>3
    <3>2. log' = Stretch(f, n)
      <4>1. n <= n
        BY <1>4
      <4> QED
        BY <1>3, <1>4, <2>1, <3>1, <4>1, StretchConcat
    <3> QED
      BY <1>2, <1>3, <2>1, <3>2, LogAlone
  <2> QED
    BY <2>2, <2>3
<1>7. ASSUME NEW g \in 0..Final, InstallSnapshot(g) PROVE LogInv'
  BY <1>7, InstallLog
<1>8. CASE EnqueueSnapshot
  <2>1. applyQueue' \in Seq(MsgUpTo(CommandsUpTo(n)))
    BY <1>3, <1>5, <1>8, AppendProperties DEF EnqueueSnapshot
  <2> QED
    BY <1>2, <1>3, <1>8, <2>1, LogAlone DEF EnqueueSnapshot
<1>9. CASE BecomeLeader
  <2>1. /\ UNCHANGED <<snapshotIndex, lastApplied, applyQueue, installer, sending, received,
                       position>>
        /\ n + 1 <= Final /\ log' = log \o Entries(n + 1, n + 1)
    BY <1>4, <1>9 DEF BecomeLeader
  <2>2. n + 1 \in n..Final /\ n + 1 > n
    BY <1>4, <2>1
  <2> QED
    BY <1>2, <2>1, <2>2, LogGrows
<1>10. CASE StepDown \/ StopServing \/ CancelTasks \/ CommitCheck \/ HeartBeatEnqueue
         \/ HeartBeatApply
  BY <1>2, <1>3, <1>10, LogAlone
     DEF StepDown, StopServing, CancelTasks, CommitCheck, HeartBeatEnqueue, HeartBeatApply
<1>11. CASE Reboot
  <2>1. applyQueue' \in Seq(MsgUpTo(CommandsUpTo(n)))
    <3>1. <<SnapshotMsg(snapshotIndex)>> \in Seq(MsgUpTo(CommandsUpTo(n)))
      BY <1>5
    <3> QED
      BY <1>11, <3>1, EmptySeq DEF Reboot, Restored
  <2>2. /\ UNCHANGED <<log, snapshotIndex, installer>>
        /\ sending' = NoMsg /\ received' = NoMsg /\ position' = 0 /\ installer = "idle"
        /\ lastApplied' = f \/ (f = 0 /\ n = 0 /\ lastApplied' = 1)
    BY <1>4, <1>11 DEF Reboot
  <2>3. position' \in 0..CommandsUpTo(n) /\ f \in f..n
    BY <1>4, <1>5, <2>2, UpToStep
  <2>4. LogAt(f, n)'
    BY <1>3, <1>5, <2>1, <2>2, <2>3 DEF LogAt
  <2> QED
    BY <2>4 DEF LogInv
<1> QED
  BY <1>6, <1>7, <1>8, <1>9, <1>10, <1>11 DEF Peer

(* Who may hold rf.mu while a snapshot is being installed.                 *)
LEMMA ControlStep ==
    ASSUME LogInv, ControlInv, Next
    PROVE  ControlInv'
<1> USE DEF raftVars, threadVars, serviceVars, ControlInv
<1>1. CASE Applier
  BY <1>1 DEF Applier, ApplierWait, ApplierWake, ApplierUnlock, Dequeue, Send
<1>2. CASE Enqueuer
  BY <1>2 DEF Enqueuer, EnqueuerWait, EnqueuerWake, EnqueueDone, EnqueueCommand, SkipNoop, MuFree,
              Signalled
<1>3. CASE Service
  BY <1>3 DEF Service, ServiceApply, ServiceSnapshot, HandlerLock, HandlerStart
<1>4. CASE Peer
  <2>1. LastIndex(log) \in 0..Final /\ Final \in Nat
    BY LogSeen DEF LogInv, LogAt
  <2>2. ASSUME NEW last \in 0..Final, NEW commit \in 0..Final, AppendEntries(last, commit)
        PROVE  ControlInv'
    BY <2>2 DEF AppendEntries, Signalled
  <2>3. ASSUME NEW g \in 0..Final, InstallSnapshot(g) PROVE ControlInv'
    BY <2>3 DEF InstallSnapshot, Signalled, MuFree
  <2>4. CASE CommitCheck
    BY <2>1, <2>4 DEF CommitCheck, Signalled
  <2>5. CASE BecomeLeader \/ StepDown \/ StopServing \/ CancelTasks
    BY <2>5 DEF BecomeLeader, StepDown, StopServing, CancelTasks
  <2>6. CASE EnqueueSnapshot \/ HeartBeatEnqueue \/ HeartBeatApply
    BY <2>6 DEF EnqueueSnapshot, HeartBeatEnqueue, HeartBeatApply, BeatSignal, Signalled
  <2>7. CASE Reboot
    <3>1. reboots' \in 0..MaxReboots /\ commitIndex' \in 0..Final
      BY <2>1, <2>7, CommittedAssumption DEF Reboot
    <3> QED
      BY <2>7, <3>1 DEF Reboot
  <2> QED
    BY <1>4, <2>2, <2>3, <2>4, <2>5, <2>6, <2>7 DEF Peer
<1> QED
  BY <1>1, <1>2, <1>3, <1>4 DEF Next

LEMMA LogStep ==
    ASSUME LogInv, ControlInv, [Next]_vars
    PROVE  LogInv' /\ ControlInv'
<1>1. CASE UNCHANGED vars
  BY <1>1 DEF vars, LogInv, LogAt, ControlInv
<1>2. CASE Next
  BY <1>2, ApplierLog, EnqueuerLog, ServiceLog, PeerLog, ControlStep DEF Next
<1> QED
  BY <1>1, <1>2

(* The log of the peer is at all times a stretch of the committed entries  *)
(* that holds the entry last applied, whatever snapshots the service takes *)
(* and the leader sends, in whatever order, and through every reboot.      *)
THEOREM TypeCorrect == Spec => []TypeOK
<1>1. LogInv /\ ControlInv => TypeOK
  <2> SUFFICES ASSUME LogInv, ControlInv PROVE TypeOK
    OBVIOUS
  <2>1. PICK f \in 0..Final : \E n \in f..Final : LogAt(f, n)
    BY DEF LogInv
  <2>2. PICK n \in f..Final : LogAt(f, n)
    BY <2>1
  <2>3. /\ f \in Nat /\ n \in Nat /\ f <= n /\ n <= Final /\ Final \in Nat /\ Final >= 1
        /\ log[1].index = f /\ LastIndex(log) = n
        /\ log = Entries(0, 0) <=> f = 0 /\ n = 0
    BY <2>2, LogSeen, CommittedFacts DEF LogAt
  <2>4. log = CutAt(Entries(0, n), f)
    BY <2>2, <2>3, StretchIsCut DEF LogAt
  <2>5. /\ lastApplied >= log[1].index /\ lastApplied <= Final
        /\ lastApplied <= LastIndex(log) \/ (log = Entries(0, 0) /\ lastApplied = 1)
    BY <2>2, <2>3 DEF LogAt
  <2>6. MsgUpTo(CommandsUpTo(Final)) = Msg
    BY DEF MsgUpTo, Msg
  <2>7. /\ applyQueue \in Seq(Msg) /\ sending \in Msg /\ received \in Msg
        /\ position \in 0..CommandsUpTo(Final)
    BY <2>2, <2>3, <2>6, Wider DEF LogAt
  <2> QED
    BY <2>4, <2>5, <2>7 DEF TypeOK, ControlInv
<1> QED
  BY <1>1, InitLog, LogStep, PTL DEF Spec

(* Whatever snapshot a peer has, from its service or from its leader, it   *)
(* covers exactly the commands up to the entry the log starts at: none is  *)
(* left out and none is applied again (Snapshot, raft.go:244-273, and      *)
(* InstallSnapshot, raft.go:476-543).                                      *)
THEOREM SnapshotFits == Spec => []SnapshotFitsLog
<1>1. LogInv => SnapshotFitsLog
  BY LogSeen DEF LogInv, LogAt, SnapshotFitsLog
<1> QED
  BY <1>1, InitLog, LogStep, PTL DEF Spec

-----------------------------------------------------------------------------
(* What is on its way *)

(* Messages q come in order to a service at position p, and leave it at    *)
(* EndPos.                                                                 *)
Ordered(p, q) ==
    \A k \in 1..Len(q) :
        ~q[k].snapshot => q[k].index = (IF k - 1 = 0 THEN p ELSE q[k - 1].index) + 1
EndPos(p, q) == IF Len(q) = 0 THEN p ELSE q[Len(q)].index

LEMMA InOrderIs ==
    /\ InOrder <=> Ordered(position, Pending)
    /\ Accounted <=> (installer = "idle" => EndPos(position, Pending) = CommandsUpTo(lastApplied))
  BY DEF InOrder, Ordered, PositionAfter, Accounted, EndPos

(* One more message at the end.                                            *)
LEMMA OrderedAppend ==
    ASSUME NEW S, NEW q \in Seq(S), NEW m \in S, NEW p, Ordered(p, q),
           ~m.snapshot => m.index = EndPos(p, q) + 1
    PROVE  Ordered(p, Append(q, m)) /\ EndPos(p, Append(q, m)) = m.index
<1>1. PICK r : r = Append(q, m)
  OBVIOUS
<1>2. /\ Len(r) = Len(q) + 1 /\ Len(q) \in Nat
      /\ \A i \in 1..Len(q) : r[i] = q[i]
      /\ r[Len(q) + 1] = m
  BY <1>1, AppendProperties, LenProperties
<1>3. ASSUME NEW k \in 1..Len(r), ~r[k].snapshot
      PROVE  r[k].index = (IF k - 1 = 0 THEN p ELSE r[k - 1].index) + 1
  <2>1. CASE k \in 1..Len(q)
    <3>1. q[k].index = (IF k - 1 = 0 THEN p ELSE q[k - 1].index) + 1
      BY <1>2, <1>3, <2>1 DEF Ordered
    <3>2. r[k] = q[k] /\ (k - 1 # 0 => r[k - 1] = q[k - 1])
      BY <1>2, <2>1
    <3> QED
      BY <3>1, <3>2
  <2>2. CASE k = Len(q) + 1
    <3>1. r[k] = m /\ m.index = EndPos(p, q) + 1
      BY <1>2, <1>3, <2>2
    <3>2. CASE Len(q) = 0
      BY <2>2, <3>1, <3>2 DEF EndPos
    <3>3. CASE Len(q) # 0
      <4>1. k - 1 = Len(q) /\ k - 1 # 0 /\ r[Len(q)] = q[Len(q)]
        BY <1>2, <2>2, <3>3
      <4> QED
        BY <3>1, <3>3, <4>1 DEF EndPos
    <3> QED
      BY <3>2, <3>3
  <2> QED
    BY <1>2, <2>1, <2>2
<1>4. EndPos(p, r) = m.index
  BY <1>2 DEF EndPos
<1> QED
  BY <1>1, <1>3, <1>4 DEF Ordered

(* The first message is applied.                                           *)
LEMMA OrderedFirst ==
    ASSUME NEW S, NEW q \in Seq(S), NEW m \in S, NEW p, Ordered(p, <<m>> \o q)
    PROVE  Ordered(m.index, q) /\ EndPos(m.index, q) = EndPos(p, <<m>> \o q)
<1>1. PICK r : r = <<m>> \o q
  OBVIOUS
<1>2. PICK s : s = <<m>> /\ s \in Seq(S) /\ Len(s) = 1 /\ s[1] = m
  <2>1. <<m>> \in Seq(S) /\ Len(<<m>>) = 1 /\ <<m>>[1] = m
    OBVIOUS
  <2> QED
    BY <2>1
<1>3. /\ Len(r) = 1 + Len(q) /\ Len(q) \in Nat
      /\ \A i \in 1..(1 + Len(q)) : r[i] = IF i <= 1 THEN s[i] ELSE q[i - 1]
  <2>1. /\ Len(s \o q) = Len(s) + Len(q)
        /\ \A i \in 1..(Len(s) + Len(q)) :
             (s \o q)[i] = IF i <= Len(s) THEN s[i] ELSE q[i - Len(s)]
    BY <1>2, ConcatProperties
  <2> QED
    BY <1>1, <1>2, <2>1, LenProperties
<1>4. r[1] = m /\ \A i \in 1..Len(q) : r[i + 1] = q[i]
  <2>1. r[1] = m
    BY <1>2, <1>3
  <2>2. ASSUME NEW i \in 1..Len(q) PROVE r[i + 1] = q[i]
    <3>1. i + 1 \in 1..(1 + Len(q)) /\ ~(i + 1 <= 1) /\ (i + 1) - 1 = i
      BY <1>3
    <3> QED
      BY <1>3, <3>1
  <2> QED
    BY <2>1, <2>2
<1>5. ASSUME NEW k \in 1..Len(q), ~q[k].snapshot
      PROVE  q[k].index = (IF k - 1 = 0 THEN m.index ELSE q[k - 1].index) + 1
  <2>1. k + 1 \in 1..Len(r) /\ (k + 1) - 1 = k /\ k # 0 /\ r[k + 1] = q[k]
    BY <1>3, <1>4
  <2>2. q[k].index = r[k].index + 1
    BY <1>1, <1>5, <2>1 DEF Ordered
  <2>3. CASE k = 1
    BY <1>4, <2>2, <2>3
  <2>4. CASE k # 1
    <3>1. k - 1 \in 1..Len(q) /\ (k - 1) + 1 = k /\ k - 1 # 0
      BY <1>3, <2>4
    <3>2. r[k] = q[k - 1]
      BY <1>4, <3>1
    <3> QED
      BY <2>2, <3>1, <3>2
  <2> QED
    BY <2>3, <2>4
<1>6. EndPos(m.index, q) = EndPos(p, r)
  <2>1. CASE Len(q) = 0
    BY <1>3, <1>4, <2>1 DEF EndPos
  <2>2. CASE Len(q) # 0
    <3>1. Len(q) \in 1..Len(q) /\ Len(r) = Len(q) + 1 /\ Len(r) # 0
      BY <1>3, <2>2
    <3>2. r[Len(r)] = q[Len(q)]
      BY <1>4, <3>1
    <3> QED
      BY <2>2, <3>1, <3>2 DEF EndPos
  <2> QED
    BY <2>1, <2>2
<1> QED
  BY <1>1, <1>5, <1>6 DEF Ordered

(* The queue is emptied.                                                   *)
LEMMA OrderedPrefix ==
    ASSUME NEW S, NEW q \in Seq(S), NEW r \in Seq(S), NEW p, Ordered(p, q \o r)
    PROVE  Ordered(p, q)
<1>1. PICK c : c = q \o r
  OBVIOUS
<1>2. /\ Len(c) = Len(q) + Len(r) /\ Len(q) \in Nat /\ Len(r) \in Nat
      /\ \A i \in 1..(Len(q) + Len(r)) : c[i] = IF i <= Len(q) THEN q[i] ELSE r[i - Len(q)]
  BY <1>1, ConcatProperties, LenProperties
<1>3. \A i \in 1..Len(q) : i \in 1..Len(c) /\ c[i] = q[i]
  BY <1>2
<1>4. ASSUME NEW k \in 1..Len(q), ~q[k].snapshot
      PROVE  q[k].index = (IF k - 1 = 0 THEN p ELSE q[k - 1].index) + 1
  <2>1. k \in 1..Len(c) /\ c[k] = q[k]
    BY <1>3
  <2>2. q[k].index = (IF k - 1 = 0 THEN p ELSE c[k - 1].index) + 1
    BY <1>1, <1>4, <2>1 DEF Ordered
  <2>3. k - 1 # 0 => c[k - 1] = q[k - 1]
    BY <1>2, <1>3
  <2> QED
    BY <2>2, <2>3
<1> QED
  BY <1>4 DEF Ordered

(* Pending as a received part, an offered part and the queue.              *)
InHand == IF service = "received" THEN <<received>> ELSE <<>>
Offered == IF applier = "send" THEN <<sending>> ELSE <<>>

LEMMA PendingParts ==
    ASSUME NEW S, received \in S, sending \in S, applyQueue \in Seq(S)
    PROVE  /\ Pending = (InHand \o Offered) \o applyQueue
           /\ InHand \in Seq(S) /\ Offered \in Seq(S) /\ InHand \o Offered \in Seq(S)
           /\ Pending \in Seq(S)
<1>1. InHand \in Seq(S) /\ Offered \in Seq(S)
  BY EmptySeq DEF InHand, Offered
<1>2. Pending = (InHand \o Offered) \o applyQueue
  BY DEF Pending, InHand, Offered
<1> QED
  BY <1>1, <1>2, ConcatProperties

LEMMA PendingTyped ==
    ASSUME LogInv
    PROVE  \E S : /\ received \in S /\ sending \in S /\ applyQueue \in Seq(S)
                  /\ \A m \in S : m.index \in Nat
<1>0. PICK f \in 0..Final : \E n \in f..Final : LogAt(f, n)
  BY DEF LogInv
<1>1. PICK n \in f..Final : LogAt(f, n)
  BY <1>0
<1>2. \A m \in MsgUpTo(CommandsUpTo(n)) : m.index \in Nat
  BY DEF MsgUpTo
<1> QED
  BY <1>1, <1>2 DEF LogAt

QueueInv == InOrder /\ Accounted

(* Steps that leave what is on its way alone.                              *)
LEMMA QueueAlone ==
    ASSUME QueueInv, Pending' = Pending, position' = position,
           installer' = "idle" =>
               installer = "idle" /\ CommandsUpTo(lastApplied') = CommandsUpTo(lastApplied)
    PROVE  QueueInv'
<1>1. Ordered(position, Pending)' /\ EndPos(position, Pending)' = EndPos(position, Pending)
  BY InOrderIs DEF QueueInv, Ordered, EndPos
<1>2. InOrder'
  BY <1>1 DEF InOrder, Ordered, PositionAfter
<1>3. Accounted'
  BY <1>1, InOrderIs DEF QueueInv, Accounted, EndPos, PositionAfter
<1> QED
  BY <1>2, <1>3 DEF QueueInv

(* A message goes from the queue to the applier, and on to the service;    *)
(* the service applies it.                                                 *)
LEMMA MessageMoves ==
    ASSUME LogInv, QueueInv, Dequeue \/ Send \/ ServiceApply
    PROVE  QueueInv'
<1> USE DEF raftVars, threadVars, serviceVars
<1>1. PICK S : received \in S /\ sending \in S /\ applyQueue \in Seq(S)
  BY PendingTyped
<1>2. /\ Pending = (InHand \o Offered) \o applyQueue
      /\ InHand \in Seq(S) /\ Offered \in Seq(S)
  BY <1>1, PendingParts
<1>3. Pending' = (InHand' \o Offered') \o applyQueue'
  BY DEF Pending, InHand, Offered
<1>4. CASE Dequeue /\ applyQueue = <<>>
  BY <1>4, QueueAlone DEF Dequeue, Pending
<1>5. CASE Dequeue /\ applyQueue # <<>>
  <2>1. /\ InHand' = InHand /\ Offered = <<>> /\ Offered' = <<Head(applyQueue)>>
        /\ applyQueue' = Tail(applyQueue)
    BY <1>5 DEF Dequeue, InHand, Offered
  <2>2. /\ Head(applyQueue) \in S /\ Tail(applyQueue) \in Seq(S)
        /\ <<Head(applyQueue)>> \in Seq(S)
    BY <1>1, <1>5, HeadTailProperties
  <2>3. <<Head(applyQueue)>> \o Tail(applyQueue) = applyQueue
    BY <1>1, <1>5, <2>2
  <2>4. Pending' = InHand \o (<<Head(applyQueue)>> \o Tail(applyQueue))
    BY <1>2, <1>3, <2>1, <2>2, ConcatAssociative
  <2>5. InHand \o <<>> = InHand
    BY <1>2, ConcatEmptySeq
  <2>6. Pending' = Pending
    BY <1>2, <2>1, <2>3, <2>4, <2>5
  <2> QED
    BY <1>5, <2>6, QueueAlone DEF Dequeue
<1>6. CASE Send
  <2>1. /\ InHand = <<>> /\ Offered = <<sending>> /\ InHand' = <<sending>> /\ Offered' = <<>>
        /\ applyQueue' = applyQueue
    BY <1>6 DEF Send, InHand, Offered
  <2>2. <<sending>> \in Seq(S)
    BY <1>1
  <2>3. <<>> \o <<sending>> = <<sending>> /\ <<sending>> \o <<>> = <<sending>>
    BY <2>2, ConcatEmptySeq
  <2>4. Pending' = Pending
    BY <1>2, <1>3, <2>1, <2>3
  <2> QED
    BY <1>6, <2>4, QueueAlone DEF Send
<1>7. CASE ServiceApply
  <2>1. /\ InHand = <<received>> /\ InHand' = <<>> /\ Offered' = Offered
        /\ applyQueue' = applyQueue /\ position' = received.index
        /\ installer' = installer /\ lastApplied' = lastApplied
    BY <1>7 DEF ServiceApply, InHand, Offered
  <2>2. PICK r : r = Offered \o applyQueue
    OBVIOUS
  <2>3. r \in Seq(S) /\ <<received>> \in Seq(S)
    BY <1>1, <1>2, <2>2, ConcatProperties
  <2>4. Pending = <<received>> \o r
    BY <1>1, <1>2, <2>1, <2>2, <2>3, ConcatAssociative
  <2>5. Pending' = r
    <3>1. <<>> \o Offered = Offered
      BY <1>2, ConcatEmptySeq
    <3> QED
      BY <1>3, <2>1, <2>2, <3>1
  <2>6. Ordered(position, <<received>> \o r)
    BY <2>4, InOrderIs DEF QueueInv
  <2>7. Ordered(received.index, r) /\ EndPos(received.index, r) = EndPos(position, Pending)
    BY <1>1, <2>3, <2>4, <2>6, OrderedFirst
  <2>8. InOrder'
    BY <2>1, <2>5, <2>7 DEF InOrder, Ordered, PositionAfter
  <2>9. Accounted'
    BY <2>1, <2>5, <2>7, InOrderIs DEF QueueInv, Accounted, EndPos, PositionAfter
  <2> QED
    BY <2>8, <2>9 DEF QueueInv
<1> QED
  BY <1>4, <1>5, <1>6, <1>7

(* A message is put at the end of the queue.                               *)
LEMMA MessageAdded ==
    ASSUME QueueInv, NEW S, received \in S, sending \in S, applyQueue \in Seq(S), NEW m \in S,
           applyQueue' = Append(applyQueue, m), applier' = Signalled(applier),
           UNCHANGED <<sending, service, received, position>>,
           ~m.snapshot => m.index = EndPos(position, Pending) + 1,
           installer' = "idle" => m.index = CommandsUpTo(lastApplied')
    PROVE  QueueInv'
<1>1. /\ Pending = (InHand \o Offered) \o applyQueue
      /\ InHand \o Offered \in Seq(S) /\ Pending \in Seq(S)
  BY PendingParts
<1>2. InHand' = InHand /\ Offered' = Offered
  BY DEF InHand, Offered, Signalled
<1>3. Pending' = (InHand \o Offered) \o Append(applyQueue, m)
  <2>1. Pending' = (InHand' \o Offered') \o applyQueue'
    BY DEF Pending, InHand, Offered
  <2> QED
    BY <1>2, <2>1
<1>4. Pending' = Append(Pending, m)
  <2>1. <<m>> \in Seq(S)
    OBVIOUS
  <2>2. Append(applyQueue, m) = applyQueue \o <<m>> /\ Append(Pending, m) = Pending \o <<m>>
    BY <1>1, AppendIsConcat
  <2>3. PICK a : a = InHand \o Offered
    OBVIOUS
  <2>4. a \in Seq(S)
    BY <1>1, <2>3
  <2>5. (a \o applyQueue) \o <<m>> = a \o (applyQueue \o <<m>>)
    BY <2>1, <2>4, ConcatAssociative
  <2> QED
    BY <1>1, <1>3, <2>2, <2>3, <2>5
<1>5. Ordered(position, Append(Pending, m)) /\ EndPos(position, Append(Pending, m)) = m.index
  BY <1>1, InOrderIs, OrderedAppend DEF QueueInv
<1>6. InOrder'
  BY <1>4, <1>5 DEF InOrder, Ordered, PositionAfter
<1>7. Accounted'
  BY <1>4, <1>5 DEF Accounted, EndPos, PositionAfter
<1> QED
  BY <1>6, <1>7 DEF QueueInv

(* The next entry: a command is one more than what lastApplied accounts    *)
(* for, a no-op is none.                                                   *)
LEMMA EnqueuerQueue ==
    ASSUME LogInv, ControlInv, QueueInv, Enqueuer
    PROVE  QueueInv'
<1> USE DEF raftVars, threadVars, serviceVars
<1>1. PICK f \in 0..Final : \E n \in f..Final : LogAt(f, n)
  BY DEF LogInv
<1>2. PICK n \in f..Final : LogAt(f, n)
  BY <1>1
<1>3. /\ applyQueue \in Seq(MsgUpTo(CommandsUpTo(n)))
      /\ sending \in MsgUpTo(CommandsUpTo(n)) /\ received \in MsgUpTo(CommandsUpTo(n))
      /\ log = Stretch(f, n) /\ snapshotIndex = CommandsUpTo(f)
  BY <1>2 DEF LogAt
<1>4. /\ f \in Nat /\ n \in Nat /\ f <= n /\ n <= Final /\ Final \in Nat
      /\ log[1].index = f /\ GlobalLogLen(log) = n + 1
  BY <1>3, LogSeen
<1>5. CASE EnqueuerWait \/ EnqueuerWake \/ EnqueueDone
  BY <1>5, QueueAlone DEF EnqueuerWait, EnqueuerWake, EnqueueDone, Pending
<1>6. CASE EnqueueCommand \/ SkipNoop
  <2>1. enqueuer = "loop" /\ IsNext(lastApplied + 1)
    BY <1>6 DEF EnqueueCommand, SkipNoop
  <2>2. lastApplied \in Nat
    BY <1>2, <1>4 DEF LogAt
  <2>3. PICK i \in Nat : i = lastApplied + 1 /\ f < i /\ f <= i /\ i <= n
    <3>1. lastApplied + 1 < n + 1 /\ (lastApplied + 1) - f > 0
      BY <1>4, <2>1 DEF IsNext, LocalIndex
    <3> QED
      BY <1>4, <2>2, <3>1
  <2>4. At(log, i) = Committed[i + 1]
    BY <1>3, <1>4, <2>3, StretchAt
  <2>5. installer = "idle" /\ EndPos(position, Pending) = CommandsUpTo(lastApplied)
    BY <2>1, InOrderIs DEF ControlInv, QueueInv
  <2>6. /\ CommandsUpTo(lastApplied) \in Nat
        /\ At(log, i).cmd # Noop => CommandsUpTo(i) = CommandsUpTo(lastApplied) + 1
        /\ At(log, i).cmd = Noop => CommandsUpTo(i) = CommandsUpTo(lastApplied)
    <3>1. lastApplied + 2 = i + 1
      BY <2>2, <2>3
    <3> QED
      BY <2>2, <2>3, <2>4, <3>1, UpToStep
  <2>7. CASE EnqueueCommand
    <3>1. ExternalIndex(log, snapshotIndex, i) = CommandsUpTo(i)
      BY <1>3, <1>4, <2>3, ExternalOfStretch
    <3>2. PICK m : m = CommandMsg(CommandsUpTo(i))
      OBVIOUS
    <3>3. m \in MsgUpTo(CommandsUpTo(n)) /\ m.index = CommandsUpTo(i) /\ ~m.snapshot
      <4>1. CommandsUpTo(i) \in 0..CommandsUpTo(n)
        BY <1>4, <2>3, UpToStep, UpToMonotone
      <4> QED
        BY <1>4, <3>2, <4>1, SimpleMsgs DEF CommandMsg
    <3>4. /\ applyQueue' = Append(applyQueue, m) /\ applier' = Signalled(applier)
          /\ UNCHANGED <<sending, service, received, position>> /\ lastApplied' = i
          /\ At(log, i).cmd # Noop
      BY <2>3, <2>7, <3>1, <3>2 DEF EnqueueCommand
    <3>5. m.index = EndPos(position, Pending) + 1 /\ m.index = CommandsUpTo(lastApplied')
      BY <2>5, <2>6, <3>3, <3>4
    <3> QED
      BY <1>3, <3>3, <3>4, <3>5, MessageAdded
  <2>8. CASE SkipNoop
    <3>1. /\ UNCHANGED <<applyQueue, applier, installer, sending, service, received, position>>
          /\ CommandsUpTo(lastApplied') = CommandsUpTo(lastApplied)
      BY <2>3, <2>6, <2>8 DEF SkipNoop
    <3> QED
      BY <2>5, <3>1, QueueAlone DEF Pending
  <2> QED
    BY <1>6, <2>7, <2>8
<1> QED
  BY <1>5, <1>6 DEF Enqueuer

(* A snapshot from the leader replaces what is in the queue, not what is   *)
(* already out of it; after a reboot the service starts from the snapshot. *)
LEMMA PeerQueue ==
    ASSUME LogInv, ControlInv, QueueInv, Peer
    PROVE  QueueInv'
<1> USE DEF raftVars, threadVars, serviceVars
<1>1. PICK f \in 0..Final : \E n \in f..Final : LogAt(f, n)
  BY DEF LogInv
<1>2. PICK n \in f..Final : LogAt(f, n)
  BY <1>1
<1>3. /\ applyQueue \in Seq(MsgUpTo(CommandsUpTo(n)))
      /\ sending \in MsgUpTo(CommandsUpTo(n)) /\ received \in MsgUpTo(CommandsUpTo(n))
      /\ log = Stretch(f, n) /\ snapshotIndex = CommandsUpTo(f)
  BY <1>2 DEF LogAt
<1>4. /\ f \in Nat /\ n \in Nat /\ f <= n /\ log[1].index = f
      /\ log = Entries(0, 0) <=> f = 0 /\ n = 0
  BY <1>3, LogSeen
<1>5. ASSUME NEW last \in 0..Final, NEW commit \in 0..Final, AppendEntries(last, commit)
      PROVE  QueueInv'
  BY <1>5, QueueAlone DEF AppendEntries, Pending
<1>6. ASSUME NEW g \in 0..Final, InstallSnapshot(g) PROVE QueueInv'
  <2>1. /\ Pending = (InHand \o Offered) \o applyQueue
        /\ InHand \o Offered \in Seq(MsgUpTo(CommandsUpTo(n)))
    BY <1>3, PendingParts
  <2>2. Ordered(position, InHand \o Offered)
    BY <1>3, <2>1, InOrderIs, OrderedPrefix DEF QueueInv
  <2>3. Pending' = (InHand \o Offered) \o <<>> /\ position' = position
    BY <1>6 DEF InstallSnapshot, Pending, InHand, Offered
  <2>4. Pending' = InHand \o Offered
    BY <2>1, <2>3, ConcatEmptySeq
  <2>5. InOrder'
    BY <2>2, <2>3, <2>4 DEF InOrder, Ordered, PositionAfter
  <2>6. Accounted'
    BY <1>6 DEF InstallSnapshot, Accounted
  <2> QED
    BY <2>5, <2>6 DEF QueueInv
<1>7. CASE EnqueueSnapshot
  <2>1. PICK m : m = SnapshotMsg(snapshotIndex)
    OBVIOUS
  <2>2. m \in MsgUpTo(CommandsUpTo(n)) /\ m.snapshot /\ m.index = CommandsUpTo(f)
    <3>1. CommandsUpTo(f) \in 0..CommandsUpTo(n)
      BY <1>4, UpToStep, UpToMonotone
    <3> QED
      BY <1>3, <1>4, <2>1, <3>1, SimpleMsgs DEF SnapshotMsg
  <2>3. lastApplied' = f
    BY <1>2, <1>7 DEF EnqueueSnapshot, LogAt
  <2>4. /\ applyQueue' = Append(applyQueue, m) /\ applier' = Signalled(applier)
        /\ UNCHANGED <<sending, service, received, position>>
    BY <1>7, <2>1 DEF EnqueueSnapshot
  <2> QED
    BY <1>3, <2>2, <2>3, <2>4, MessageAdded
<1>8. CASE BecomeLeader \/ StepDown \/ StopServing \/ CancelTasks \/ CommitCheck \/ HeartBeatEnqueue
  BY <1>8, QueueAlone
     DEF BecomeLeader, StepDown, StopServing, CancelTasks, CommitCheck, HeartBeatEnqueue, Pending
<1>9. CASE HeartBeatApply
  <2>1. Pending' = Pending
    BY <1>9 DEF HeartBeatApply, BeatSignal, Signalled, Pending
  <2> QED
    BY <1>9, <2>1, QueueAlone DEF HeartBeatApply
<1>10. CASE Reboot
  <2>1. Pending' = (<<>> \o <<>>) \o Restored /\ position' = 0
    BY <1>10 DEF Reboot, Pending
  <2>2. CommandsUpTo(lastApplied') = CommandsUpTo(f)
    <3>1. CommandsUpTo(0 + 1) = CommandsUpTo(0)
      BY UpToStep, CommittedFacts
    <3>2. lastApplied' = f \/ (f = 0 /\ lastApplied' = 1)
      BY <1>4, <1>10 DEF Reboot
    <3> QED
      BY <3>1, <3>2
  <2>3. CASE snapshotIndex = 0
    <3>1. Pending' = <<>>
      BY <2>1, <2>3 DEF Restored
    <3>2. InOrder'
      BY <3>1 DEF InOrder
    <3>3. Accounted'
      BY <1>3, <2>1, <2>2, <2>3, <3>1 DEF Accounted, PositionAfter
    <3> QED
      BY <3>2, <3>3 DEF QueueInv
  <2>4. CASE snapshotIndex # 0
    <3>1. Pending' = <<SnapshotMsg(snapshotIndex)>>
      BY <2>1, <2>4 DEF Restored
    <3>2. InOrder'
      BY <3>1 DEF InOrder, SnapshotMsg
    <3>3. Accounted'
      BY <1>3, <2>2, <3>1 DEF Accounted, PositionAfter, SnapshotMsg
    <3> QED
      BY <3>2, <3>3 DEF QueueInv
  <2> QED
    BY <2>3, <2>4
<1> QED
  BY <1>5, <1>6, <1>7, <1>8, <1>9, <1>10 DEF Peer

LEMMA QueueStep ==
    ASSUME LogInv, ControlInv, QueueInv, [Next]_vars
    PROVE  QueueInv'
<1>1. CASE UNCHANGED vars
  BY <1>1, QueueAlone DEF vars, Pending
<1>2. CASE ApplierWait \/ ApplierWake \/ ApplierUnlock
  BY <1>2, QueueAlone
     DEF ApplierWait, ApplierWake, ApplierUnlock, Pending, raftVars, serviceVars
<1>3. CASE ServiceSnapshot \/ HandlerLock \/ HandlerStart
  BY <1>3, QueueAlone
     DEF ServiceSnapshot, HandlerLock, HandlerStart, Pending, raftVars, threadVars
<1> QED
  BY <1>1, <1>2, <1>3, MessageMoves, EnqueuerQueue, PeerQueue DEF Next, Applier, Service

LEMMA InitQueue == Init => QueueInv
<1> SUFFICES ASSUME Init PROVE QueueInv
  OBVIOUS
<1>1. Pending = <<>>
  BY DEF Init, Pending
<1>2. CommandsUpTo(1) = 0
  <2>1. CommandsUpTo(0 + 1) = CommandsUpTo(0) /\ CommandsUpTo(0) = 0
    BY UpToStep, CommittedFacts
  <2> QED
    BY <2>1
<1> QED
  BY <1>1, <1>2 DEF Init, QueueInv, InOrder, Accounted, PositionAfter

(* The service gets its commands in order, without gap and without         *)
(* repetition, whatever is on its way when a snapshot is installed: the    *)
(* "apply out of order" exits of handleApplyMsg (kvraft/server.go:181) and *)
(* of the testers' appliers are unreachable (applyEntries,                 *)
(* raft.go:802-845).                                                       *)
THEOREM CommandsInOrder == Spec => []InOrder
<1>1. QueueInv => InOrder
  BY DEF QueueInv
<1> QED
  BY <1>1, InitLog, LogStep, InitQueue, QueueStep, PTL DEF Spec

(* Nothing is lost between lastApplied and the service: what the service   *)
(* has and what is on its way are the commands up to entry lastApplied.    *)
THEOREM AllAccounted == Spec => []Accounted
<1>1. QueueInv => Accounted
  BY DEF QueueInv
<1> QED
  BY <1>1, InitLog, LogStep, InitQueue, QueueStep, PTL DEF Spec

=============================================================================
