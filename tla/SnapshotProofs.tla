--------------------------- MODULE SnapshotProofs ---------------------------
(***************************************************************************)
(* Every manifest is a complete snapshot and no push ever fails on a       *)
(* bundle it relies on, for any history, policy, number of helpers and     *)
(* repositories, and any combination of faults.  SnapshotInv is shown      *)
(* inductive: what is stored is only added to (Inspects is monotone), and  *)
(* what one helper assembles concerns nobody else (OneHelper).  The last   *)
(* part shows that a first publication is encrypted to exactly the         *)
(* recipients of its tip.                                                  *)
(***************************************************************************)
EXTENDS PushProofs, WellFoundedInduction, FiniteSetTheorems

----------------------------------------------------------------------------
(* Natural numbers.                                                        *)

LEMMA LeastNatural ==
    ASSUME NEW S, S \subseteq Nat, S # {}
    PROVE  \E m \in S : \A n \in S : m <= n
<1>. DEFINE R == OpToRel(<, Nat)
<1>1. IsWellFoundedOn(R, Nat)
  BY NatLessThanWellFounded, Zenon
<1>2. \A m, n \in Nat : <<m, n>> \in R <=> m < n
  BY DEF OpToRel
<1>. HIDE DEF R
<1>3. PICK m \in S : \A n \in S : ~(<<n, m>> \in R)
  BY <1>1, WFMin
<1>4. \A n \in S : n \in Nat /\ m \in Nat /\ ~(n < m)
  BY <1>2, <1>3
<1>. QED  BY <1>4

\* Induction for a set of naturals.
LEMMA SetInduction ==
    ASSUME NEW S, S \subseteq Nat, 0 \in S, \A n \in S : n + 1 \in S
    PROVE  S = Nat
<1>1. SUFFICES ASSUME NEW n \in Nat, n \notin S PROVE FALSE
  OBVIOUS
<1>2. PICK m \in Nat \ S : \A k \in Nat \ S : m <= k
  BY <1>1, LeastNatural
<1>3. m # 0 /\ m - 1 \in Nat /\ m - 1 \in S
  BY <1>2
<1>. QED  BY <1>2, <1>3

----------------------------------------------------------------------------
(* Lines of commits.                                                       *)

\* A part of a rising line rises.
LEMMA RisingPart ==
    ASSUME NEW c \in Seq(Commits), Rising(c), NEW m \in Int, NEW n \in Int,
           1 <= m, m <= n, n <= Len(c)
    PROVE  /\ SubSeq(c, m, n) \in Seq(Commits) \ {<<>>}
           /\ Len(SubSeq(c, m, n)) = n - m + 1
           /\ \A i \in 1..Len(SubSeq(c, m, n)) : SubSeq(c, m, n)[i] = c[m + i - 1]
           /\ Last(SubSeq(c, m, n)) = c[n]
           /\ Rising(SubSeq(c, m, n))
<1>. DEFINE u == SubSeq(c, m, n)
<1>1. Len(c) \in Nat /\ m \in Nat /\ n \in Nat /\ m <= n /\ n <= Len(c) /\ 1 <= m
      /\ \A i \in m..n : c[i] \in Commits
  OBVIOUS
<1>2. /\ u \in Seq(Commits) /\ Len(u) = n - m + 1
      /\ \A i \in 1..(n - m + 1) : u[i] = c[m + i - 1]
  BY <1>1, SubSeqProperties
<1>. HIDE DEF u
<1>3. u # <<>> /\ Last(u) = c[n]
  BY <1>1, <1>2 DEF Last
<1>4. Rising(u)
  <2>. SUFFICES ASSUME NEW i \in DOMAIN u, NEW j \in DOMAIN u, i < j
                PROVE  u[i] # u[j] /\ u[i] \in Ancestry[u[j]]
    BY DEF Rising
  <2>1. i \in 1..(n - m + 1) /\ j \in 1..(n - m + 1)
    BY <1>2
  <2>2. m + i - 1 \in 1..Len(c) /\ m + j - 1 \in 1..Len(c) /\ m + i - 1 < m + j - 1
    BY <1>1, <2>1
  <2>3. c[m + i - 1] # c[m + j - 1] /\ c[m + i - 1] \in Ancestry[c[m + j - 1]]
    BY <2>2 DEF Rising
  <2>. QED  BY <1>2, <2>1, <2>3
<1>5. /\ u \in Seq(Commits) \ {<<>>} /\ Len(u) = n - m + 1
      /\ \A i \in 1..Len(u) : u[i] = c[m + i - 1]
  BY <1>1, <1>2, <1>3
<1>. QED  BY <1>3, <1>4, <1>5 DEF u

\* What follows a commit beyond the base on a rising line is beyond it too.
LEMMA BeyondAfter ==
    ASSUME NEW b \in Commits, NEW c \in Commits, NEW d \in Commits,
           Beyond(b, c), c \in Ancestry[d]
    PROVE  Beyond(b, d)
BY HistoryAssumption DEF Beyond, gitBranchContains

\* The boundaries of base..tip rise from beyond the base to the tip.
LEMMA BoundarySound ==
    ASSUME NEW base \in Hashes, NEW t \in Commits, NEW c \in pushBundleCommits(base, t)
    PROVE  /\ c \in Seq(Commits) \ {<<>>}
           /\ Last(c) = t
           /\ Sound([base |-> base, commits |-> c])
<1>. DEFINE line == FirstParents[t]
<1>1. line \in Seq(Commits) \ {<<>>} /\ Last(line) = t /\ Rising(line)
  BY FirstParentAssumption
<1>2. CASE base = Zero
  <2>1. c = line
    BY <1>2 DEF pushBundleCommits
  <2>. QED  BY <1>1, <1>2, <2>1 DEF Sound
<1>3. CASE base # Zero
  <2>1. PICK n \in 1..Len(line) : c = SubSeq(line, n, Len(line)) /\ Beyond(base, line[n])
    BY <1>3 DEF pushBundleCommits
  <2>. HIDE DEF line
  <2>2. Len(line) \in n..Len(line) /\ base \in Commits /\ n \in Nat /\ Len(line) \in Nat
    BY <1>1, <1>3, <2>1 DEF Hashes
  <2>3. /\ c \in Seq(Commits) \ {<<>>}
        /\ Len(c) = Len(line) - n + 1
        /\ \A i \in 1..Len(c) : c[i] = line[n + i - 1]
        /\ Last(c) = line[Len(line)]
        /\ Rising(c)
    <3>1. /\ line \in Seq(Commits) /\ Rising(line) /\ n \in Int /\ Len(line) \in Int
          /\ 1 <= n /\ n <= Len(line) /\ Len(line) <= Len(line)
      BY <1>1, <2>2
    <3>2. c = SubSeq(line, n, Len(line))
      BY <2>1
    <3>3. LET u == SubSeq(line, n, Len(line)) IN
          /\ u \in Seq(Commits) \ {<<>>}
          /\ Len(u) = Len(line) - n + 1
          /\ \A i \in 1..Len(u) : u[i] = line[n + i - 1]
          /\ Last(u) = line[Len(line)]
          /\ Rising(u)
      BY <3>1, RisingPart
    <3>. QED  BY <3>2, <3>3, Zenon
  <2>4. Last(c) = t /\ \A j \in 1..Len(line) : line[j] \in Commits
    <3>1. line[Len(line)] = t
      BY <1>1 DEF Last
    <3>2. \A j \in 1..Len(line) : line[j] \in Commits
      BY <1>1
    <3>. QED  BY <2>3, <3>1, <3>2
  <2>5. ASSUME NEW i \in DOMAIN c PROVE Beyond(base, c[i])
    <3>1. i \in 1..Len(c) /\ n + i - 1 \in 1..Len(line) /\ i \in Nat
      BY <2>2, <2>3
    <3>2. c[i] = line[n + i - 1] /\ line[n] \in Commits /\ line[n + i - 1] \in Commits
      BY <2>3, <2>4, <3>1
    <3>3. CASE i = 1
      BY <2>1, <2>2, <3>2, <3>3
    <3>4. CASE i > 1
      <4>1. line[n] \in Ancestry[line[n + i - 1]]
        BY <1>1, <2>2, <3>1, <3>4 DEF Rising
      <4>. QED  BY <2>1, <2>2, <3>2, <4>1, BeyondAfter
    <3>. QED  BY <3>1, <3>3, <3>4
  <2>. QED  BY <1>3, <2>3, <2>4, <2>5 DEF Sound
<1>. QED  BY <1>2, <1>3

----------------------------------------------------------------------------
(* Chains of descriptors.                                                  *)

LEMMA RefFacts ==
    ASSUME NEW s \in Seq(BundleRefs)
    PROVE  /\ Len(s) \in Nat /\ DOMAIN s = 1..Len(s)
           /\ \A i \in 1..Len(s) :
                /\ s[i] \in BundleRefs
                /\ s[i].key \in BundleKeys
                /\ s[i].key.base \in Hashes
                /\ s[i].key.end \in Commits
           /\ s = <<>> => ChainEnd(s) = Zero
           /\ s # <<>> => Len(s) \in 1..Len(s) /\ ChainEnd(s) = s[Len(s)].key.end
<1>1. Len(s) \in Nat /\ DOMAIN s = 1..Len(s) /\ \A i \in 1..Len(s) : s[i] \in BundleRefs
  OBVIOUS
<1>2. \A i \in 1..Len(s) : s[i].key \in BundleKeys
  BY <1>1 DEF BundleRefs
<1>3. \A i \in 1..Len(s) : s[i].key.base \in Hashes /\ s[i].key.end \in Commits
  BY <1>2 DEF BundleKeys
<1>4. s # <<>> => Len(s) \in 1..Len(s)
  OBVIOUS
<1>. QED  BY <1>1, <1>2, <1>3, <1>4 DEF ChainEnd, Last

\* A chain that is linked and rises has no end twice.
LEMMA DistinctEnds ==
    ASSUME NEW s \in Seq(BundleRefs), Ascending(s),
           \A i \in DOMAIN s :
               /\ s[i].key.base = IF i = 1 THEN Zero ELSE s[i-1].key.end
               /\ s[i].key.base # s[i].key.end
    PROVE  Continuous(s)
<1>. SUFFICES ASSUME NEW i \in DOMAIN s, NEW j \in DOMAIN s, i < j,
                     s[i].key.end = s[j].key.end
              PROVE  FALSE
  <2>1. \A i, j \in DOMAIN s : i < j \/ j < i \/ i = j
    BY RefFacts
  <2>. QED  BY <2>1 DEF Continuous
<1>1. i \in 1..Len(s) /\ j \in 1..Len(s) /\ j - 1 \in 1..Len(s) /\ i <= j - 1 /\ j - 1 <= j
      /\ j # 1 /\ Len(s) \in Nat
  BY RefFacts
<1>2. s[i].key.end \in Ancestry[s[j-1].key.end] /\ s[j-1].key.end \in Ancestry[s[j].key.end]
  BY <1>1 DEF Ascending, gitBranchContains
<1>3. s[i].key.end \in Commits /\ s[j-1].key.end \in Commits
  BY <1>1, RefFacts
<1>4. s[i].key.end = s[j-1].key.end
  BY <1>2, <1>3, HistoryAssumption
<1>. QED  BY <1>1, <1>4

\* What may follow a chain: stored, linked and rising beyond its end.
Continues(s, end) ==
    /\ Ascending(s)
    /\ \A i \in DOMAIN s :
          /\ Inspects(objects, s[i], None)
          /\ s[i].key.base = IF i = 1 THEN end ELSE s[i-1].key.end
          /\ s[i].key.base # Zero => Beyond(s[i].key.base, s[i].key.end)
          /\ end # Zero => Beyond(end, s[i].key.end)

LEMMA Joins ==
    ASSUME NEW ch \in Seq(BundleRefs), NEW s \in Seq(BundleRefs), Intact(ch),
           Continues(s, ChainEnd(ch))
    PROVE  /\ Intact(ch \o s)
           /\ ChainEnd(ch \o s) = IF s = <<>> THEN ChainEnd(ch) ELSE ChainEnd(s)
<1>. DEFINE u == ch \o s
            n == Len(ch)
            m == Len(s)
<1>1. n \in Nat /\ m \in Nat /\ DOMAIN ch = 1..n /\ DOMAIN s = 1..m
  BY RefFacts
<1>2. /\ u \in Seq(BundleRefs) /\ Len(u) = n + m /\ DOMAIN u = 1..(n + m)
      /\ \A i \in 1..n : u[i] = ch[i]
      /\ \A i \in (n+1)..(n+m) : u[i] = s[i - n]
  BY <1>1
<1>. HIDE DEF u
<1>3. /\ \A i \in 1..n : ch[i].key.end \in Commits
      /\ \A i \in 1..m : s[i].key.end \in Commits /\ s[i].key.base \in Hashes
      /\ n = 0 => ChainEnd(ch) = Zero
      /\ n > 0 => ChainEnd(ch) = ch[n].key.end /\ ChainEnd(ch) # Zero
  <2>1. n = 0 => ch = <<>>
    BY <1>1
  <2>2. n > 0 => ch # <<>> /\ n \in 1..n
    BY <1>1
  <2>. QED  BY <2>1, <2>2, RefFacts, HistoryAssumption
<1>4. Ascending(u)
  <2>. SUFFICES ASSUME NEW i \in DOMAIN u, NEW j \in DOMAIN u, i <= j
                PROVE  u[i].key.end \in Ancestry[u[j].key.end]
    BY DEF Ascending, gitBranchContains
  <2>1. i \in 1..(n + m) /\ j \in 1..(n + m)
    BY <1>2
  <2>2. CASE j <= n
    <3>1. i \in 1..n /\ j \in 1..n
      BY <1>1, <2>1, <2>2
    <3>. QED  BY <1>1, <1>2, <3>1 DEF Intact, Ascending, gitBranchContains
  <2>3. CASE i > n
    <3>1. i \in (n+1)..(n+m) /\ j \in (n+1)..(n+m) /\ i - n \in 1..m /\ j - n \in 1..m
          /\ i - n <= j - n
      BY <1>1, <2>1, <2>3
    <3>2. s[i-n].key.end \in Ancestry[s[j-n].key.end]
      BY <1>1, <3>1 DEF Continues, Ascending, gitBranchContains
    <3>. QED  BY <1>2, <3>1, <3>2
  <2>4. CASE i <= n /\ j > n
    <3>1. i \in 1..n /\ n \in 1..n /\ j \in (n+1)..(n+m) /\ j - n \in 1..m /\ n > 0 /\ i <= n
      BY <1>1, <2>1, <2>4
    <3>2. ch[i].key.end \in Ancestry[ch[n].key.end]
      BY <1>1, <3>1 DEF Intact, Ascending, gitBranchContains
    <3>3. ch[n].key.end \in Ancestry[s[j-n].key.end]
      BY <1>1, <1>3, <3>1 DEF Continues, Beyond, gitBranchContains
    <3>4. ch[i].key.end \in Ancestry[s[j-n].key.end]
      BY <1>3, <3>1, <3>2, <3>3, HistoryAssumption
    <3>. QED  BY <1>2, <3>1, <3>4
  <2>. QED  BY <1>1, <2>1, <2>2, <2>3, <2>4
<1>5. ASSUME NEW i \in DOMAIN u
      PROVE  /\ u[i].key.base = IF i = 1 THEN Zero ELSE u[i-1].key.end
             /\ u[i].key.base # u[i].key.end
             /\ Inspects(objects, u[i], None)
             /\ i # 1 => gitBranchContains(u[i].key.end, u[i].key.base)
  <2>1. i \in 1..(n + m)
    BY <1>2
  <2>2. CASE i <= n
    <3>1. i \in 1..n /\ (i # 1 => i - 1 \in 1..n /\ i \in 2..n)
      BY <1>1, <2>1, <2>2
    <3>. QED  BY <1>1, <1>2, <3>1 DEF Intact, Continuous, ChainInspects
  <2>3. CASE i > n
    <3>1. i \in (n+1)..(n+m) /\ i - n \in 1..m /\ u[i] = s[i-n] /\ s[i-n].key.end # Zero
      <4>1. i \in (n+1)..(n+m) /\ i - n \in 1..m
        BY <1>1, <2>1, <2>3
      <4>2. s[i-n].key.end \in Commits
        BY <1>3, <4>1
      <4>. QED  BY <1>2, <4>1, <4>2, HistoryAssumption
    <3>2. u[i].key.base = IF i = 1 THEN Zero ELSE u[i-1].key.end
      <4>1. CASE i = n + 1
        <5>1. i - n = 1 /\ (i # 1 => n > 0 /\ n \in 1..n /\ i - 1 = n) /\ (i = 1 => n = 0)
          BY <1>1, <2>1, <4>1
        <5>2. s[1].key.base = ChainEnd(ch)
          BY <1>1, <3>1, <5>1 DEF Continues
        <5>. QED  BY <1>2, <1>3, <3>1, <5>1, <5>2
      <4>2. CASE i # n + 1
        <5>1. i - 1 \in (n+1)..(n+m) /\ i - n # 1 /\ i # 1 /\ (i - 1) - n = (i - n) - 1
          BY <1>1, <2>1, <2>3, <4>2
        <5>2. s[i-n].key.base = s[(i-n)-1].key.end
          BY <1>1, <3>1, <5>1 DEF Continues
        <5>. QED  BY <1>2, <3>1, <5>1, <5>2
      <4>. QED  BY <4>1, <4>2
    <3>3. Inspects(objects, u[i], None)
          /\ (s[i-n].key.base # Zero => Beyond(s[i-n].key.base, s[i-n].key.end))
      BY <1>1, <3>1 DEF Continues
    <3>4. i # 1 => u[i].key.base # Zero
      <4>1. i # 1 => i - 1 \in 1..(n + m)
        BY <1>1, <2>1
      <4>2. i # 1 => u[i-1].key.end \in Commits
        BY <1>2, <4>1, RefFacts
      <4>. QED  BY <3>2, <4>2, HistoryAssumption
    <3>. QED  BY <3>1, <3>2, <3>3, <3>4 DEF Beyond
  <2>. QED  BY <1>1, <2>1, <2>2, <2>3
<1>6. Continuous(u)
  BY <1>2, <1>4, <1>5, DistinctEnds
<1>7. ChainInspects(objects, u)
  <2>1. \A i \in 2..Len(u) : i \in DOMAIN u /\ i # 1
    BY <1>1, <1>2
  <2>. QED  BY <1>5, <2>1 DEF ChainInspects
<1>8. ChainEnd(u) = IF s = <<>> THEN ChainEnd(ch) ELSE ChainEnd(s)
  <2>1. CASE s = <<>>
    BY <2>1 DEF u
  <2>2. CASE s # <<>>
    <3>1. m \in 1..m /\ n + m \in (n+1)..(n+m) /\ (n + m) - n = m /\ u # <<>>
      BY <1>1, <1>2, <2>2
    <3>2. ChainEnd(u) = u[n + m].key.end /\ u[n + m] = s[m]
      BY <1>2, <3>1, RefFacts
    <3>3. ChainEnd(s) = s[m].key.end
      BY <2>2, RefFacts
    <3>. QED  BY <2>2, <3>2, <3>3
  <2>. QED  BY <2>1, <2>2
<1>. QED  BY <1>4, <1>6, <1>7, <1>8 DEF Intact, u

\* One more bundle.
LEMMA Extends ==
    ASSUME NEW ch \in Seq(BundleRefs), NEW ref \in BundleRefs, Intact(ch),
           Inspects(objects, ref, None),
           ref.key.base = ChainEnd(ch),
           ChainEnd(ch) # Zero => Beyond(ChainEnd(ch), ref.key.end)
    PROVE  /\ Intact(Append(ch, ref))
           /\ ChainEnd(Append(ch, ref)) = ref.key.end
<1>. DEFINE s == <<ref>>
<1>1. /\ s \in Seq(BundleRefs) /\ s # <<>> /\ Append(ch, ref) = ch \o s
      /\ DOMAIN s = {1} /\ s[1] = ref /\ Len(s) = 1
  OBVIOUS
<1>. HIDE DEF s
<1>2. ref.key.end \in Commits
  BY DEF BundleRefs, BundleKeys
<1>3. Ascending(s)
  BY <1>1, <1>2, HistoryAssumption DEF Ascending, gitBranchContains
<1>4. Continues(s, ChainEnd(ch))
  BY <1>1, <1>3 DEF Continues
<1>5. ChainEnd(s) = ref.key.end
  BY <1>1, RefFacts
<1>. QED  BY <1>1, <1>4, <1>5, Joins

\* The first bundles of a chain are a chain.
LEMMA PrefixIntact ==
    ASSUME NEW s \in Seq(BundleRefs), Intact(s), NEW n \in 0..Len(s)
    PROVE  LET u == SubSeq(s, 1, n) IN
           /\ u \in Seq(BundleRefs) /\ Len(u) = n
           /\ \A i \in 1..n : i \in 1..Len(s) /\ u[i] = s[i]
           /\ Intact(u)
<1>. DEFINE u == SubSeq(s, 1, n)
<1>1. n \in Nat /\ Len(s) \in Nat /\ DOMAIN s = 1..Len(s)
      /\ \A i \in 1..n : i \in 1..Len(s) /\ s[i] \in BundleRefs
  BY RefFacts
<1>2. u \in Seq(BundleRefs) /\ Len(u) = n /\ \A i \in 1..n : u[i] = s[i]
  BY <1>1, SubSeqProperties
<1>. HIDE DEF u
<1>3. DOMAIN u = 1..n
  BY <1>2, RefFacts
<1>4. Ascending(u)
  BY <1>1, <1>2, <1>3 DEF Intact, Ascending
<1>5. \A i \in 1..n : i # 1 => i - 1 \in 1..n
  BY <1>1
<1>6. Continuous(u)
  BY <1>1, <1>2, <1>3, <1>5 DEF Intact, Continuous
<1>7. ChainInspects(objects, u)
  <2>1. \A i \in 2..n : i \in 1..n /\ i \in 2..Len(s)
    BY <1>1
  <2>. QED  BY <1>1, <1>2, <1>3, <2>1 DEF Intact, ChainInspects
<1>. QED  BY <1>1, <1>2, <1>4, <1>6, <1>7 DEF Intact, u

\* Shared and Compatible cut a chain somewhere.
LEMMA PrefixCut ==
    ASSUME NEW s \in Seq(BundleRefs), NEW t
    PROVE  /\ \A u \in Shared(s, t) : \E n \in 0..Len(s) : u = SubSeq(s, 1, n)
           /\ \A u \in Compatible(s, t) : \E n \in 0..Len(s) :
                /\ u = SubSeq(s, 1, n)
                /\ \A i \in 1..n : compatibleRecipients(s[i].keys, t)
<1>1. \A u \in Shared(s, t) : \E n \in 0..Len(s) : u = SubSeq(s, 1, n)
  BY DEF Shared, PrefixWhile
<1>2. \A u \in Compatible(s, t) : \E n \in 0..Len(s) :
                /\ u = SubSeq(s, 1, n)
                /\ \A i \in 1..n : compatibleRecipients(s[i].keys, t)
  BY DEF Compatible, PrefixWhile
<1>. QED  BY <1>1, <1>2

----------------------------------------------------------------------------
(* Inspection.                                                             *)

\* What is found once is found for ever: bundles are only added.
LEMMA InspectsGrows ==
    ASSUME NEW objs, NEW more, objs \subseteq more
    PROVE  /\ \A ref, t : Inspects(objs, ref, t) => Inspects(more, ref, t)
           /\ \A ch : ChainInspects(objs, ch) => ChainInspects(more, ch)
<1>1. \A ref, t : Inspects(objs, ref, t) => Inspects(more, ref, t)
  BY DEF Inspects, StoredAt
<1>. QED  BY <1>1 DEF ChainInspects

\* A checked descriptor names an object fully, and who can decrypt it.
LEMMA CheckedFacts ==
    ASSUME TypeOK, StoreInv, NEW ref \in BundleRefs, NEW t, Inspects(objects, ref, t)
    PROVE  LET c == Checked(objects, ref) IN
           /\ c \in BundleRefs
           /\ c.key = ref.key
           /\ c.etag # None /\ c.keys # {}
           /\ ref.key.scope \in Commits => c.keys = Recipients(ref.key.scope)
           /\ Inspects(objects, c, None)
<1>. DEFINE o == CHOOSE p \in StoredAt(objects, ref.key) : TRUE
            c == Checked(objects, ref)
<1>1. o \in StoredAt(objects, ref.key)
  BY DEF Inspects
<1>2. o \in objects /\ o.key = ref.key /\ o \in Objects /\ Faithful(o)
  BY <1>1 DEF StoredAt, TypeOK, RemoteTypeOK, StoreInv
<1>3. c = [key |-> ref.key, etag |-> o.etag, keys |-> o.keys]
  BY DEF Checked
<1>. HIDE DEF o, c
<1>4. c.key = ref.key /\ c.etag = o.etag /\ c.keys = o.keys
  BY <1>3
<1>5. o.etag \in ETags /\ None \notin ETags
  BY <1>2, SnapshotsAssumption DEF Objects, ETags
<1>6. c \in BundleRefs
  BY CheckedType DEF TypeOK, RemoteTypeOK, c
<1>7. Inspects(objects, c, None)
  BY <1>2, <1>4 DEF Inspects, StoredAt
<1>8. o.keys # {} /\ (ref.key.scope \in Commits => o.keys = Recipients(ref.key.scope))
  BY <1>2 DEF Faithful
<1>. QED  BY <1>4, <1>5, <1>6, <1>7, <1>8 DEF c

\* An inspected chain with completed descriptors is the same chain, pinned.
LEMMA CheckedIntact ==
    ASSUME TypeOK, StoreInv, NEW s \in Seq(BundleRefs), Intact(s)
    PROVE  LET u == CheckedChain(objects, s) IN
           /\ u \in Seq(BundleRefs) /\ Len(u) = Len(s)
           /\ Intact(u) /\ Pinned(u)
           /\ ChainEnd(u) = ChainEnd(s)
<1>. DEFINE u == CheckedChain(objects, s)
<1>1. Len(s) \in Nat /\ DOMAIN s = 1..Len(s) /\ \A i \in 1..Len(s) : s[i] \in BundleRefs
  BY RefFacts
<1>2. \A i \in 1..Len(s) : Inspects(objects, s[i], None)
  BY <1>1 DEF Intact, ChainInspects
<1>3. u \in Seq(BundleRefs) /\ DOMAIN u = 1..Len(s)
      /\ \A i \in 1..Len(s) : u[i] = Checked(objects, s[i])
  <2>1. u \in Seq(BundleRefs)
    BY <1>1, <1>2, CheckedChainType DEF TypeOK, RemoteTypeOK
  <2>. QED  BY <1>1, <2>1 DEF CheckedChain
<1>. HIDE DEF u
<1>4. Len(u) = Len(s)
  BY <1>1, <1>3, RefFacts
<1>5. \A i \in 1..Len(s) : /\ u[i].key = s[i].key
                           /\ u[i].etag # None /\ u[i].keys # {}
                           /\ Inspects(objects, u[i], None)
  BY <1>1, <1>2, <1>3, CheckedFacts
<1>6. Pinned(u)
  BY <1>3, <1>5 DEF Pinned
<1>7. Ascending(u)
  BY <1>1, <1>3, <1>5 DEF Intact, Ascending
<1>8. \A i \in 1..Len(s) : i # 1 => i - 1 \in 1..Len(s)
  BY <1>1
<1>9. Continuous(u)
  BY <1>1, <1>3, <1>5, <1>8 DEF Intact, Continuous
<1>10. ChainInspects(objects, u)
  <2>1. \A i \in 2..Len(s) : i \in 1..Len(s)
    BY <1>1
  <2>. QED  BY <1>1, <1>3, <1>4, <1>5, <2>1 DEF Intact, ChainInspects
<1>11. ChainEnd(u) = ChainEnd(s)
  <2>1. u = <<>> <=> s = <<>>
    BY <1>1, <1>3, <1>4
  <2>. QED  BY <1>1, <1>3, <1>4, <1>5, <2>1, RefFacts
<1>. QED  BY <1>3, <1>4, <1>6, <1>7, <1>9, <1>10, <1>11 DEF Intact, u

----------------------------------------------------------------------------
(* Resuming.                                                               *)

\* Positions along the boundaries: 0 for the base, the index of a commit.
LEMMA PositionFacts ==
    ASSUME NEW base, NEW commits \in Seq(Commits), NEW c \in ToSet(commits) \union {base}
    PROVE  LET p == Position(base, commits, c) IN
           /\ p \in 0..Len(commits)
           /\ p = 0 <=> c = base
           /\ p # 0 => p \in 1..Len(commits) /\ commits[p] = c
<1>. DEFINE I == {i \in 1..Len(commits) : commits[i] = c}
            p == Position(base, commits, c)
<1>1. Len(commits) \in Nat
  OBVIOUS
<1>2. CASE c = base
  BY <1>1, <1>2 DEF Position
<1>3. CASE c # base
  <2>1. I # {} /\ I \subseteq Nat
    BY <1>1, <1>3 DEF ToSet
  <2>2. p = IF I # {} THEN Min(I) ELSE 0
    BY <1>3, Zenon DEF Position, SelectInSeq
  <2>. HIDE DEF I, p
  <2>3. p = Min(I)
    BY <2>1, <2>2
  <2>4. \E m \in I : \A n \in I : m <= n
    BY <2>1, LeastNatural
  <2>5. Min(I) \in I
    BY <2>4 DEF Min
  <2>6. p \in 1..Len(commits) /\ commits[p] = c
    BY <2>3, <2>5 DEF I
  <2>. QED  BY <1>1, <1>3, <2>6 DEF p
<1>. QED  BY <1>2, <1>3

\* A forward edge runs along the boundaries.
LEMMA EdgeFacts ==
    ASSUME NEW base \in Hashes, NEW commits \in Seq(Commits),
           Sound([base |-> base, commits |-> commits]),
           NEW found \in SUBSET BundleRefs, NEW r \in ForwardEdges(base, commits, found)
    PROVE  LET p == Position(base, commits, r.key.base)
               q == Position(base, commits, r.key.end)
           IN
           /\ r \in found
           /\ p \in Nat /\ q \in 1..Len(commits) /\ p < q
           /\ commits[q] = r.key.end
           /\ r.key.base # Zero => Beyond(r.key.base, r.key.end)
           /\ base # Zero => Beyond(base, r.key.end)
<1>. DEFINE p == Position(base, commits, r.key.base)
            q == Position(base, commits, r.key.end)
<1>1. /\ r \in found /\ p < q
      /\ r.key.base \in ToSet(commits) \union {base}
      /\ r.key.end \in ToSet(commits) \union {base}
  BY DEF ForwardEdges
<1>2. /\ p \in 0..Len(commits) /\ (p = 0 <=> r.key.base = base)
      /\ p # 0 => p \in 1..Len(commits) /\ commits[p] = r.key.base
      /\ q \in 0..Len(commits)
      /\ q # 0 => q \in 1..Len(commits) /\ commits[q] = r.key.end
  BY <1>1, PositionFacts
<1>. HIDE DEF p, q
<1>3. p \in Nat /\ q \in 1..Len(commits) /\ commits[q] = r.key.end /\ q # 0
  BY <1>1, <1>2
<1>4. base # Zero => Beyond(base, r.key.end)
  BY <1>3 DEF Sound
<1>5. r.key.base # Zero => Beyond(r.key.base, r.key.end)
  <2>1. CASE p = 0
    BY <1>2, <1>4, <2>1
  <2>2. CASE p # 0
    <3>1. commits[p] # commits[q] /\ commits[p] \in Ancestry[commits[q]]
      BY <1>1, <1>2, <1>3, <2>2 DEF Sound, Rising
    <3>. QED  BY <1>2, <1>3, <2>2, <3>1 DEF Beyond, gitBranchContains
  <2>. QED  BY <2>1, <2>2
<1>. QED  BY <1>1, <1>3, <1>4, <1>5 DEF p, q

\* The completed ranges a push resumes from are linked and rise.
LEMMA ResumedChain ==
    ASSUME NEW base \in Hashes, NEW commits \in Seq(Commits),
           Sound([base |-> base, commits |-> commits]),
           NEW found \in SUBSET BundleRefs,
           NEW s \in completedPushPrefix(base, commits, found)
    PROVE  /\ s \in Seq(BundleRefs)
           /\ \A i \in DOMAIN s :
                /\ s[i] \in found
                /\ s[i].key.base = IF i = 1 THEN base ELSE s[i-1].key.end
                /\ s[i].key.base # Zero => Beyond(s[i].key.base, s[i].key.end)
                /\ base # Zero => Beyond(base, s[i].key.end)
           /\ Ascending(s)
<1>. DEFINE edges == ForwardEdges(base, commits, found)
            P(i) == Position(base, commits, s[i].key.end)
<1>1. s \in Seq(BundleRefs)
  BY ResumedType
<1>2. Len(s) \in Nat /\ DOMAIN s = 1..Len(s) /\ \A i \in 1..Len(s) : s[i].key.end \in Commits
  BY <1>1, RefFacts
<1>3. \A i \in DOMAIN s :
        s[i] \in edges /\ s[i].key.base = IF i = 1 THEN base ELSE s[i-1].key.end
  <2>1. s \in UNION {[1..m -> edges] : m \in 0..Cardinality(edges)}
        /\ \A i \in DOMAIN s : s[i].key.base = IF i = 1 THEN base ELSE s[i-1].key.end
    BY DEF completedPushPrefix, CompletedChains, BoundedSeq, SeqOf
  <2>2. PICK m \in 0..Cardinality(edges) : s \in [1..m -> edges]
    BY <2>1
  <2>. QED  BY <2>1, <2>2
<1>4. \A i \in 1..Len(s) :
         /\ s[i] \in found
         /\ P(i) \in 1..Len(commits) /\ commits[P(i)] = s[i].key.end
         /\ Position(base, commits, s[i].key.base) < P(i)
         /\ s[i].key.base # Zero => Beyond(s[i].key.base, s[i].key.end)
         /\ base # Zero => Beyond(base, s[i].key.end)
  BY <1>2, <1>3, EdgeFacts
<1>5. \A i \in 1..Len(s) : i + 1 \in 1..Len(s) => P(i) < P(i + 1)
  <2>. SUFFICES ASSUME NEW i \in 1..Len(s), i + 1 \in 1..Len(s) PROVE P(i) < P(i + 1)
    OBVIOUS
  <2>1. i + 1 # 1 /\ (i + 1) - 1 = i
    BY <1>2
  <2>2. s[i + 1].key.base = s[i].key.end
    BY <1>2, <1>3, <2>1
  <2>3. Position(base, commits, s[i + 1].key.base) < P(i + 1)
    BY <1>4
  <2>. QED  BY <2>2, <2>3
<1>. HIDE DEF P
<1>6. ASSUME NEW i \in 1..Len(s), NEW j \in 1..Len(s), i <= j PROVE P(i) <= P(j)
  <2>. DEFINE S == {n \in Nat : i + n \in 1..Len(s) => P(i) <= P(i + n)}
  <2>0. i \in Nat /\ Len(commits) \in Nat /\ P(i) \in Int
    BY <1>2, <1>4
  <2>1. 0 \in S
    BY <2>0
  <2>2. ASSUME NEW n \in S PROVE n + 1 \in S
    <3>. SUFFICES ASSUME i + (n + 1) \in 1..Len(s) PROVE P(i) <= P(i + (n + 1))
      OBVIOUS
    <3>1. i + n \in 1..Len(s) /\ (i + n) + 1 = i + (n + 1) /\ n \in Nat
      BY <1>2, <2>0
    <3>2. P(i) <= P(i + n)
      BY <3>1
    <3>3. P(i + n) < P(i + (n + 1))
      BY <1>5, <3>1
    <3>4. P(i + n) \in Int /\ P(i + (n + 1)) \in Int
      BY <1>4, <2>0, <3>1
    <3>. QED  BY <2>0, <3>2, <3>3, <3>4
  <2>3. S = Nat
    <3>. HIDE DEF S
    <3>1. S \subseteq Nat
      BY DEF S
    <3>. QED  BY <2>1, <2>2, <3>1, SetInduction
  <2>4. j - i \in Nat /\ i + (j - i) = j
    BY <1>2, <1>6, <2>0
  <2>5. j - i \in S
    <3>. HIDE DEF S
    <3>. QED  BY <2>3, <2>4
  <2>. QED  BY <2>4, <2>5
<1>7. Ascending(s)
  <2>. SUFFICES ASSUME NEW i \in 1..Len(s), NEW j \in 1..Len(s), i <= j
                PROVE  s[i].key.end \in Ancestry[s[j].key.end]
    BY <1>2 DEF Ascending, gitBranchContains
  <2>1. /\ P(i) \in 1..Len(commits) /\ P(j) \in 1..Len(commits)
        /\ commits[P(i)] = s[i].key.end /\ commits[P(j)] = s[j].key.end
        /\ s[i].key.end \in Commits
    BY <1>2, <1>4
  <2>2. P(i) < P(j) \/ P(i) = P(j)
    BY <1>6, <2>1
  <2>3. CASE P(i) = P(j)
    BY <2>1, <2>3, HistoryAssumption
  <2>4. CASE P(i) < P(j)
    BY <2>1, <2>4 DEF Sound, Rising
  <2>. QED  BY <2>2, <2>3, <2>4
<1>. QED  BY <1>1, <1>2, <1>3, <1>4, <1>7

----------------------------------------------------------------------------
(* Recipients.                                                             *)

\* Bundles encrypted to a tip's own recipients suit pushes of that tip.
LEMMA OwnRecipients ==
    ASSUME NEW t \in Commits
    PROVE  compatibleRecipients(Recipients(t), t)
<1>. DEFINE D == DOMAIN Policy[t]
            f == [k \in D |-> <<k, Policy[t][k]>>]
<1>1. f \in Bijection(D, Recipients(t))
  <2>1. f \in [D -> Recipients(t)]
    BY DEF Recipients
  <2>2. \A j, k \in D : f[j] = f[k] => j = k
    OBVIOUS
  <2>3. \A x \in Recipients(t) : \E k \in D : f[k] = x
    BY DEF Recipients
  <2>. QED  BY <2>1, <2>2, <2>3 DEF Bijection, Injection, Surjection, IsInjective
<1>2. IsFiniteSet(D) /\ \A k \in D : Policy[t][k] \in Nat \ {0}
  BY PolicyAssumption
<1>3. Cardinality(Recipients(t)) = Cardinality(D)
  BY <1>1, <1>2, FS_Bijection DEF ExistsBijection
<1>4. \A k \in D : Policy[t][k] \in 1..Policy[t][k] /\ <<k, Policy[t][k]>> \in Recipients(t)
  BY <1>2 DEF Recipients
<1>. QED  BY <1>3, <1>4 DEF compatibleRecipients

----------------------------------------------------------------------------
(* Frames: what a step may leave alone.                                    *)

\* Nothing about the work of helper g changed.
SameWork(g) ==
    /\ pc'[g] = pc[g] /\ tip'[g] = tip[g] /\ chain'[g] = chain[g]
    /\ completed'[g] = completed[g] /\ todo'[g] = todo[g]

LEMMA WorkKept ==
    ASSUME NEW g \in Helpers, WorkInv(g), SameWork(g), objects \subseteq objects'
    PROVE  WorkInv(g)'
<1>1. /\ \A ref, t : Inspects(objects, ref, t) => Inspects(objects', ref, t)
      /\ \A ch : ChainInspects(objects, ch) => ChainInspects(objects', ch)
  BY InspectsGrows
<1>2. Intact(chain[g]) => Intact(chain[g])'
  BY <1>1 DEF Intact, SameWork
<1>3. Pinned(chain[g]) => Pinned(chain[g])'
  BY DEF Pinned, SameWork
<1>4. Joined(g) => Joined(g)'
  BY DEF Joined, Leads, SameWork
<1>5. NextRef(g)' = NextRef(g)
  BY DEF NextRef, NextKey, SameWork
<1>6. Inspects(objects, NextRef(g), tip[g]) => Inspects(objects, NextRef(g), tip[g])'
  BY <1>1, <1>5 DEF SameWork
<1>7. \A r \in completed'[g] : Inspects(objects, r, tip[g]) => Inspects(objects', r, tip'[g])
  BY <1>1 DEF SameWork
<1>. QED  BY <1>2, <1>3, <1>4, <1>6, <1>7 DEF WorkInv, SameWork

\* A place where nothing is being assembled.
LEMMA WorkIdle ==
    ASSUME NEW h \in Helpers, pc'[h] \notin (Leased \ {"read"}) \union {"broken"}
    PROVE  WorkInv(h)'
BY DEF WorkInv, Assembling, Leased

LEMMA OneHelper ==
    ASSUME SnapshotInv, StoreInv', objects \subseteq objects', NEW h \in Helpers,
           \A g \in Helpers \ {h} : SameWork(g), WorkInv(h)'
    PROVE  SnapshotInv'
BY WorkKept DEF SnapshotInv

LEMMA StoreStep ==
    ASSUME StoreInv, objects \subseteq objects',
           \A o \in objects' \union lateBundles' : Faithful(o),
           \A k \in ManifestKeys : \/ manifests'[k] = manifests[k]
                                   \/ manifests'[k] = NoManifest
                                   \/ Complete(manifests'[k]),
           \A m \in lateManifests' : m \in lateManifests \/ Complete(m.body)
    PROVE  StoreInv'
<1>1. \A m : Complete(m) => Complete(m)'
  BY InspectsGrows DEF Complete
<1>2. \A k \in ManifestKeys : manifests'[k] # NoManifest => Complete(manifests'[k])
  BY DEF StoreInv, Exists
<1>3. \A k \in ManifestKeys : Exists(k)' => Complete(manifests[k])'
  BY <1>2, InspectsGrows DEF Exists, Complete
<1>4. \A m \in lateManifests' : Complete(m.body)'
  BY <1>1 DEF StoreInv
<1>5. \A o \in objects' \union lateBundles' : Faithful(o)'
  BY DEF Faithful
<1>. QED  BY <1>3, <1>4, <1>5 DEF StoreInv

LEMMA StoreSame ==
    ASSUME StoreInv, UNCHANGED <<objects, lateBundles, manifests, lateManifests>>
    PROVE  StoreInv' /\ objects \subseteq objects'
BY StoreStep DEF StoreInv

\* One helper moves to s and nothing else about anyone's work changes.
LEMMA GotoSame ==
    ASSUME TypeOK, NEW h \in Helpers, NEW s, Goto(h, s), UNCHANGED <<tip, chain, completed, todo>>
    PROVE  /\ pc'[h] = s /\ \A g \in Helpers \ {h} : SameWork(g)
           /\ tip'[h] = tip[h] /\ chain'[h] = chain[h]
           /\ completed'[h] = completed[h] /\ todo'[h] = todo[h]
BY DEF Goto, SameWork, TypeOK, PushTypeOK

LEMMA ExitSame ==
    ASSUME TypeOK, NEW h \in Helpers, NEW s \in Ended, Exit(h, s)
    PROVE  pc'[h] = s /\ WorkInv(h)' /\ \A g \in Helpers \ {h} : SameWork(g)
<1>1. pc'[h] = s /\ \A g \in Helpers \ {h} : SameWork(g)
  BY DEF Exit, Goto, SameWork, TypeOK, PushTypeOK, jobVars
<1>2. s \notin (Leased \ {"read"}) \union {"broken"}
  BY DEF Ended, Leased
<1>. QED  BY <1>1, <1>2, WorkIdle

\* A step after which the helper assembles nothing, over an unchanged store.
LEMMA QuitStep ==
    ASSUME TypeOK, SnapshotInv, NEW h \in Helpers, StoreInv', objects \subseteq objects',
           \/ \E s : /\ Goto(h, s) /\ s \notin (Leased \ {"read"}) \union {"broken"}
                     /\ UNCHANGED <<tip, chain, completed, todo>>
           \/ \E s \in Ended : Exit(h, s)
    PROVE  SnapshotInv'
<1>1. WorkInv(h)' /\ \A g \in Helpers \ {h} : SameWork(g)
  <2>1. CASE \E s \in Ended : Exit(h, s)
    BY <2>1, ExitSame
  <2>2. ASSUME NEW s, Goto(h, s), s \notin (Leased \ {"read"}) \union {"broken"},
               UNCHANGED <<tip, chain, completed, todo>>
        PROVE  WorkInv(h)' /\ \A g \in Helpers \ {h} : SameWork(g)
    BY <2>2, GotoSame, WorkIdle
  <2>. QED  BY <2>1, <2>2
<1>. QED  BY <1>1, OneHelper

----------------------------------------------------------------------------
(* Preservation.                                                           *)

\* Starting, locking, giving up, committing, releasing and crashing.
LEMMA SnapQuit ==
    ASSUME TypeOK, SnapshotInv, NEW h \in Helpers,
           \/ Start(h) \/ Lock(h) \/ LockHeld(h) \/ ReadMissing(h)
           \/ Commit(h) \/ CommitRejected(h) \/ CommitUnknown(h) \/ DeleteUnknown(h)
           \/ Release(h) \/ ReleaseFails(h) \/ Abort(h) \/ LeaseLost(h) \/ Crash(h)
    PROVE  SnapshotInv'
<1>1. UNCHANGED <<objects, lateBundles, manifests, lateManifests>>
  BY DEF Start, Lock, LockHeld, ReadMissing, Commit, CommitRejected, CommitUnknown,
         DeleteUnknown, Release, ReleaseFails, Abort, LeaseLost, Crash,
         remoteVars, s3Vars, lateVars
<1>2. StoreInv' /\ objects \subseteq objects'
  BY <1>1, StoreSame DEF SnapshotInv
<1>3. \/ \E s \in {"lock", "read", "abandon", "delete"} :
            Goto(h, s) /\ UNCHANGED <<tip, chain, completed, todo>>
      \/ \E s \in Ended : Exit(h, s)
  <2>1. CASE Start(h) \/ Lock(h) \/ LockHeld(h) \/ ReadMissing(h)
    BY <2>1 DEF Start, Lock, LockHeld, ReadMissing, jobVars, workVars, Ended
  <2>2. CASE Commit(h) \/ CommitRejected(h) \/ CommitUnknown(h) \/ DeleteUnknown(h)
    BY <2>2 DEF Commit, CommitRejected, CommitUnknown, DeleteUnknown, jobVars, workVars, Ended
  <2>3. CASE Release(h) \/ ReleaseFails(h) \/ Abort(h) \/ LeaseLost(h) \/ Crash(h)
    BY <2>3 DEF Release, ReleaseFails, Abort, LeaseLost, Crash, jobVars, workVars, Ended,
       Outcome
  <2>. QED  BY <2>1, <2>2, <2>3
<1>4. {"lock", "read", "abandon", "delete"} \cap ((Leased \ {"read"}) \union {"broken"}) = {}
  BY DEF Leased
<1>. QED  BY <1>2, <1>3, <1>4, QuitStep

\* Deleting the superseded manifest.
LEMMA SnapDelete ==
    ASSUME TypeOK, SnapshotInv, NEW h \in Helpers, DeleteOld(h)
    PROVE  SnapshotInv'
<1>1. \A k \in ManifestKeys : manifests'[k] = manifests[k] \/ manifests'[k] = NoManifest
  BY DEF DeleteOld, TypeOK, RemoteTypeOK
<1>2. UNCHANGED <<objects, lateBundles, lateManifests>>
  BY DEF DeleteOld, lateVars
<1>3. StoreInv' /\ objects \subseteq objects'
  BY <1>1, <1>2, StoreStep DEF SnapshotInv, StoreInv
<1>4. Exit(h, "ok") /\ "ok" \in Ended
  BY DEF DeleteOld, Ended
<1>. QED  BY <1>3, <1>4, QuitStep

\* A manifest that validates carries a chain a push can build on.
LEMMA CompleteIntact ==
    ASSUME NEW m, Complete(m)
    PROVE  /\ Intact(m.chain) /\ ChainEnd(m.chain) = m.tip
           /\ ~m.legacy => Pinned(m.chain)
BY DEF Complete, validate, Intact, Pinned

LEMMA EmptyChain == Intact(<<>>) /\ Pinned(<<>>) /\ <<>> \in Seq(BundleRefs)
<1>1. \A i \in DOMAIN <<>> : FALSE
  OBVIOUS
<1>2. 2..Len(<<>>) = {}
  OBVIOUS
<1>. QED  BY <1>1, <1>2 DEF Intact, Continuous, Ascending, ChainInspects, Pinned

\* What the helper's chain is now, over a store that was only added to.
LEMMA ChainIs ==
    ASSUME NEW h \in Helpers, NEW X, chain'[h] = X, objects \subseteq objects'
    PROVE  /\ Intact(X) => Intact(chain[h])'
           /\ Pinned(X) => Pinned(chain[h])'
BY InspectsGrows DEF Intact, Pinned

\* A place that only asks for a sound chain.
LEMMA Placed ==
    ASSUME NEW h \in Helpers,
           pc'[h] \in {"adoptList", "adopt", "validate", "list", "manifest", "commit"},
           Intact(chain[h])', Recipients(tip[h])' # {},
           pc'[h] # "validate" => Pinned(chain[h])',
           pc'[h] = "manifest" => (ChainEnd(chain[h]) = tip[h])'
    PROVE  WorkInv(h)'
BY DEF WorkInv, Assembling, Leased

\* Reading the published snapshot, or none.
LEMMA SnapRead ==
    ASSUME TypeOK, SnapshotInv, NEW h \in Helpers, Read(h)
    PROVE  SnapshotInv'
<1>1. UNCHANGED <<objects, lateBundles, manifests, lateManifests>>
  BY DEF Read, remoteVars, s3Vars, lateVars
<1>2. StoreInv' /\ objects \subseteq objects'
  BY <1>1, StoreSame DEF SnapshotInv
<1>. DEFINE c == IF old[h] = None THEN <<>> ELSE manifests[old[h]].chain
<1>3. PICK t \in Commits :
        /\ tip' = [tip EXCEPT ![h] = t]
        /\ chain' = [chain EXCEPT ![h] = c]
        /\ Goto(h, CASE ~Pushable(h, t) -> "abandon"
                     [] Pushable(h, t) /\ UpToDate(h, t) -> "finish"
                     [] Pushable(h, t) /\ ~UpToDate(h, t) ->
                          IF old[h] = None THEN "adoptList"
                          ELSE IF manifests[old[h]].legacy THEN "validate"
                          ELSE "list")
  BY DEF Read
<1>4. PICK s \in {"abandon", "finish", "adoptList", "validate", "list"} :
        /\ Goto(h, s)
        /\ s \in {"adoptList", "validate", "list"} => Recipients(t) # {}
        /\ s = "adoptList" => old[h] = None
        /\ s = "list" => old[h] # None /\ ~manifests[old[h]].legacy
  BY <1>3 DEF Pushable
<1>5. /\ pc'[h] = s /\ tip'[h] = t /\ chain'[h] = c
      /\ \A g \in Helpers \ {h} : SameWork(g)
  BY <1>3, <1>4 DEF Read, Goto, SameWork, TypeOK, PushTypeOK
<1>6. Intact(c) /\ (s # "validate" /\ s \notin {"abandon", "finish"} => Pinned(c))
  <2>1. CASE old[h] = None
    BY <2>1, EmptyChain
  <2>2. CASE old[h] # None
    <3>1. old[h] \in ManifestKeys /\ Exists(old[h])
      BY <2>2 DEF Read, Readable, TypeOK, PushTypeOK
    <3>2. Complete(manifests[old[h]])
      BY <3>1 DEF SnapshotInv, StoreInv
    <3>. QED  BY <1>4, <2>2, <3>2, CompleteIntact
  <2>. QED  BY <2>1, <2>2
<1>. HIDE DEF c
<1>7. Intact(chain[h])' /\ (s # "validate" /\ s \notin {"abandon", "finish"} => Pinned(chain[h])')
  BY <1>2, <1>5, <1>6, ChainIs
<1>8. WorkInv(h)'
  <2>1. CASE s \in {"abandon", "finish"}
    <3>1. s \notin (Leased \ {"read"}) \union {"broken"}
      BY <2>1 DEF Leased
    <3>. QED  BY <1>5, <3>1, WorkIdle
  <2>2. CASE s \in {"adoptList", "validate", "list"}
    <3>1. Recipients(tip[h])' # {}
      BY <1>4, <1>5, <2>2 DEF Recipients
    <3>. QED  BY <1>5, <1>7, <2>2, <3>1, Placed
  <2>. QED  BY <2>1, <2>2
<1>. QED  BY <1>2, <1>5, <1>8, OneHelper

\* Validating a legacy chain, and walking the namespace.
LEMMA SnapValidate ==
    ASSUME TypeOK, SnapshotInv, NEW h \in Helpers, ValidateLegacy(h)
    PROVE  SnapshotInv'
<1>1. UNCHANGED <<objects, lateBundles, manifests, lateManifests>>
  BY DEF ValidateLegacy, remoteVars, s3Vars, lateVars
<1>2. StoreInv' /\ objects \subseteq objects'
  BY <1>1, StoreSame DEF SnapshotInv
<1>. DEFINE c == CheckedChain(objects, chain[h])
<1>3. Intact(chain[h]) /\ Recipients(tip[h]) # {} /\ chain[h] \in Seq(BundleRefs)
  BY DEF ValidateLegacy, SnapshotInv, WorkInv, Leased, TypeOK, PushTypeOK
<1>4. /\ chain' = [chain EXCEPT ![h] = c]
      /\ Goto(h, AfterBase(h, chain[h]))
      /\ UNCHANGED <<tip, completed, todo>>
  BY <1>3 DEF ValidateLegacy, Intact, jobVars
<1>5. Intact(c) /\ Pinned(c) /\ ChainEnd(c) = ChainEnd(chain[h])
  BY <1>3, CheckedIntact DEF SnapshotInv
<1>. HIDE DEF c
<1>6. /\ pc'[h] = AfterBase(h, chain[h]) /\ tip'[h] = tip[h] /\ chain'[h] = c
      /\ \A g \in Helpers \ {h} : SameWork(g)
  BY <1>4 DEF Goto, SameWork, TypeOK, PushTypeOK
<1>7. Intact(chain[h])' /\ Pinned(chain[h])'
  BY <1>2, <1>5, <1>6, ChainIs
<1>8. WorkInv(h)'
  <2>1. pc'[h] \in {"manifest", "list"}
        /\ (pc'[h] = "manifest" => (ChainEnd(chain[h]) = tip[h])')
    BY <1>5, <1>6 DEF AfterBase
  <2>2. Recipients(tip[h])' # {}
    BY <1>3, <1>6 DEF Recipients
  <2>. QED  BY <1>7, <2>1, <2>2, Placed
<1>. QED  BY <1>2, <1>6, <1>8, OneHelper

LEMMA SnapNamespace ==
    ASSUME TypeOK, SnapshotInv, NEW h \in Helpers, namespaceManifests(h) \/ AdoptDone(h)
    PROVE  SnapshotInv'
<1>1. UNCHANGED <<objects, lateBundles, manifests, lateManifests>>
  BY DEF namespaceManifests, AdoptDone, remoteVars, s3Vars, lateVars
<1>2. StoreInv' /\ objects \subseteq objects'
  BY <1>1, StoreSame DEF SnapshotInv
<1>3. Intact(chain[h]) /\ Pinned(chain[h]) /\ Recipients(tip[h]) # {}
  BY DEF namespaceManifests, AdoptDone, SnapshotInv, WorkInv, Leased, Assembling
<1>4. \E s \in {"adopt", "list", "manifest"} :
        /\ Goto(h, s) /\ UNCHANGED <<tip, chain, completed, todo>>
        /\ s = "manifest" => ChainEnd(chain[h]) = tip[h]
  BY DEF namespaceManifests, AdoptDone, AfterBase, jobVars, workVars
<1>5. PICK s \in {"adopt", "list", "manifest"} :
        /\ Goto(h, s) /\ UNCHANGED <<tip, chain, completed, todo>>
        /\ s = "manifest" => ChainEnd(chain[h]) = tip[h]
  BY <1>4
<1>6. /\ pc'[h] = s /\ tip'[h] = tip[h] /\ chain'[h] = chain[h]
      /\ \A g \in Helpers \ {h} : SameWork(g)
  BY <1>5, GotoSame
<1>7. Intact(chain[h])' /\ Pinned(chain[h])'
  BY <1>2, <1>3, <1>6, ChainIs
<1>8. Recipients(tip[h])' # {} /\ (s = "manifest" => (ChainEnd(chain[h]) = tip[h])')
  BY <1>3, <1>5, <1>6 DEF Recipients
<1>9. WorkInv(h)'
  BY <1>6, <1>7, <1>8, Placed
<1>. QED  BY <1>2, <1>6, <1>9, OneHelper

\* What one adopted manifest may leave a push with: a chain that is sound,
\* fully named and encrypted to the recipients of the tip.
LEMMA AdoptOutcome ==
    ASSUME TypeOK, SnapshotInv, NEW h \in Helpers, Adopt(h)
    PROVE  /\ UNCHANGED <<tip, completed, todo>>
           /\ \/ Goto(h, "abandon") /\ UNCHANGED chain
              \/ UNCHANGED <<pc, chain>>
              \/ /\ UNCHANGED pc
                 /\ \E X \in Seq(BundleRefs) :
                       /\ chain' = [chain EXCEPT ![h] = X]
                       /\ Intact(X) /\ Pinned(X) /\ Decryptable(X, tip[h])
<1>1. UNCHANGED <<tip, completed, todo>>
  BY DEF Adopt, jobVars
<1>2. PICK k \in listed[h] :
          IF ~Exists(k)
          THEN UNCHANGED <<pc, chain>>
          ELSE IF Conflicts(h, manifests[k])
          THEN Goto(h, "abandon") /\ UNCHANGED chain
          ELSE \E shared \in Shared(manifests[k].chain, tip[h]) :
               IF ~ChainInspects(objects, shared)
               THEN Goto(h, "broken") /\ UNCHANGED chain
               ELSE \E candidate \in Compatible(CheckedChain(objects, shared), tip[h]) :
                    /\ chain' = IF Closer(h, candidate)
                                THEN [chain EXCEPT ![h] = candidate] ELSE chain
                    /\ UNCHANGED pc
  BY DEF Adopt
<1>3. CASE ~Exists(k)
  BY <1>1, <1>2, <1>3
<1>4. CASE Exists(k) /\ Conflicts(h, manifests[k])
  BY <1>1, <1>2, <1>4
<1>5. CASE Exists(k) /\ ~Conflicts(h, manifests[k])
  <2>. DEFINE m == manifests[k]
  <2>1. k \in ManifestKeys /\ m \in Manifests /\ Complete(m)
    BY <1>5 DEF TypeOK, PushTypeOK, RemoteTypeOK, Exists, SnapshotInv, StoreInv
  <2>2. m.chain \in Seq(BundleRefs) /\ Intact(m.chain)
    BY <2>1, CompleteIntact DEF Manifests
  <2>3. PICK shared \in Shared(m.chain, tip[h]) :
          IF ~ChainInspects(objects, shared)
          THEN Goto(h, "broken") /\ UNCHANGED chain
          ELSE \E candidate \in Compatible(CheckedChain(objects, shared), tip[h]) :
               /\ chain' = IF Closer(h, candidate)
                           THEN [chain EXCEPT ![h] = candidate] ELSE chain
               /\ UNCHANGED pc
    BY <1>2, <1>5
  <2>. HIDE DEF m
  <2>4. PICK n \in 0..Len(m.chain) : shared = SubSeq(m.chain, 1, n)
    BY <2>2, PrefixCut
  <2>5. shared \in Seq(BundleRefs) /\ Intact(shared)
    BY <2>2, <2>4, PrefixIntact
  <2>. DEFINE u == CheckedChain(objects, shared)
  <2>6. u \in Seq(BundleRefs) /\ Intact(u) /\ Pinned(u)
    BY <2>5, CheckedIntact DEF SnapshotInv
  <2>. HIDE DEF u
  <2>7. PICK candidate \in Compatible(u, tip[h]) :
               /\ chain' = IF Closer(h, candidate)
                           THEN [chain EXCEPT ![h] = candidate] ELSE chain
               /\ UNCHANGED pc
    BY <2>3, <2>5 DEF Intact, u
  <2>8. PICK i \in 0..Len(u) :
                /\ candidate = SubSeq(u, 1, i)
                /\ \A j \in 1..i : compatibleRecipients(u[j].keys, tip[h])
    BY <2>6, PrefixCut
  <2>9. /\ candidate \in Seq(BundleRefs) /\ Len(candidate) = i
        /\ \A j \in 1..i : j \in 1..Len(u) /\ candidate[j] = u[j]
        /\ Intact(candidate)
    BY <2>6, <2>8, PrefixIntact
  <2>10. DOMAIN candidate = 1..i /\ DOMAIN u = 1..Len(u)
    BY <2>6, <2>9, RefFacts
  <2>11. Pinned(candidate) /\ Decryptable(candidate, tip[h])
    BY <2>6, <2>8, <2>9, <2>10 DEF Pinned, Decryptable
  <2>. QED  BY <1>1, <2>7, <2>9, <2>11
<1>. QED  BY <1>3, <1>4, <1>5

\* Adopting keeps the chain sound.
LEMMA SnapAdopt ==
    ASSUME TypeOK, SnapshotInv, NEW h \in Helpers, Adopt(h)
    PROVE  SnapshotInv'
<1>1. UNCHANGED <<objects, lateBundles, manifests, lateManifests>>
  BY DEF Adopt, remoteVars, s3Vars, lateVars
<1>2. StoreInv' /\ objects \subseteq objects'
  BY <1>1, StoreSame DEF SnapshotInv
<1>3. UNCHANGED <<tip, completed, todo>> /\ pc[h] = "adopt"
  BY DEF Adopt, jobVars
<1>4. CASE Goto(h, "abandon") /\ UNCHANGED chain
  <2>1. "abandon" \notin (Leased \ {"read"}) \union {"broken"}
    BY DEF Leased
  <2>. QED  BY <1>2, <1>3, <1>4, <2>1, QuitStep
<1>5. CASE UNCHANGED <<pc, chain>>
  <2>1. \A g \in Helpers : SameWork(g)
    BY <1>3, <1>5 DEF SameWork
  <2>. QED  BY <1>2, <2>1, WorkKept DEF SnapshotInv
<1>6. ASSUME UNCHANGED pc, NEW X \in Seq(BundleRefs), chain' = [chain EXCEPT ![h] = X],
             Intact(X), Pinned(X)
      PROVE  SnapshotInv'
  <2>1. /\ pc'[h] = "adopt" /\ tip'[h] = tip[h] /\ chain'[h] = X
        /\ \A g \in Helpers \ {h} : SameWork(g)
    BY <1>3, <1>6 DEF SameWork, TypeOK, PushTypeOK
  <2>2. Intact(chain[h])' /\ Pinned(chain[h])'
    BY <1>2, <1>6, <2>1, ChainIs
  <2>3. Recipients(tip[h]) # {}
    BY <1>3 DEF SnapshotInv, WorkInv, Leased
  <2>4. Recipients(tip[h])' # {}
    BY <2>1, <2>3 DEF Recipients
  <2>5. WorkInv(h)'
    BY <2>1, <2>2, <2>4, Placed
  <2>. QED  BY <1>2, <2>1, <2>5, OneHelper
<1>. QED  BY <1>4, <1>5, <1>6, AdoptOutcome

\* The listing of completed ranges names objects of this very tip.
LEMMA SnapListing ==
    ASSUME TypeOK, JobInv, SnapshotInv, NEW h \in Helpers, listPushBundles(h)
    PROVE  SnapshotInv'
<1>1. UNCHANGED <<objects, lateBundles, manifests, lateManifests>>
  BY DEF listPushBundles, remoteVars, s3Vars, lateVars
<1>2. StoreInv' /\ objects \subseteq objects'
  BY <1>1, StoreSame DEF SnapshotInv
<1>. DEFINE found == {[key |-> o.key, etag |-> o.etag, keys |-> Recipients(tip[h])] :
                         o \in {o \in objects : o.key.scope = tip[h]}}
<1>3. Intact(chain[h]) /\ Pinned(chain[h]) /\ Recipients(tip[h]) # {} /\ tip[h] \in Commits
  BY DEF listPushBundles, SnapshotInv, WorkInv, Leased, Assembling, JobInv, Resolved
<1>4. \A r \in found : r.key.scope = tip[h] /\ Inspects(objects, r, tip[h])
  <2>. SUFFICES ASSUME NEW o \in objects, o.key.scope = tip[h]
                PROVE  Inspects(objects, [key |-> o.key, etag |-> o.etag,
                                          keys |-> Recipients(tip[h])], tip[h])
    OBVIOUS
  <2>1. o.push = tip[h] /\ o.keys = Recipients(tip[h])
    BY <1>3 DEF SnapshotInv, StoreInv, Faithful
  <2>. QED  BY <2>1 DEF Inspects, StoredAt
<1>. HIDE DEF found
<1>5. /\ pc'[h] = "resume" /\ tip'[h] = tip[h] /\ chain'[h] = chain[h] /\ completed'[h] = found
      /\ \A g \in Helpers \ {h} : SameWork(g)
  BY DEF listPushBundles, Goto, SameWork, TypeOK, PushTypeOK, jobVars, found
<1>6. Intact(chain[h])' /\ Pinned(chain[h])'
  BY <1>2, <1>3, <1>5, ChainIs
<1>7. Recipients(tip[h])' # {}
  BY <1>3, <1>5 DEF Recipients
<1>8. \A r \in completed'[h] : r.key.scope = tip'[h] /\ Inspects(objects', r, tip'[h])
  BY <1>1, <1>4, <1>5
<1>9. WorkInv(h)'
  BY <1>5, <1>6, <1>7, <1>8 DEF WorkInv
<1>. QED  BY <1>2, <1>5, <1>9, OneHelper

----------------------------------------------------------------------------
(* The ranges left to upload.                                              *)

LEMMA RangeFacts ==
    ASSUME NEW r \in Ranges
    PROVE  /\ r.base \in Hashes
           /\ r.commits \in Seq(Commits) \ {<<>>}
           /\ Len(r.commits) \in Nat \ {0} /\ DOMAIN r.commits = 1..Len(r.commits)
           /\ \A i \in 1..Len(r.commits) : r.commits[i] \in Commits
           /\ Last(r.commits) = r.commits[Len(r.commits)] /\ Last(r.commits) \in Commits
<1>1. r.base \in Hashes /\ r.commits \in Seq(Commits) \ {<<>>}
  BY DEF Ranges
<1>2. Len(r.commits) \in Nat \ {0} /\ DOMAIN r.commits = 1..Len(r.commits)
      /\ \A i \in 1..Len(r.commits) : r.commits[i] \in Commits
  BY <1>1
<1>. QED  BY <1>1, <1>2 DEF Last

LEMMA LeadsOne ==
    ASSUME NEW r, Sound(r)
    PROVE  Leads(<<r>>, r.base, Last(r.commits))
BY DEF Leads, Last

\* Uploading the first range leaves ranges that lead on from its end.
LEMMA LeadsTail ==
    ASSUME NEW q \in Seq(Ranges), q # <<>>, NEW base, NEW t, Leads(q, base, t)
    PROVE  /\ Sound(Head(q)) /\ Head(q).base = base
           /\ IF Tail(q) = <<>> THEN Last(Head(q).commits) = t
                                ELSE Leads(Tail(q), Last(Head(q).commits), t)
<1>1. Len(q) \in Nat \ {0} /\ DOMAIN q = 1..Len(q) /\ Head(q) = q[1] /\ 1 \in DOMAIN q
  OBVIOUS
<1>2. Sound(Head(q)) /\ Head(q).base = base
  BY <1>1 DEF Leads
<1>3. /\ Tail(q) \in Seq(Ranges) /\ Len(Tail(q)) = Len(q) - 1
      /\ \A i \in 1..(Len(q) - 1) : Tail(q)[i] = q[i + 1]
  BY <1>1
<1>4. CASE Tail(q) = <<>>
  <2>1. Len(q) = 1
    <3>0. Len(<<>>) = 0
      OBVIOUS
    <3>1. Len(Tail(q)) = 0
      BY <1>4, <3>0, Zenon
    <3>2. Len(q) - 1 = 0
      BY <1>3, <3>1, Zenon
    <3>3. Len(q) \in Nat
      OBVIOUS
    <3>4. ASSUME NEW n \in Nat, n - 1 = 0 PROVE n = 1
      BY <3>4
    <3>. QED  BY <3>2, <3>3, <3>4, Zenon
  <2>. QED  BY <1>1, <1>2, <1>4, <2>1 DEF Leads, Last
<1>5. CASE Tail(q) # <<>>
  <2>. DEFINE u == Tail(q)
              m == Len(q) - 1
  <2>1. u \in Seq(Ranges) /\ Len(u) = m /\ DOMAIN u = 1..m /\ m \in Nat \ {0}
        /\ \A i \in 1..m : u[i] = q[i + 1] /\ i + 1 \in DOMAIN q
    BY <1>1, <1>3, <1>5
  <2>. HIDE DEF u
  <2>2. \A i \in 1..m : i + 1 # 1 /\ (i + 1) - 1 = i /\ (i # 1 => i - 1 \in 1..m /\ (i - 1) + 1 = i)
    BY <2>1
  <2>3. ASSUME NEW i \in 1..m
        PROVE  /\ Sound(u[i])
               /\ u[i].base = IF i = 1 THEN Last(Head(q).commits) ELSE Last(u[i-1].commits)
    <3>1. Sound(q[i + 1]) /\ q[i + 1].base = Last(q[i].commits)
      BY <2>1, <2>2 DEF Leads
    <3>. QED  BY <1>1, <2>1, <2>2, <3>1
  <2>4. Last(u) = Last(q)
    <3>1. u[m] = q[m + 1] /\ m + 1 = Len(q)
      BY <1>1, <2>1
    <3>. QED  BY <2>1, <3>1 DEF Last
  <2>5. Leads(u, Last(Head(q).commits), t)
    BY <2>1, <2>3, <2>4 DEF Leads
  <2>. QED  BY <1>2, <1>5, <2>5 DEF u
<1>. QED  BY <1>4, <1>5

\* The halves of a sound range are sound and meet in the middle.
LEMMA HalvesSound ==
    ASSUME NEW r \in Ranges, Sound(r), Len(r.commits) > 1
    PROVE  LET m == Len(r.commits) \div 2
               left == SubSeq(r.commits, 1, m)
               right == SubSeq(r.commits, m + 1, Len(r.commits))
           IN
           /\ Sound([base |-> r.base, commits |-> left])
           /\ Sound([base |-> r.commits[m], commits |-> right])
           /\ Last(left) = r.commits[m] /\ Last(right) = Last(r.commits)
<1>. DEFINE c == r.commits
            n == Len(c)
            m == n \div 2
            left == SubSeq(c, 1, m)
            right == SubSeq(c, m + 1, n)
<1>1. c \in Seq(Commits) \ {<<>>} /\ n \in Nat /\ DOMAIN c = 1..n
      /\ r.base \in Hashes /\ Last(c) = c[n] /\ \A i \in 1..n : c[i] \in Commits
  BY RangeFacts
<1>2. Rising(c) /\ (r.base # Zero => \A i \in 1..n : Beyond(r.base, c[i]))
  BY <1>1 DEF Sound
<1>3. n > 1
  OBVIOUS
<1>. HIDE DEF c, n
<1>4. m \in Nat /\ 1 \in 1..n /\ m \in 1..n /\ m + 1 \in 1..n /\ n \in (m + 1)..n
      /\ 1 + m - 1 = m
  BY <1>1, <1>3
<1>. HIDE DEF m
<1>5. /\ left \in Seq(Commits) /\ Len(left) = m
      /\ \A i \in 1..m : left[i] = c[i] /\ i \in 1..n
      /\ Last(left) = c[m] /\ Rising(left)
  <2>. DEFINE u == SubSeq(c, 1, m)
  <2>0. u = SubSeq(c, 1, m)
    OBVIOUS
  <2>. HIDE DEF u
  <2>1. c \in Seq(Commits) /\ m \in Nat /\ 1 <= m /\ m <= Len(c)
    BY <1>1, <1>4 DEF n
  <2>2. /\ u \in Seq(Commits) \ {<<>>} /\ Len(u) = m - 1 + 1
        /\ \A i \in 1..Len(u) : u[i] = c[1 + i - 1]
        /\ Last(u) = c[m] /\ Rising(u)
    BY <1>2, <2>0, <2>1, RisingPart
  <2>3. Len(u) = m /\ \A i \in 1..m : 1 + i - 1 = i /\ i \in 1..n
    BY <1>1, <1>4, <2>2
  <2>4. \A i \in 1..m : u[i] = c[i]
    BY <2>2, <2>3
  <2>. QED  BY <2>2, <2>3, <2>4 DEF u
<1>6. /\ right \in Seq(Commits) /\ Len(right) = n - m
      /\ \A i \in 1..(n - m) : right[i] = c[m + i] /\ m + i \in 1..n
      /\ Last(right) = c[n] /\ Rising(right)
  <2>. DEFINE u == SubSeq(c, m + 1, n)
  <2>0. u = SubSeq(c, m + 1, n)
    OBVIOUS
  <2>. HIDE DEF u
  <2>1. c \in Seq(Commits) /\ m \in Nat /\ n \in Nat /\ 1 <= m + 1 /\ m + 1 <= n /\ n <= Len(c)
    BY <1>1, <1>4 DEF n
  <2>2. /\ u \in Seq(Commits) \ {<<>>} /\ Len(u) = n - (m + 1) + 1
        /\ \A i \in 1..Len(u) : u[i] = c[(m + 1) + i - 1]
        /\ Last(u) = c[n] /\ Rising(u)
    BY <1>2, <2>0, <2>1, RisingPart
  <2>3. Len(u) = n - m /\ \A i \in 1..(n - m) : (m + 1) + i - 1 = m + i /\ m + i \in 1..n
    BY <1>1, <1>4, <2>2
  <2>4. \A i \in 1..(n - m) : u[i] = c[m + i]
    BY <2>2, <2>3
  <2>. QED  BY <2>2, <2>3, <2>4 DEF u
<1>. HIDE DEF left, right
<1>7. Sound([base |-> r.base, commits |-> left])
  <2>1. DOMAIN left = 1..m
    BY <1>5
  <2>. QED  BY <1>2, <1>5, <2>1 DEF Sound
<1>8. Sound([base |-> c[m], commits |-> right])
  <2>1. DOMAIN right = 1..(n - m)
    BY <1>6
  <2>2. ASSUME NEW i \in 1..(n - m) PROVE Beyond(c[m], right[i])
    <3>1. m \in DOMAIN c /\ m + i \in DOMAIN c /\ m < m + i
      BY <1>1, <1>4, <1>6
    <3>2. c[m] # c[m + i] /\ c[m] \in Ancestry[c[m + i]]
      BY <1>2, <3>1 DEF Rising
    <3>. QED  BY <1>6, <3>2 DEF Beyond, gitBranchContains
  <2>. QED  BY <1>6, <2>1, <2>2 DEF Sound
<1>. QED  BY <1>1, <1>5, <1>6, <1>7, <1>8 DEF c, n, m, left, right

\* Halving the first range keeps the ranges joined.
LEMMA LeadsSplit ==
    ASSUME NEW q \in Seq(Ranges), q # <<>>, NEW base, NEW t, Leads(q, base, t),
           NEW left, NEW right,
           Sound(left), Sound(right), left.base = Head(q).base,
           right.base = Last(left.commits), Last(right.commits) = Last(Head(q).commits)
    PROVE  Leads(<<left, right>> \o Tail(q), base, t)
<1>. DEFINE u == <<left, right>> \o Tail(q)
            n == Len(q)
<1>1. n \in Nat \ {0} /\ DOMAIN q = 1..n /\ Head(q) = q[1]
      /\ Tail(q) \in Seq(Ranges) /\ Len(Tail(q)) = n - 1
      /\ \A i \in 1..(n - 1) : Tail(q)[i] = q[i + 1]
  OBVIOUS
<1>2. /\ u \in Seq({left, right} \union Ranges) /\ Len(u) = n + 1 /\ DOMAIN u = 1..(n + 1)
      /\ u[1] = left /\ u[2] = right
      /\ \A i \in 3..(n + 1) : u[i] = q[i - 1]
  <2>1. u \in Seq({left, right} \union Ranges) /\ Len(u) = 2 + (n - 1)
    BY <1>1
  <2>2. u[1] = left /\ u[2] = right
    BY <1>1
  <2>3. \A i \in 3..(n + 1) : u[i] = Tail(q)[i - 2] /\ i - 2 \in 1..(n - 1) /\ (i - 2) + 1 = i - 1
    BY <1>1
  <2>. QED  BY <1>1, <2>1, <2>2, <2>3
<1>. HIDE DEF u
<1>3. ASSUME NEW i \in 1..(n + 1)
      PROVE  /\ Sound(u[i])
             /\ u[i].base = IF i = 1 THEN base ELSE Last(u[i-1].commits)
  <2>1. i = 1 \/ i = 2 \/ i \in 3..(n + 1)
    BY <1>1
  <2>2. CASE i = 1
    <3>1. q[1].base = base
      BY <1>1 DEF Leads
    <3>. QED  BY <1>1, <1>2, <2>2, <3>1
  <2>3. CASE i = 2
    BY <1>2, <2>3
  <2>4. CASE i = 3
    <3>1. 2 \in 1..n /\ 3 \in 3..(n + 1)
      BY <1>1, <2>4
    <3>2. Sound(q[2]) /\ q[2].base = Last(q[1].commits) /\ u[3] = q[2]
      BY <1>1, <1>2, <3>1 DEF Leads
    <3>. QED  BY <1>1, <1>2, <2>4, <3>2
  <2>5. CASE i \in 4..(n + 1)
    <3>1. i - 1 \in 1..n /\ i - 1 # 1 /\ i \in 3..(n + 1) /\ i - 1 \in 3..(n + 1) /\ i # 1
      BY <1>1, <2>5
    <3>2. Sound(q[i-1]) /\ q[i-1].base = Last(q[(i-1)-1].commits)
      BY <1>1, <3>1 DEF Leads
    <3>3. u[i] = q[i-1] /\ u[i-1] = q[(i-1)-1]
      BY <1>2, <3>1
    <3>. QED  BY <3>1, <3>2, <3>3
  <2>. QED  BY <1>1, <2>1, <2>2, <2>3, <2>4, <2>5
<1>4. Last(Last(u).commits) = t
  <2>1. Last(u) = u[n + 1] /\ Last(q) = q[n]
    BY <1>2 DEF Last
  <2>2. CASE n = 1
    BY <1>1, <1>2, <2>1, <2>2 DEF Leads
  <2>3. CASE n > 1
    <3>1. n + 1 \in 3..(n + 1) /\ (n + 1) - 1 = n
      BY <1>1, <2>3
    <3>2. u[n + 1] = q[n]
      BY <1>2, <3>1
    <3>. QED  BY <2>1, <3>2 DEF Leads
  <2>. QED  BY <1>1, <2>2, <2>3
<1>. QED  BY <1>2, <1>3, <1>4 DEF Leads, u

\* Bundles a push adds to its chain are encrypted to its tip's recipients.
Adds(bundles, ch, t) ==
    \A i \in DOMAIN bundles : \/ \E j \in DOMAIN ch : bundles[i] = ch[j]
                              \/ bundles[i].keys = Recipients(t)

LEMMA AddsKeeps ==
    ASSUME NEW bundles, NEW ch, NEW t \in Commits, Adds(bundles, ch, t), Decryptable(ch, t)
    PROVE  Decryptable(bundles, t)
BY OwnRecipients DEF Adds, Decryptable

LEMMA JoinFacts ==
    ASSUME NEW ch \in Seq(BundleRefs), NEW s \in Seq(BundleRefs), NEW t,
           Pinned(ch), Pinned(s), \A i \in DOMAIN s : s[i].keys = Recipients(t)
    PROVE  /\ ch \o s \in Seq(BundleRefs)
           /\ Pinned(ch \o s) /\ Adds(ch \o s, ch, t)
<1>. DEFINE u == ch \o s
            n == Len(ch)
            m == Len(s)
<1>1. n \in Nat /\ m \in Nat /\ DOMAIN ch = 1..n /\ DOMAIN s = 1..m
  BY RefFacts
<1>2. /\ u \in Seq(BundleRefs) /\ Len(u) = n + m /\ DOMAIN u = 1..(n + m)
      /\ \A i \in 1..n : u[i] = ch[i]
      /\ \A i \in (n+1)..(n+m) : u[i] = s[i - n] /\ i - n \in 1..m
  BY <1>1
<1>. HIDE DEF u
<1>3. \A i \in DOMAIN u : i \in 1..n \/ i \in (n+1)..(n+m)
  BY <1>1, <1>2
<1>4. Pinned(u)
  BY <1>1, <1>2, <1>3 DEF Pinned
<1>5. Adds(u, ch, t)
  BY <1>1, <1>2, <1>3 DEF Adds
<1>. QED  BY <1>2, <1>4, <1>5 DEF u

\* Where the ranges that are left lead to.
LEMMA RangesLead ==
    ASSUME NEW base \in Hashes, NEW t \in Commits, NEW ranges \in RemainingRanges(base, t)
    PROVE  IF ranges = <<>> THEN base = t ELSE Leads(ranges, base, t)
<1>1. CASE base = t
  BY <1>1 DEF RemainingRanges
<1>2. CASE base # t
  <2>1. PICK c \in pushBundleCommits(base, t) : ranges = <<[base |-> base, commits |-> c]>>
    BY <1>2 DEF RemainingRanges
  <2>2. Sound([base |-> base, commits |-> c]) /\ Last(c) = t
    BY BoundarySound
  <2>3. Leads(<<[base |-> base, commits |-> c]>>, base, t)
    BY <2>2, LeadsOne
  <2>. QED  BY <2>1, <2>3
<1>. QED  BY <1>1, <1>2

\* What resuming an earlier attempt leaves a push with; nothing it relies on
\* is missing.
LEMMA ResumeOutcome ==
    ASSUME TypeOK, JobInv, SnapshotInv, NEW h \in Helpers, inspectPushPrefix(h)
    PROVE  \E bundles \in Seq(BundleRefs), ranges \in Seq(Ranges) :
             /\ chain' = [chain EXCEPT ![h] = bundles]
             /\ todo' = [todo EXCEPT ![h] = ranges]
             /\ Goto(h, AfterRanges(ranges))
             /\ Intact(bundles) /\ Pinned(bundles)
             /\ IF ranges = <<>> THEN ChainEnd(bundles) = tip[h]
                                 ELSE Leads(ranges, ChainEnd(bundles), tip[h])
             /\ Adds(bundles, chain[h], tip[h])
<1>. DEFINE base == ChainEnd(chain[h])
            Body(resumed) ==
              IF \A i \in DOMAIN resumed : Inspects(objects, resumed[i], tip[h])
              THEN LET bundles == chain[h] \o CheckedChain(objects, resumed) IN
                   \E ranges \in RemainingRanges(ChainEnd(bundles), tip[h]) :
                     /\ chain' = [chain EXCEPT ![h] = bundles]
                     /\ todo' = [todo EXCEPT ![h] = ranges]
                     /\ Goto(h, AfterRanges(ranges))
              ELSE Goto(h, "broken") /\ UNCHANGED <<chain, todo>>
<1>1. /\ tip[h] \in Commits /\ chain[h] \in Seq(BundleRefs) /\ completed[h] \in SUBSET BundleRefs
      /\ Intact(chain[h]) /\ Pinned(chain[h])
      /\ \A r \in completed[h] : r.key.scope = tip[h] /\ Inspects(objects, r, tip[h])
  BY DEF inspectPushPrefix, JobInv, Resolved, Leased, Assembling, TypeOK, PushTypeOK,
         SnapshotInv, WorkInv
<1>2. base \in Hashes
  BY <1>1, ChainEndType
<1>3. PICK commits \in pushBundleCommits(base, tip[h]) :
         \E resumed \in completedPushPrefix(base, commits, completed[h]) : Body(resumed)
  BY DEF inspectPushPrefix
<1>4. PICK s \in completedPushPrefix(base, commits, completed[h]) : Body(s)
  BY <1>3
<1>5. commits \in Seq(Commits) /\ Sound([base |-> base, commits |-> commits])
  BY <1>1, <1>2, BoundarySound
<1>. HIDE DEF base
<1>6. /\ s \in Seq(BundleRefs) /\ Ascending(s)
      /\ \A i \in DOMAIN s :
                /\ s[i] \in completed[h]
                /\ s[i].key.base = IF i = 1 THEN base ELSE s[i-1].key.end
                /\ s[i].key.base # Zero => Beyond(s[i].key.base, s[i].key.end)
                /\ base # Zero => Beyond(base, s[i].key.end)
  BY <1>1, <1>2, <1>5, ResumedChain
<1>7. \A i \in DOMAIN s : Inspects(objects, s[i], tip[h]) /\ s[i].key.scope = tip[h]
  BY <1>1, <1>6
<1>. DEFINE u == CheckedChain(objects, s)
            bundles == chain[h] \o u
<1>8. PICK ranges \in RemainingRanges(ChainEnd(bundles), tip[h]) :
              /\ chain' = [chain EXCEPT ![h] = bundles]
              /\ todo' = [todo EXCEPT ![h] = ranges]
              /\ Goto(h, AfterRanges(ranges))
  BY <1>4, <1>7
<1>. HIDE DEF Body
<1>9. u \in Seq(BundleRefs) /\ DOMAIN u = DOMAIN s
  <2>1. u \in Seq(BundleRefs)
    BY <1>6, <1>7, CheckedChainType DEF TypeOK, RemoteTypeOK
  <2>. QED  BY <2>1 DEF CheckedChain
<1>10. \A i \in DOMAIN s : u[i] = Checked(objects, s[i]) /\ s[i] \in BundleRefs
  BY <1>1, <1>6 DEF CheckedChain
<1>. HIDE DEF u
<1>11. \A i \in DOMAIN s : /\ u[i].key = s[i].key
                           /\ u[i].etag # None /\ u[i].keys # {}
                           /\ u[i].keys = Recipients(tip[h])
                           /\ Inspects(objects, u[i], None)
  BY <1>1, <1>7, <1>10, CheckedFacts DEF SnapshotInv
<1>12. Pinned(u) /\ \A i \in DOMAIN u : u[i].keys = Recipients(tip[h])
  BY <1>9, <1>11 DEF Pinned
<1>13. Continues(u, ChainEnd(chain[h]))
  <2>1. Ascending(u)
    BY <1>6, <1>9, <1>11 DEF Ascending
  <2>2. \A i \in DOMAIN s : i # 1 => i - 1 \in DOMAIN s
    BY <1>6, RefFacts
  <2>. QED  BY <1>6, <1>9, <1>11, <2>1, <2>2 DEF Continues, base
<1>14. /\ bundles \in Seq(BundleRefs) /\ Intact(bundles) /\ Pinned(bundles)
       /\ Adds(bundles, chain[h], tip[h])
  BY <1>1, <1>9, <1>12, <1>13, Joins, JoinFacts
<1>. HIDE DEF bundles
<1>15. ChainEnd(bundles) \in Hashes
  BY <1>14, ChainEndType
<1>16. ranges \in Seq(Ranges)
  BY <1>1, <1>15, RangesType
<1>17. IF ranges = <<>> THEN ChainEnd(bundles) = tip[h]
                        ELSE Leads(ranges, ChainEnd(bundles), tip[h])
  BY <1>1, <1>15, RangesLead
<1>. QED  BY <1>8, <1>14, <1>16, <1>17

\* The places of a push that uploads or is about to.
LEMMA AfterWork ==
    ASSUME TypeOK, SnapshotInv, NEW h \in Helpers, StoreInv', objects \subseteq objects',
           UNCHANGED <<tip, completed>>, pc[h] \in {"resume", "build", "record"},
           NEW bundles \in Seq(BundleRefs), NEW ranges \in Seq(Ranges),
           chain' = [chain EXCEPT ![h] = bundles], todo' = [todo EXCEPT ![h] = ranges],
           Goto(h, AfterRanges(ranges)),
           Intact(bundles), Pinned(bundles),
           IF ranges = <<>> THEN ChainEnd(bundles) = tip[h]
                            ELSE Leads(ranges, ChainEnd(bundles), tip[h])
    PROVE  SnapshotInv'
<1>1. /\ pc'[h] = AfterRanges(ranges) /\ chain'[h] = bundles /\ todo'[h] = ranges
      /\ tip'[h] = tip[h] /\ completed'[h] = completed[h]
      /\ \A g \in Helpers \ {h} : SameWork(g)
  BY DEF Goto, SameWork, TypeOK, PushTypeOK
<1>2. /\ Recipients(tip[h]) # {}
      /\ \A r \in completed[h] : r.key.scope = tip[h] /\ Inspects(objects, r, tip[h])
  BY DEF SnapshotInv, WorkInv, Leased
<1>3. /\ Intact(chain[h])' /\ Pinned(chain[h])' /\ Recipients(tip[h])' # {}
      /\ \A r \in completed'[h] : r.key.scope = tip'[h] /\ Inspects(objects', r, tip'[h])
  BY <1>1, <1>2, ChainIs, InspectsGrows DEF Recipients
<1>4. WorkInv(h)'
  <2>1. CASE ranges = <<>>
    <3>1. pc'[h] = "manifest" /\ (ChainEnd(chain[h]) = tip[h])'
      BY <1>1, <2>1 DEF AfterRanges, ChainEnd
    <3>. QED  BY <1>3, <3>1, Placed
  <2>2. CASE ranges # <<>>
    <3>1. pc'[h] = "build" /\ Joined(h)'
      BY <1>1, <2>2 DEF AfterRanges, Joined, Leads, ChainEnd
    <3>. QED  BY <1>3, <3>1 DEF WorkInv
  <2>. QED  BY <2>1, <2>2
<1>. QED  BY <1>1, <1>4, OneHelper

LEMMA SnapResume ==
    ASSUME TypeOK, JobInv, SnapshotInv, NEW h \in Helpers, inspectPushPrefix(h)
    PROVE  SnapshotInv'
<1>1. UNCHANGED <<objects, lateBundles, manifests, lateManifests>>
  BY DEF inspectPushPrefix, remoteVars, s3Vars, lateVars
<1>2. StoreInv' /\ objects \subseteq objects'
  BY <1>1, StoreSame DEF SnapshotInv
<1>3. UNCHANGED <<tip, completed>> /\ pc[h] = "resume"
  BY DEF inspectPushPrefix, jobVars
<1>. QED  BY <1>2, <1>3, ResumeOutcome, AfterWork

----------------------------------------------------------------------------
(* Uploading, recording and splitting.                                     *)

\* A push that builds or records: its next key continues its chain.
LEMMA NextFacts ==
    ASSUME TypeOK, JobInv, SnapshotInv, NEW h \in Helpers, pc[h] \in {"build", "record"}
    PROVE  /\ tip[h] \in Commits /\ chain[h] \in Seq(BundleRefs)
           /\ todo[h] \in Seq(Ranges) /\ todo[h] # <<>> /\ Head(todo[h]) \in Ranges
           /\ Intact(chain[h]) /\ Pinned(chain[h]) /\ Recipients(tip[h]) # {}
           /\ Leads(todo[h], ChainEnd(chain[h]), tip[h])
           /\ NextKey(h) \in BundleKeys /\ NextKey(h).scope = tip[h]
           /\ NextKey(h).base = ChainEnd(chain[h])
           /\ ChainEnd(chain[h]) # Zero => Beyond(ChainEnd(chain[h]), NextKey(h).end)
           /\ NextKey(h).end = Last(Head(todo[h]).commits)
<1>1. /\ tip[h] \in Commits /\ chain[h] \in Seq(BundleRefs)
      /\ todo[h] \in Seq(Ranges) /\ todo[h] # <<>>
      /\ Intact(chain[h]) /\ Pinned(chain[h]) /\ Recipients(tip[h]) # {}
      /\ Leads(todo[h], ChainEnd(chain[h]), tip[h])
  BY DEF JobInv, Resolved, Leased, Assembling, TypeOK, PushTypeOK, SnapshotInv, WorkInv, Joined
<1>2. Head(todo[h]) \in Ranges
  BY <1>1
<1>. DEFINE r == Head(todo[h])
<1>3. Sound(r) /\ r.base = ChainEnd(chain[h])
  BY <1>1, LeadsTail
<1>. HIDE DEF r
<1>4. /\ r.base \in Hashes /\ Len(r.commits) \in Nat \ {0} /\ DOMAIN r.commits = 1..Len(r.commits)
      /\ Last(r.commits) = r.commits[Len(r.commits)] /\ Last(r.commits) \in Commits
  BY <1>2, RangeFacts DEF r
<1>5. r.base # Zero => Beyond(r.base, Last(r.commits))
  <2>1. Len(r.commits) \in DOMAIN r.commits
    BY <1>4
  <2>. QED  BY <1>3, <1>4, <2>1 DEF Sound
<1>6. NextKey(h) = [scope |-> tip[h], base |-> r.base, end |-> Last(r.commits)]
  BY DEF NextKey, bundleKey, r
<1>7. /\ NextKey(h) \in BundleKeys /\ NextKey(h).scope = tip[h]
      /\ NextKey(h).base = r.base /\ NextKey(h).end = Last(r.commits)
  BY <1>1, <1>4, <1>6 DEF BundleKeys
<1>. QED  BY <1>1, <1>2, <1>3, <1>5, <1>7 DEF r

\* Recording a bundle that is there, by name or by discovery.
LEMMA RecordOutcome ==
    ASSUME TypeOK, JobInv, SnapshotInv, NEW h \in Helpers, pc[h] \in {"build", "record"},
           NEW ref \in BundleRefs, ref.key = NextKey(h), Inspects(objects, ref, tip[h]),
           RecordRef(h, ref)
    PROVE  \E bundles \in Seq(BundleRefs), ranges \in Seq(Ranges) :
             /\ chain' = [chain EXCEPT ![h] = bundles]
             /\ todo' = [todo EXCEPT ![h] = ranges]
             /\ Goto(h, AfterRanges(ranges))
             /\ Intact(bundles) /\ Pinned(bundles)
             /\ IF ranges = <<>> THEN ChainEnd(bundles) = tip[h]
                                 ELSE Leads(ranges, ChainEnd(bundles), tip[h])
             /\ Adds(bundles, chain[h], tip[h])
<1>. DEFINE c == Checked(objects, ref)
            bundles == Append(chain[h], c)
            ranges == Tail(todo[h])
<1>1. /\ chain' = [chain EXCEPT ![h] = bundles]
      /\ todo' = [todo EXCEPT ![h] = ranges]
      /\ Goto(h, AfterRanges(ranges))
  <2>1. chain[h] \in Seq(BundleRefs) /\ Helpers = DOMAIN chain /\ Helpers = DOMAIN todo
    BY DEF TypeOK, PushTypeOK
  <2>. QED  BY <2>1 DEF RecordRef
<1>2. /\ c \in BundleRefs /\ c.key = NextKey(h)
      /\ c.etag # None /\ c.keys # {} /\ Inspects(objects, c, None)
      /\ c.keys = Recipients(tip[h])
  BY NextFacts, CheckedFacts DEF SnapshotInv
<1>. HIDE DEF c
<1>3. Intact(bundles) /\ ChainEnd(bundles) = NextKey(h).end
  BY <1>2, NextFacts, Extends
<1>4. bundles \in Seq(BundleRefs) /\ Pinned(bundles) /\ Adds(bundles, chain[h], tip[h])
  <2>. DEFINE s == <<c>>
  <2>1. /\ s \in Seq(BundleRefs) /\ DOMAIN s = {1} /\ s[1] = c /\ bundles = chain[h] \o s
    BY <1>2, NextFacts
  <2>. HIDE DEF s, bundles
  <2>2. Pinned(s) /\ \A i \in DOMAIN s : s[i].keys = Recipients(tip[h])
    BY <1>2, <2>1 DEF Pinned
  <2>. QED  BY <2>1, <2>2, NextFacts, JoinFacts
<1>5. ranges \in Seq(Ranges)
  BY NextFacts
<1>6. IF ranges = <<>> THEN ChainEnd(bundles) = tip[h]
                       ELSE Leads(ranges, ChainEnd(bundles), tip[h])
  <2>. HIDE DEF bundles
  <2>1. IF ranges = <<>> THEN Last(Head(todo[h]).commits) = tip[h]
                         ELSE Leads(ranges, Last(Head(todo[h]).commits), tip[h])
    BY NextFacts, LeadsTail
  <2>. QED  BY <1>3, <2>1, NextFacts
<1>. QED  BY <1>1, <1>3, <1>4, <1>5, <1>6

\* A listed leftover, and what was just uploaded, are found.
LEMMA RecordSteps ==
    ASSUME TypeOK, JobInv, SnapshotInv, NEW h \in Helpers, Reuse(h) \/ Record(h)
    PROVE  /\ pc[h] \in {"build", "record"}
           /\ \E ref \in BundleRefs :
                ref.key = NextKey(h) /\ Inspects(objects, ref, tip[h]) /\ RecordRef(h, ref)
<1>1. pc[h] \in {"build", "record"}
  BY DEF Reuse, Record
<1>2. CASE Reuse(h)
  <2>1. PICK ref \in Found(h) : RecordRef(h, ref)
    BY <1>2 DEF Reuse
  <2>2. ref \in completed[h] /\ ref.key = NextKey(h)
    BY DEF Found
  <2>3. ref \in BundleRefs /\ Inspects(objects, ref, tip[h])
    BY <1>1, <2>2 DEF TypeOK, PushTypeOK, SnapshotInv, WorkInv
  <2>. QED  BY <1>1, <2>1, <2>2, <2>3
<1>3. CASE Record(h)
  <2>. DEFINE ref == NextRef(h)
  <2>1. RecordRef(h, ref) /\ pc[h] = "record"
    BY <1>3 DEF Record, NextRef
  <2>2. Inspects(objects, ref, tip[h])
    BY <2>1 DEF SnapshotInv, WorkInv
  <2>3. ref.key = NextKey(h)
    BY DEF NextRef
  <2>4. ref \in BundleRefs
    <3>1. Recipients(tip[h]) \in SUBSET KeyIds
      BY <1>1, NextFacts, RecipientsType
    <3>. QED  BY <1>1, <3>1, NextFacts DEF NextRef, BundleRefs
  <2>. HIDE DEF ref
  <2>. QED  BY <1>1, <2>1, <2>2, <2>3, <2>4
<1>. QED  BY <1>2, <1>3

LEMMA SnapRecord ==
    ASSUME TypeOK, JobInv, SnapshotInv, NEW h \in Helpers, Reuse(h) \/ Record(h)
    PROVE  SnapshotInv'
<1>1. UNCHANGED <<objects, lateBundles, manifests, lateManifests, tip, completed>>
  BY DEF Reuse, Record, remoteVars, s3Vars, lateVars, jobVars
<1>2. StoreInv' /\ objects \subseteq objects'
  BY <1>1, StoreSame DEF SnapshotInv
<1>3. PICK ref \in BundleRefs :
         ref.key = NextKey(h) /\ Inspects(objects, ref, tip[h]) /\ RecordRef(h, ref)
  BY RecordSteps
<1>4. pc[h] \in {"build", "record"}
  BY RecordSteps
<1>. QED  BY <1>1, <1>2, <1>3, <1>4, RecordOutcome, AfterWork

\* Halving the range on top.
LEMMA SnapSplit ==
    ASSUME TypeOK, JobInv, SnapshotInv, NEW h \in Helpers, splitRange(h)
    PROVE  SnapshotInv'
<1>. DEFINE r == Head(todo[h])
            m == Len(r.commits) \div 2
            left == [base |-> r.base, commits |-> SubSeq(r.commits, 1, m)]
            right == [base |-> r.commits[m],
                      commits |-> SubSeq(r.commits, m + 1, Len(r.commits))]
            q == <<left, right>> \o Tail(todo[h])
<1>1. UNCHANGED <<objects, lateBundles, manifests, lateManifests, pc, tip, chain, completed>>
      /\ pc[h] = "build" /\ todo' = [todo EXCEPT ![h] = q] /\ Len(r.commits) > 1
  <2>1. Helpers = DOMAIN todo
    BY DEF TypeOK, PushTypeOK
  <2>. QED  BY <2>1 DEF splitRange, remoteVars, s3Vars, lateVars, jobVars
<1>2. StoreInv' /\ objects \subseteq objects'
  BY <1>1, StoreSame DEF SnapshotInv
<1>3. /\ r \in Ranges /\ Sound(r) /\ todo[h] \in Seq(Ranges) /\ todo[h] # <<>>
      /\ Leads(todo[h], ChainEnd(chain[h]), tip[h])
  BY <1>1, NextFacts, LeadsTail
<1>4. /\ Sound(left) /\ Sound(right)
      /\ Last(left.commits) = right.base /\ Last(right.commits) = Last(r.commits)
      /\ left.base = r.base
  <2>. HIDE DEF r
  <2>1. LET left2 == SubSeq(r.commits, 1, m)
            right2 == SubSeq(r.commits, m + 1, Len(r.commits))
        IN /\ Sound([base |-> r.base, commits |-> left2])
           /\ Sound([base |-> r.commits[m], commits |-> right2])
           /\ Last(left2) = r.commits[m] /\ Last(right2) = Last(r.commits)
    BY <1>1, <1>3, HalvesSound
  <2>. QED  BY <2>1
<1>. HIDE DEF left, right
<1>5. Leads(q, ChainEnd(chain[h]), tip[h])
  BY <1>3, <1>4, LeadsSplit
<1>. HIDE DEF q
<1>6. todo'[h] = q /\ \A g \in Helpers \ {h} : SameWork(g)
  BY <1>1 DEF SameWork, TypeOK, PushTypeOK
<1>7. Joined(h)'
  BY <1>1, <1>5, <1>6 DEF Joined, Leads
<1>8. WorkInv(h)'
  <2>1. WorkInv(h)
    BY DEF SnapshotInv
  <2>2. Recipients(tip[h])' # {} /\ Intact(chain[h])' /\ Pinned(chain[h])'
    BY <1>1, <1>2, NextFacts, ChainIs DEF Recipients
  <2>3. \A s \in completed'[h] : s.key.scope = tip'[h] /\ Inspects(objects', s, tip'[h])
    BY <1>1, <2>1 DEF WorkInv
  <2>. QED  BY <1>1, <1>7, <2>2, <2>3 DEF WorkInv
<1>. QED  BY <1>2, <1>6, <1>8, OneHelper

LEMMA NextFaithful ==
    ASSUME TypeOK, JobInv, SnapshotInv, NEW h \in Helpers, pc[h] = "build"
    PROVE  Faithful(NextObject(h)) /\ NextObject(h).key = NextKey(h)
BY NextFacts DEF Faithful, NextObject

\* A conditional PUT only adds, and only the object it was given.
LEMMA PutFacts ==
    ASSUME NEW o, PutIfAbsent(o)
    PROVE  /\ objects \subseteq objects'
           /\ objects' \subseteq objects \union {o}
           /\ \E p \in objects' : p.key = o.key
BY DEF PutIfAbsent, StoredAt

\* Uploading never fails on what is already there.
LEMMA SnapUpload ==
    ASSUME TypeOK, JobInv, SnapshotInv, NEW h \in Helpers, Upload(h)
    PROVE  SnapshotInv'
<1>1. /\ pc[h] = "build" /\ PutIfAbsent(NextObject(h))
      /\ UNCHANGED <<lateBundles, manifests, lateManifests, tip, chain, completed, todo>>
  BY DEF Upload, lateVars, jobVars, workVars
<1>2. /\ objects \subseteq objects'
      /\ \A o \in objects' : o \in objects \/ o = NextObject(h)
      /\ \E p \in objects' : p.key = NextKey(h)
  BY <1>1, PutFacts, NextFaithful
<1>3. \A o \in objects' \union lateBundles' : Faithful(o)
  BY <1>1, <1>2, NextFaithful DEF SnapshotInv, StoreInv
<1>4. StoreInv'
  BY <1>1, <1>2, <1>3, StoreStep DEF SnapshotInv
<1>5. \A o \in objects' : o.key = NextKey(h) => o.push = tip[h] /\ o.keys = Recipients(tip[h])
  BY <1>1, <1>3, NextFacts DEF Faithful
<1>6. Goto(h, "record")
  BY <1>2, <1>5 DEF Upload, StoredAt
<1>7. pc'[h] = "record" /\ \A g \in Helpers \ {h} : SameWork(g)
  BY <1>1, <1>6 DEF Goto, SameWork, TypeOK, PushTypeOK
<1>8. Inspects(objects', NextRef(h), tip[h]) /\ NextRef(h)' = NextRef(h)
  <2>1. Inspects(objects', NextRef(h), tip[h])
    BY <1>2, <1>5 DEF Inspects, StoredAt, NextRef
  <2>. QED  BY <1>1, <2>1 DEF NextRef, NextKey, Recipients
<1>9. WorkInv(h)'
  <2>1. WorkInv(h)
    BY DEF SnapshotInv
  <2>2. Recipients(tip[h])' # {} /\ Intact(chain[h])' /\ Pinned(chain[h])'
    BY <1>1, <1>2, NextFacts, ChainIs DEF Recipients
  <2>3. \A s \in completed'[h] : s.key.scope = tip'[h] /\ Inspects(objects', s, tip'[h])
    BY <1>1, <1>2, <2>1, InspectsGrows DEF WorkInv
  <2>4. Joined(h)'
    BY <1>1, NextFacts DEF Joined, Leads
  <2>5. (Inspects(objects, NextRef(h), tip[h]))'
    BY <1>1, <1>8
  <2>. QED  BY <1>7, <2>2, <2>3, <2>4, <2>5 DEF WorkInv
<1>. QED  BY <1>2, <1>4, <1>7, <1>9, OneHelper

LEMMA SnapUploadUnknown ==
    ASSUME TypeOK, JobInv, SnapshotInv, NEW h \in Helpers, UploadUnknown(h)
    PROVE  SnapshotInv'
<1>1. /\ pc[h] = "build" /\ Goto(h, "abandon")
      /\ UNCHANGED <<objects, manifests, lateManifests, tip, chain, completed, todo>>
      /\ lateBundles' = lateBundles \union {NextObject(h)}
  BY DEF UploadUnknown, s3Vars, lateVars, jobVars, workVars
<1>2. \A o \in objects' \union lateBundles' : Faithful(o)
  BY <1>1, NextFaithful DEF SnapshotInv, StoreInv
<1>3. StoreInv' /\ objects \subseteq objects'
  BY <1>1, <1>2, StoreStep DEF SnapshotInv
<1>4. "abandon" \notin (Leased \ {"read"}) \union {"broken"}
  BY DEF Leased
<1>. QED  BY <1>1, <1>3, <1>4, QuitStep

----------------------------------------------------------------------------
(* Publishing.                                                             *)

\* What a push is about to store validates and is complete.
LEMMA NewComplete ==
    ASSUME TypeOK, JobInv, SnapshotInv, NEW h \in Helpers, pc[h] = "manifest"
    PROVE  validate(NewManifest(h)) /\ Complete(NewManifest(h))
<1>1. /\ Intact(chain[h]) /\ Pinned(chain[h]) /\ ChainEnd(chain[h]) = tip[h]
      /\ tip[h] \in Commits
  BY DEF SnapshotInv, WorkInv, Leased, Assembling, JobInv, Resolved
<1>2. chain[h] # <<>>
  BY <1>1, HistoryAssumption DEF ChainEnd
<1>3. validate(NewManifest(h))
  BY <1>1, <1>2 DEF validate, NewManifest, Intact, Pinned
<1>. QED  BY <1>1, <1>3 DEF Complete, NewManifest, Intact

LEMMA SnapManifest ==
    ASSUME TypeOK, JobInv, SnapshotInv, NEW h \in Helpers, putManifest(h)
    PROVE  SnapshotInv'
<1>1. /\ pc[h] = "manifest" /\ Goto(h, "commit")
      /\ UNCHANGED <<objects, lateBundles, lateManifests, tip, chain, completed, todo>>
      /\ manifests' = [manifests EXCEPT ![h] = NewManifest(h)]
  BY NewComplete DEF putManifest, lateVars, jobVars, workVars
<1>2. \A k \in ManifestKeys : manifests'[k] = manifests[k] \/ Complete(manifests'[k])
  BY <1>1, NewComplete DEF TypeOK, RemoteTypeOK
<1>3. StoreInv' /\ objects \subseteq objects'
  BY <1>1, <1>2, StoreStep DEF SnapshotInv, StoreInv
<1>4. pc'[h] = "commit" /\ tip'[h] = tip[h] /\ chain'[h] = chain[h]
      /\ \A g \in Helpers \ {h} : SameWork(g)
  BY <1>1, GotoSame
<1>5. Intact(chain[h]) /\ Pinned(chain[h]) /\ Recipients(tip[h]) # {}
  BY <1>1 DEF SnapshotInv, WorkInv, Leased, Assembling
<1>6. Intact(chain[h])' /\ Pinned(chain[h])' /\ Recipients(tip[h])' # {}
  BY <1>3, <1>4, <1>5, ChainIs DEF Recipients
<1>7. WorkInv(h)'
  BY <1>4, <1>6, Placed
<1>. QED  BY <1>3, <1>4, <1>7, OneHelper

LEMMA SnapManifestUnknown ==
    ASSUME TypeOK, JobInv, SnapshotInv, NEW h \in Helpers, putManifestUnknown(h)
    PROVE  SnapshotInv'
<1>1. /\ pc[h] = "manifest" /\ Goto(h, "abandon")
      /\ UNCHANGED <<objects, lateBundles, manifests, tip, chain, completed, todo>>
      /\ lateManifests' = lateManifests \union {[by |-> h, body |-> NewManifest(h)]}
  BY DEF putManifestUnknown, s3Vars, lateVars, jobVars, workVars
<1>2. \A m \in lateManifests' : m \in lateManifests \/ Complete(m.body)
  BY <1>1, NewComplete
<1>3. StoreInv' /\ objects \subseteq objects'
  BY <1>1, <1>2, StoreStep DEF SnapshotInv, StoreInv
<1>4. "abandon" \notin (Leased \ {"read"}) \union {"broken"}
  BY DEF Leased
<1>. QED  BY <1>1, <1>3, <1>4, QuitStep

\* The lease moves and requests land: nobody's work changes.
LEMMA SnapEnvironment ==
    ASSUME TypeOK, SnapshotInv,
           \/ \E h \in Helpers : Renew(h)
           \/ \E r \in Repos : Lapse(r)
           \/ Land /\ UNCHANGED <<pc, jobVars, workVars>>
           \/ UNCHANGED vars
    PROVE  SnapshotInv'
<1>1. \A g \in Helpers : SameWork(g)
  BY DEF Renew, Lapse, SameWork, vars, jobVars, workVars
<1>2. StoreInv' /\ objects \subseteq objects'
  <2>1. CASE \/ \E h \in Helpers : Renew(h)
             \/ \E r \in Repos : Lapse(r)
             \/ LandCommit
             \/ UNCHANGED vars
    <3>1. UNCHANGED <<objects, lateBundles, manifests, lateManifests>>
      BY <2>1 DEF Renew, Lapse, LandCommit, vars, remoteVars, s3Vars, lateVars
    <3>. QED  BY <3>1, StoreSame DEF SnapshotInv
  <2>2. CASE LandDelete
    <3>1. UNCHANGED <<objects, lateBundles, lateManifests>>
      BY <2>2 DEF LandDelete
    <3>2. \A k \in ManifestKeys : manifests'[k] = manifests[k] \/ manifests'[k] = NoManifest
      BY <2>2 DEF LandDelete, TypeOK, RemoteTypeOK
    <3>. QED  BY <3>1, <3>2, StoreStep DEF SnapshotInv, StoreInv
  <2>3. CASE LandManifest
    <3>1. UNCHANGED <<objects, lateBundles>> /\ lateManifests' \subseteq lateManifests
      BY <2>3 DEF LandManifest
    <3>2. \A k \in ManifestKeys : manifests'[k] = manifests[k] \/ Complete(manifests'[k])
      BY <2>3 DEF LandManifest, TypeOK, RemoteTypeOK, SnapshotInv, StoreInv
    <3>. QED  BY <3>1, <3>2, StoreStep DEF SnapshotInv, StoreInv
  <2>4. CASE LandBundle
    <3>1. PICK o \in lateBundles : PutIfAbsent(o) /\ lateBundles' = lateBundles \ {o}
      BY <2>4 DEF LandBundle
    <3>2. UNCHANGED <<manifests, lateManifests>>
      BY <2>4 DEF LandBundle
    <3>3. objects \subseteq objects' /\ objects' \subseteq objects \union {o}
      BY <3>1, PutFacts
    <3>4. \A p \in objects' \union lateBundles' : Faithful(p)
      BY <3>1, <3>3 DEF SnapshotInv, StoreInv
    <3>. QED  BY <3>2, <3>3, <3>4, StoreStep DEF SnapshotInv
  <2>. QED  BY <2>1, <2>2, <2>3, <2>4 DEF Land
<1>. QED  BY <1>1, <1>2, WorkKept DEF SnapshotInv

----------------------------------------------------------------------------
(* The theorems.                                                           *)

LEMMA SnapInit == Init => SnapshotInv
<1>. SUFFICES ASSUME Init PROVE SnapshotInv
  OBVIOUS
<1>1. PICK c \in [LegacyRepos -> {d \in Commits : Recipients(d) # {}}] :
      \E b \in [LegacyRepos -> Branches] :
          /\ manifests = [k \in ManifestKeys |->
                IF k \in LegacyRepos THEN LegacyList(k, c[k], b[k]) ELSE NoManifest]
          /\ objects = {LegacyObject(r, c[r]) : r \in LegacyRepos}
  BY DEF Init
<1>2. PICK b \in [LegacyRepos -> Branches] :
          /\ manifests = [k \in ManifestKeys |->
                IF k \in LegacyRepos THEN LegacyList(k, c[k], b[k]) ELSE NoManifest]
          /\ objects = {LegacyObject(r, c[r]) : r \in LegacyRepos}
  BY <1>1
<1>3. lateBundles = {} /\ lateManifests = {} /\ pc = [h \in Helpers |-> "idle"]
  BY DEF Init
<1>4. \A r \in LegacyRepos : r \in Repos /\ c[r] \in Commits /\ Recipients(c[r]) # {}
  BY PushAssumption
<1>5. \A o \in objects \union lateBundles : Faithful(o)
  <2>. SUFFICES ASSUME NEW r \in LegacyRepos PROVE Faithful(LegacyObject(r, c[r]))
    BY <1>2, <1>3
  <2>1. r \notin Commits
    BY <1>4, SnapshotsAssumption
  <2>. QED  BY <1>4, <2>1 DEF Faithful, LegacyObject
<1>6. ASSUME NEW k \in ManifestKeys, Exists(k) PROVE Complete(manifests[k])
  <2>1. k \in LegacyRepos /\ manifests[k] = LegacyList(k, c[k], b[k])
    BY <1>2, <1>6 DEF Exists
  <2>2. LegacyObject(k, c[k]) \in objects
    BY <1>2, <2>1
  <2>. DEFINE ref == [key |-> LegacyObject(k, c[k]).key, etag |-> None, keys |-> {}]
              ch == <<ref>>
  <2>3. /\ ref.key = LegacyObject(k, c[k]).key /\ ref.etag = None /\ ref.keys = {}
        /\ ref.key.base = Zero /\ ref.key.end = c[k] /\ c[k] \in Commits /\ Zero # c[k]
    BY <1>4, <2>1, HistoryAssumption DEF LegacyObject
  <2>4. Inspects(objects, ref, None)
    BY <2>2, <2>3 DEF Inspects, StoredAt
  <2>. HIDE DEF ref
  <2>5. DOMAIN ch = {1} /\ ch[1] = ref /\ Len(ch) = 1 /\ ch # <<>> /\ Last(ch) = ref
    BY DEF Last
  <2>. HIDE DEF ch
  <2>6. Continuous(ch) /\ ChainEnd(ch) = c[k]
    BY <2>3, <2>5 DEF Continuous, ChainEnd
  <2>7. Ascending(ch)
    BY <2>3, <2>5, HistoryAssumption DEF Ascending, gitBranchContains
  <2>8. ChainInspects(objects, ch)
    <3>1. 2..Len(ch) = {}
      BY <2>5
    <3>. QED  BY <2>4, <2>5, <3>1 DEF ChainInspects
  <2>9. manifests[k].chain = ch /\ manifests[k].legacy = TRUE /\ manifests[k].tip = c[k]
    <3>1. manifests[k] = [repo |-> k, branch |-> b[k], tip |-> c[k], legacy |-> TRUE,
                          chain |-> ch]
      BY <2>1, Zenon DEF LegacyList, ch, ref
    <3>. QED  BY <3>1
  <2>. QED  BY <2>5, <2>6, <2>7, <2>8, <2>9 DEF Complete, validate
<1>7. StoreInv
  BY <1>3, <1>5, <1>6 DEF StoreInv
<1>8. \A h \in Helpers : WorkInv(h)
  BY <1>3 DEF WorkInv, Leased, Assembling
<1>. QED  BY <1>7, <1>8 DEF SnapshotInv

LEMMA SnapNext == TypeOK /\ JobInv /\ SnapshotInv /\ [PushNext]_vars => SnapshotInv'
<1>. SUFFICES ASSUME TypeOK, JobInv, SnapshotInv, [PushNext]_vars PROVE SnapshotInv'
  OBVIOUS
<1>1. CASE \E h \in Helpers : Start(h) \/ Step(h) \/ Fault(h)
  <2>1. PICK h \in Helpers : Start(h) \/ Step(h) \/ Fault(h)
    BY <1>1
  <2>2. CASE Start(h)
    BY <2>2, SnapQuit
  <2>3. CASE Step(h)
    BY <2>3, SnapQuit, SnapDelete, SnapRead, SnapValidate, SnapNamespace, SnapAdopt,
       SnapListing, SnapResume, SnapRecord, SnapSplit, SnapUpload, SnapManifest DEF Step
  <2>4. CASE Fault(h)
    BY <2>4, SnapQuit, SnapUploadUnknown, SnapManifestUnknown, SnapEnvironment DEF Fault
  <2>. QED  BY <2>1, <2>2, <2>3, <2>4
<1>2. CASE (\E r \in Repos : Lapse(r)) \/ UNCHANGED vars
  BY <1>2, SnapEnvironment
<1>3. CASE Land /\ UNCHANGED <<pc, jobVars, workVars>>
  BY <1>3, SnapEnvironment
<1>. QED  BY <1>1, <1>2, <1>3 DEF PushNext

\* The bundles, manifests and chains behind every snapshot (PushInvariant).
THEOREM SnapshotInvariance == Spec => [](TypeOK /\ JobInv /\ SnapshotInv)
<1>1. Init => TypeOK /\ JobInv /\ SnapshotInv
  BY TypeInit, SnapInit
<1>2. TypeOK /\ JobInv /\ SnapshotInv /\ [PushNext]_vars => (TypeOK /\ JobInv /\ SnapshotInv)'
  BY TypeNext, SnapNext
<1>. QED  BY <1>1, <1>2, PTL DEF Spec

\* Every manifest anyone can read is a valid chain along ancestry whose
\* bundles are stored with the recorded identity and recipients, for any
\* number of pushes, repositories and faults (putManifest, uploadBundle).
THEOREM SnapshotsAreComplete == Spec => []SnapshotsComplete
<1>1. SnapshotInv => SnapshotsComplete
  BY DEF SnapshotInv, StoreInv, Complete, SnapshotsComplete
<1>. QED  BY <1>1, SnapshotInvariance, PTL

\* No push ever finds a bundle it relies on missing, replaced or encrypted to
\* others, nor assembles an invalid manifest (record, bundleUploadResult,
\* adoptBundles).
THEOREM ValidationHolds == Spec => []ValidationNeverFails
<1>1. SnapshotInv => ValidationNeverFails
  BY DEF SnapshotInv, WorkInv, ValidationNeverFails
<1>. QED  BY <1>1, SnapshotInvariance, PTL

----------------------------------------------------------------------------
(* First publications: who can decrypt what an empty repository is given.  *)

Known == PublicationInv /\ SnapshotInv /\ FirstInv /\ FirstPublicationReadable

\* What decides whether a push's first publication is readable is unchanged.
SameFirst(g) ==
    /\ pc'[g] = pc[g] /\ old'[g] = old[g] /\ chain'[g] = chain[g] /\ tip'[g] = tip[g]
    /\ pc[g] = "commit" => manifests'[g] = manifests[g]

\* The pointers stay, and no published manifest is rewritten.
LEMMA FirstFrame ==
    ASSUME Known, UNCHANGED <<pointer, published>>,
           \A r \in Repos : \A k \in Keys(r) :
               manifests'[k] = manifests[k] \/ manifests'[k] = NoManifest,
           \A h \in Helpers : SameFirst(h) \/ FirstHelper(h)',
           \A c \in lateCommits' :
               \/ FirstCommit(c)'
               \/ /\ c \in lateCommits /\ manifests'[c.by] = manifests[c.by]
                  /\ owner'[c.repo] = c.by => owner[c.repo] = c.by
    PROVE  FirstInv' /\ FirstPublicationReadable'
<1>1. \A h \in Helpers : FirstHelper(h)'
  BY DEF Known, FirstInv, FirstHelper, SameFirst, ForRecipients, Decryptable
<1>2. \A c \in lateCommits' : FirstCommit(c)'
  BY DEF Known, FirstInv, FirstCommit, ForRecipients, Decryptable
<1>3. FirstPublicationReadable'
  <2>. SUFFICES ASSUME NEW r \in Repos \ LegacyRepos, published[r] # <<>>,
                       manifests'[Head(published[r])] # NoManifest
                PROVE  ForRecipients(manifests'[Head(published[r])])
    BY DEF FirstPublicationReadable, Exists, NoManifest, ForRecipients, Decryptable
  <2>. DEFINE k == Head(published[r])
  <2>1. published[r] \in Seq(ManifestKeys)
    BY DEF Known, PublicationInv, TypeOK, RemoteTypeOK
  <2>2. 1 \in DOMAIN published[r] /\ k = published[r][1]
    BY <2>1
  <2>3. k \in Keys(r)
    BY <2>2 DEF Keys, ToSet
  <2>. HIDE DEF k
  <2>4. manifests'[k] = manifests[k] /\ Exists(k)
    BY <2>3 DEF Exists, k
  <2>5. ForRecipients(manifests[k])
    BY <2>4 DEF Known, FirstPublicationReadable, ForRecipients, Decryptable, k
  <2>. QED  BY <2>4, <2>5 DEF k
<1>. QED  BY <1>1, <1>2, <1>3 DEF FirstInv

\* Steps of one helper that leave pointers, manifests and late commits alone.
LEMMA FirstLocal ==
    ASSUME Known, NEW h \in Helpers,
           UNCHANGED <<pointer, published, manifests, lateCommits>>,
           \A c \in lateCommits : owner'[c.repo] = c.by => owner[c.repo] = c.by,
           \A g \in Helpers \ {h} : SameFirst(g), FirstHelper(h)'
    PROVE  FirstInv' /\ FirstPublicationReadable'
BY FirstFrame

\* A helper at a place where it assembles nothing has nothing to keep.
LEMMA FirstIdle ==
    ASSUME NEW h \in Helpers, pc'[h] \notin Leased \ {"read"}
    PROVE  FirstHelper(h)'
BY DEF FirstHelper, Assembling, Leased

\* Late commits belong to helpers that have given up.
LEMMA LateOwner ==
    ASSUME Known, NEW h \in Helpers, pc[h] \notin GivenUp
    PROVE  \A c \in lateCommits : c.by # h
BY DEF Known, PublicationInv, LateInv, LateCommitOK

LEMMA FirstQuit ==
    ASSUME Known, NEW h \in Helpers,
           \/ Start(h) \/ Lock(h) \/ LockHeld(h) \/ ReadMissing(h)
           \/ CommitRejected(h) \/ UploadUnknown(h) \/ putManifestUnknown(h)
           \/ DeleteUnknown(h) \/ Release(h) \/ ReleaseFails(h) \/ Abort(h)
           \/ LeaseLost(h) \/ Crash(h)
    PROVE  FirstInv' /\ FirstPublicationReadable'
<1>0. TypeOK
  BY DEF Known, PublicationInv
<1>1. UNCHANGED <<pointer, published, manifests, lateCommits>>
  <2>1. CASE \/ Start(h) \/ Lock(h) \/ LockHeld(h) \/ ReadMissing(h)
             \/ CommitRejected(h) \/ UploadUnknown(h) \/ putManifestUnknown(h)
    BY <2>1 DEF Start, Lock, LockHeld, ReadMissing, CommitRejected, UploadUnknown,
       putManifestUnknown, remoteVars, itemVars, s3Vars, lateVars
  <2>2. CASE \/ DeleteUnknown(h) \/ Release(h) \/ ReleaseFails(h) \/ Abort(h)
             \/ LeaseLost(h) \/ Crash(h)
    BY <2>2 DEF DeleteUnknown, Release, ReleaseItem, ReleaseFails, Abort, LeaseLost, Crash,
       remoteVars, itemVars, s3Vars, lateVars
  <2>. QED  BY <2>1, <2>2
<1>2. \A c \in lateCommits : owner'[c.repo] = c.by => owner[c.repo] = c.by
  <2>1. CASE Lock(h)
    <3>1. pc[h] \notin GivenUp /\ repo[h] \in Repos /\ owner' = [owner EXCEPT ![repo[h]] = h]
      BY <2>1 DEF Lock, GivenUp, Known, PublicationInv, JobInv
    <3>2. \A c \in lateCommits : c.by # h /\ c.repo \in Repos
      BY <3>1, LateOwner DEF Known, PublicationInv, TypeOK, RemoteTypeOK
    <3>. QED  BY <1>0, <3>1, <3>2 DEF TypeOK, RemoteTypeOK
  <2>2. CASE Release(h)
    <3>1. repo[h] \in Repos
      BY <2>2 DEF Release, Releasing, Known, PublicationInv, JobInv
    <3>2. \A c \in lateCommits : c.by # None /\ c.repo \in Repos
      BY SnapshotsAssumption DEF Known, PublicationInv, TypeOK, RemoteTypeOK
    <3>. QED  BY <1>0, <2>2, <3>1, <3>2 DEF Release, ReleaseItem, TypeOK, RemoteTypeOK
  <2>3. CASE ~Lock(h) /\ ~Release(h)
    BY <2>3 DEF Start, LockHeld, ReadMissing, CommitRejected, UploadUnknown,
       putManifestUnknown, DeleteUnknown, ReleaseFails, Abort, LeaseLost, Crash,
       remoteVars, itemVars
  <2>. QED  BY <2>1, <2>2, <2>3
<1>3. \/ \E s \in {"lock", "read", "abandon"} : Goto(h, s) /\ UNCHANGED <<tip, chain, old>>
      \/ Lock(h)
      \/ \E s \in Ended : Exit(h, s)
  <2>1. CASE \/ Start(h) \/ Lock(h) \/ LockHeld(h) \/ ReadMissing(h)
             \/ CommitRejected(h) \/ UploadUnknown(h) \/ putManifestUnknown(h)
    BY <2>1 DEF Start, LockHeld, ReadMissing, CommitRejected, UploadUnknown,
       putManifestUnknown, jobVars, workVars, Ended
  <2>2. CASE \/ DeleteUnknown(h) \/ Release(h) \/ ReleaseFails(h) \/ Abort(h)
             \/ LeaseLost(h) \/ Crash(h)
    BY <2>2 DEF DeleteUnknown, Release, ReleaseFails, Abort, LeaseLost, Crash,
       jobVars, workVars, Ended, Outcome
  <2>. QED  BY <2>1, <2>2
<1>4. pc'[h] \notin Leased \ {"read"} /\ \A g \in Helpers \ {h} : SameFirst(g)
  <2>1. ASSUME NEW s \in {"lock", "read", "abandon"}, Goto(h, s), UNCHANGED <<tip, chain, old>>
        PROVE  pc'[h] \notin Leased \ {"read"} /\ \A g \in Helpers \ {h} : SameFirst(g)
    BY <1>0, <1>1, <2>1 DEF Goto, SameFirst, Leased, TypeOK, PushTypeOK
  <2>2. CASE Lock(h)
    BY <1>0, <1>1, <2>2 DEF Lock, Goto, SameFirst, Leased, TypeOK, PushTypeOK, jobVars
  <2>3. ASSUME NEW s \in Ended, Exit(h, s)
        PROVE  pc'[h] \notin Leased \ {"read"} /\ \A g \in Helpers \ {h} : SameFirst(g)
    BY <1>0, <1>1, <2>3 DEF Exit, Goto, SameFirst, Leased, Ended, TypeOK, PushTypeOK, jobVars
  <2>. QED  BY <1>3, <2>1, <2>2, <2>3
<1>. QED  BY <1>1, <1>2, <1>4, FirstIdle, FirstLocal

----------------------------------------------------------------------------
(* What a push assembles stays readable by its tip's recipients.           *)

\* The chain becomes X and the helper goes on assembling, or gives up.
LEMMA FirstChain ==
    ASSUME Known, NEW h \in Helpers, NEW X, NEW s,
           UNCHANGED <<pointer, published, manifests, lateCommits, owner, tip, old>>,
           chain' = [chain EXCEPT ![h] = X], Goto(h, s), s \notin {"commit", "validate"},
           s \in Assembling /\ old[h] = None => Decryptable(X, tip[h])
    PROVE  FirstInv' /\ FirstPublicationReadable'
<1>1. /\ pc'[h] = s /\ chain'[h] = X /\ tip'[h] = tip[h] /\ old'[h] = old[h]
      /\ \A g \in Helpers \ {h} : SameFirst(g)
  BY DEF Goto, SameFirst, Known, PublicationInv, TypeOK, PushTypeOK
<1>2. FirstHelper(h)'
  BY <1>1 DEF FirstHelper, Decryptable, compatibleRecipients
<1>. QED  BY <1>1, <1>2, FirstLocal

\* The chain stays: reading from an assembling place on.
LEMMA FirstGoto ==
    ASSUME Known, NEW h \in Helpers, NEW s,
           UNCHANGED <<pointer, published, manifests, lateCommits, owner, tip, old, chain>>,
           Goto(h, s), s \notin {"commit", "validate"}, pc[h] \in Assembling
    PROVE  FirstInv' /\ FirstPublicationReadable'
<1>1. /\ pc'[h] = s /\ \A g \in Helpers \ {h} : SameFirst(g)
  BY DEF Goto, SameFirst, Known, PublicationInv, TypeOK, PushTypeOK
<1>2. FirstHelper(h)'
  BY <1>1 DEF FirstHelper, Decryptable, compatibleRecipients, Known, FirstInv
<1>. QED  BY <1>1, <1>2, FirstLocal

LEMMA FirstWalk ==
    ASSUME Known, NEW h \in Helpers,
           \/ namespaceManifests(h) \/ AdoptDone(h) \/ listPushBundles(h)
           \/ Upload(h) \/ splitRange(h)
    PROVE  FirstInv' /\ FirstPublicationReadable'
<1>1. UNCHANGED <<pointer, published, manifests, lateCommits, owner, tip, old, chain>>
  BY DEF namespaceManifests, AdoptDone, listPushBundles, Upload, splitRange,
         remoteVars, itemVars, s3Vars, lateVars, jobVars, workVars
<1>2. pc[h] \in Assembling
  BY DEF namespaceManifests, AdoptDone, listPushBundles, Upload, splitRange, Assembling, Leased
<1>3. CASE splitRange(h)
  <2>1. \A g \in Helpers : SameFirst(g)
    BY <1>1, <1>3 DEF splitRange, SameFirst
  <2>. QED  BY <1>1, <2>1, FirstFrame
<1>4. CASE ~splitRange(h)
  <2>1. PICK s \in {"adopt", "manifest", "list", "resume", "record", "broken"} : Goto(h, s)
    BY <1>4 DEF namespaceManifests, AdoptDone, listPushBundles, Upload, AfterBase
  <2>. QED  BY <1>1, <1>2, <2>1, FirstGoto
<1>. QED  BY <1>3, <1>4

LEMMA FirstRead ==
    ASSUME Known, NEW h \in Helpers, Read(h)
    PROVE  FirstInv' /\ FirstPublicationReadable'
<1>1. UNCHANGED <<pointer, published, manifests, lateCommits, owner, old>>
  BY DEF Read, remoteVars, itemVars, s3Vars, lateVars
<1>. DEFINE c == IF old[h] = None THEN <<>> ELSE manifests[old[h]].chain
<1>2. PICK t \in Commits :
        /\ tip' = [tip EXCEPT ![h] = t]
        /\ chain' = [chain EXCEPT ![h] = c]
        /\ Goto(h, CASE ~Pushable(h, t) -> "abandon"
                     [] Pushable(h, t) /\ UpToDate(h, t) -> "finish"
                     [] Pushable(h, t) /\ ~UpToDate(h, t) ->
                          IF old[h] = None THEN "adoptList"
                          ELSE IF manifests[old[h]].legacy THEN "validate"
                          ELSE "list")
  BY DEF Read
<1>3. PICK s \in {"abandon", "finish", "adoptList", "validate", "list"} :
        Goto(h, s) /\ (s = "validate" => old[h] # None)
  BY <1>2
<1>4. /\ pc'[h] = s /\ tip'[h] = t /\ chain'[h] = c /\ old'[h] = old[h]
      /\ \A g \in Helpers \ {h} : SameFirst(g)
  BY <1>1, <1>2, <1>3 DEF Goto, SameFirst, Known, PublicationInv, TypeOK, PushTypeOK
<1>5. old[h] = None => \A i \in DOMAIN c : FALSE
  OBVIOUS
<1>. HIDE DEF c
<1>6. FirstHelper(h)'
  BY <1>3, <1>4, <1>5 DEF FirstHelper, Decryptable
<1>. QED  BY <1>1, <1>4, <1>6, FirstLocal

LEMMA FirstValidate ==
    ASSUME Known, NEW h \in Helpers, ValidateLegacy(h)
    PROVE  FirstInv' /\ FirstPublicationReadable'
<1>1. UNCHANGED <<pointer, published, manifests, lateCommits, owner, tip, old>>
      /\ pc[h] = "validate"
  BY DEF ValidateLegacy, remoteVars, itemVars, s3Vars, lateVars, jobVars
<1>2. old[h] # None
  BY <1>1 DEF Known, FirstInv, FirstHelper
<1>3. \E X, s : /\ chain' = [chain EXCEPT ![h] = X] /\ Goto(h, s)
                /\ s \in {"manifest", "list", "broken"}
  <2>1. chain = [chain EXCEPT ![h] = chain[h]]
    BY DEF Known, PublicationInv, TypeOK, PushTypeOK
  <2>2. chain' = [chain EXCEPT ![h] = CheckedChain(objects, @)] =>
           chain' = [chain EXCEPT ![h] = CheckedChain(objects, chain[h])]
    BY DEF Known, PublicationInv, TypeOK, PushTypeOK
  <2>. QED  BY <2>1, <2>2 DEF ValidateLegacy, AfterBase
<1>. QED  BY <1>1, <1>2, <1>3, FirstChain

LEMMA FirstAdopt ==
    ASSUME Known, NEW h \in Helpers, Adopt(h)
    PROVE  FirstInv' /\ FirstPublicationReadable'
<1>1. UNCHANGED <<pointer, published, manifests, lateCommits, owner, tip, old>>
      /\ pc[h] = "adopt"
  BY DEF Adopt, remoteVars, itemVars, s3Vars, lateVars, jobVars
<1>2. TypeOK /\ SnapshotInv /\ pc[h] \in Assembling
  BY <1>1 DEF Known, PublicationInv, Assembling, Leased
<1>3. CASE Goto(h, "abandon") /\ UNCHANGED chain
  BY <1>1, <1>2, <1>3, FirstGoto
<1>4. CASE UNCHANGED <<pc, chain>>
  <2>1. \A g \in Helpers : SameFirst(g)
    BY <1>1, <1>4 DEF SameFirst
  <2>. QED  BY <1>1, <2>1, FirstFrame
<1>5. ASSUME UNCHANGED pc, NEW X \in Seq(BundleRefs), chain' = [chain EXCEPT ![h] = X],
             Decryptable(X, tip[h])
      PROVE  FirstInv' /\ FirstPublicationReadable'
  <2>1. Goto(h, "adopt")
    BY <1>1, <1>2, <1>5 DEF Goto, TypeOK, PushTypeOK
  <2>. QED  BY <1>1, <1>5, <2>1, FirstChain
<1>. QED  BY <1>2, <1>3, <1>4, <1>5, AdoptOutcome

LEMMA FirstExtend ==
    ASSUME Known, NEW h \in Helpers, inspectPushPrefix(h) \/ Reuse(h) \/ Record(h)
    PROVE  FirstInv' /\ FirstPublicationReadable'
<1>1. UNCHANGED <<pointer, published, manifests, lateCommits, owner, tip, old>>
      /\ pc[h] \in {"resume", "build", "record"}
  BY DEF inspectPushPrefix, Reuse, Record, remoteVars, itemVars, s3Vars, lateVars, jobVars
<1>2. /\ TypeOK /\ JobInv /\ SnapshotInv /\ pc[h] \in Assembling /\ pc[h] \in Resolved
      /\ tip[h] \in Commits
  BY <1>1 DEF Known, PublicationInv, Assembling, Leased, Resolved, JobInv
<1>3. \E bundles \in Seq(BundleRefs), ranges \in Seq(Ranges) :
         /\ chain' = [chain EXCEPT ![h] = bundles]
         /\ Goto(h, AfterRanges(ranges))
         /\ Adds(bundles, chain[h], tip[h])
  <2>1. CASE inspectPushPrefix(h)
    BY <1>2, <2>1, ResumeOutcome
  <2>2. CASE Reuse(h) \/ Record(h)
    <3>1. PICK ref \in BundleRefs :
            ref.key = NextKey(h) /\ Inspects(objects, ref, tip[h]) /\ RecordRef(h, ref)
      BY <1>2, <2>2, RecordSteps
    <3>2. pc[h] \in {"build", "record"}
      BY <1>2, <2>2, RecordSteps
    <3>. QED  BY <1>2, <3>1, <3>2, RecordOutcome
  <2>. QED  BY <2>1, <2>2
<1>4. PICK bundles \in Seq(BundleRefs), ranges \in Seq(Ranges) :
         /\ chain' = [chain EXCEPT ![h] = bundles]
         /\ Goto(h, AfterRanges(ranges))
         /\ Adds(bundles, chain[h], tip[h])
  BY <1>3
<1>5. old[h] = None => Decryptable(bundles, tip[h])
  BY <1>2, <1>4, AddsKeeps DEF Known, FirstInv, FirstHelper
<1>6. AfterRanges(ranges) \notin {"commit", "validate"}
  BY DEF AfterRanges
<1>. QED  BY <1>1, <1>4, <1>5, <1>6, FirstChain

----------------------------------------------------------------------------
(* Publishing for the first time.                                          *)

LEMMA FirstManifest ==
    ASSUME Known, NEW h \in Helpers, putManifest(h)
    PROVE  FirstInv' /\ FirstPublicationReadable'
<1>1. /\ pc[h] = "manifest" /\ Goto(h, "commit")
      /\ UNCHANGED <<pointer, published, owner, lateCommits, tip, chain, old>>
      /\ manifests' = [manifests EXCEPT ![h] = NewManifest(h)]
  BY NewComplete DEF putManifest, itemVars, lateVars, jobVars, workVars,
     Known, PublicationInv
<1>2. /\ pc'[h] = "commit" /\ old'[h] = old[h] /\ manifests'[h] = NewManifest(h)
      /\ \A k \in ManifestKeys \ {h} : manifests'[k] = manifests[k]
      /\ \A g \in Helpers \ {h} : SameFirst(g)
      /\ tip'[h] = tip[h] /\ chain'[h] = chain[h]
  BY <1>1 DEF Goto, SameFirst, Known, PublicationInv, TypeOK, PushTypeOK, RemoteTypeOK,
              ManifestKeys
<1>3. /\ pc[h] \notin GivenUp /\ pc[h] \in Assembling
      /\ old[h] = None => Decryptable(chain[h], tip[h])
  BY <1>1 DEF GivenUp, Assembling, Leased, Known, FirstInv, FirstHelper
<1>4. FirstHelper(h)'
  BY <1>2, <1>3 DEF FirstHelper, ForRecipients, Decryptable, NewManifest
<1>5. Unpublished(h)
  BY <1>1 DEF Known, PublicationInv, HelperInv, OwnKeys, BeforeCommit, Leased
<1>6. \A r \in Repos : \A k \in Keys(r) : manifests'[k] = manifests[k]
  <2>1. \A r \in Repos : \A k \in Keys(r) : k \in ManifestKeys
    BY DEF Keys, ToSet, Known, PublicationInv, TypeOK, RemoteTypeOK
  <2>. QED  BY <1>2, <1>5, <2>1 DEF Unpublished
<1>7. \A c \in lateCommits : manifests'[c.by] = manifests[c.by]
  BY <1>2, <1>3, LateOwner DEF Known, PublicationInv, TypeOK, RemoteTypeOK, ManifestKeys
<1>. QED  BY <1>1, <1>2, <1>4, <1>6, <1>7, FirstFrame

LEMMA FirstCommitUnknown ==
    ASSUME Known, NEW h \in Helpers, CommitUnknown(h)
    PROVE  FirstInv' /\ FirstPublicationReadable'
<1>. DEFINE c == [by |-> h, repo |-> repo[h], branch |-> wants[h]]
<1>1. /\ pc[h] = "commit" /\ Goto(h, "abandon")
      /\ UNCHANGED <<pointer, published, owner, manifests, tip, chain, old>>
      /\ lateCommits' = lateCommits \union {c}
  BY DEF CommitUnknown, itemVars, s3Vars, jobVars, workVars
<1>2. FirstCommit(c)
  <2>1. owner[repo[h]] = h => old[h] = pointer[repo[h]]
    BY <1>1 DEF Known, PublicationInv, HelperInv, FreshUnderLease, Leased
  <2>2. old[h] = None => ForRecipients(manifests[h])
    BY <1>1 DEF Known, FirstInv, FirstHelper
  <2>. QED  BY <2>1, <2>2 DEF FirstCommit
<1>3. c' = c /\ FirstCommit(c)'
  <2>1. UNCHANGED <<repo, wants>>
    BY DEF CommitUnknown, jobVars
  <2>2. c' = c
    BY <2>1
  <2>. HIDE DEF c
  <2>. QED  BY <1>1, <1>2, <2>2 DEF FirstCommit, ForRecipients, Decryptable, compatibleRecipients
<1>. HIDE DEF c
<1>4. /\ pc'[h] = "abandon" /\ \A g \in Helpers \ {h} : SameFirst(g)
  BY <1>1 DEF Goto, SameFirst, Known, PublicationInv, TypeOK, PushTypeOK
<1>5. FirstHelper(h)'
  <2>1. pc'[h] \notin Leased \ {"read"}
    BY <1>4 DEF Leased
  <2>. QED  BY <2>1, FirstIdle
<1>6. \A d \in lateCommits' : d \in lateCommits \/ FirstCommit(d)'
  <2>. SUFFICES ASSUME NEW d \in lateCommits', d \notin lateCommits PROVE FirstCommit(d)'
    OBVIOUS
  <2>1. d = c /\ d' = d
    BY <1>1
  <2>. QED  BY <1>3, <2>1
<1>. QED  BY <1>1, <1>4, <1>5, <1>6, FirstFrame

LEMMA FirstDelete ==
    ASSUME Known, NEW h \in Helpers, DeleteOld(h)
    PROVE  FirstInv' /\ FirstPublicationReadable'
<1>1. /\ pc[h] = "delete" /\ Exit(h, "ok")
      /\ UNCHANGED <<pointer, published, owner, lateCommits>>
      /\ manifests' = [manifests EXCEPT ![old[h]] = NoManifest]
  BY DEF DeleteOld, itemVars, lateVars
<1>2. old[h] \in ManifestKeys /\ repo[h] \in Repos /\ old[h] \in Keys(repo[h])
  BY <1>1 DEF Known, PublicationInv, JobInv, HelperInv, OwnKeys, TypeOK, PushTypeOK
<1>3. \A k \in ManifestKeys : manifests'[k] = manifests[k] \/ manifests'[k] = NoManifest
  BY <1>1 DEF Known, PublicationInv, TypeOK, RemoteTypeOK
<1>4. \A k \in ManifestKeys : Unpublished(k) => manifests'[k] = manifests[k]
  BY <1>1, <1>2 DEF Unpublished, Known, PublicationInv, TypeOK, RemoteTypeOK
<1>5. \A r \in Repos : \A k \in Keys(r) : k \in ManifestKeys
  BY DEF Keys, ToSet, Known, PublicationInv, TypeOK, RemoteTypeOK
<1>6. \A g \in Helpers \ {h} : SameFirst(g)
  <2>1. \A g \in Helpers : pc[g] = "commit" => Unpublished(g) /\ g \in ManifestKeys
    BY DEF Known, PublicationInv, HelperInv, OwnKeys, BeforeCommit, Leased, ManifestKeys
  <2>. QED  BY <1>1, <1>4, <2>1 DEF Exit, Goto, SameFirst, Known, PublicationInv, TypeOK,
            PushTypeOK, jobVars
<1>7. pc'[h] = "ok" /\ FirstHelper(h)'
  <2>1. pc'[h] = "ok"
    BY <1>1 DEF Exit, Goto, Known, PublicationInv, TypeOK, PushTypeOK
  <2>2. pc'[h] \notin Leased \ {"read"}
    BY <2>1 DEF Leased
  <2>. QED  BY <2>1, <2>2, FirstIdle
<1>8. \A c \in lateCommits : manifests'[c.by] = manifests[c.by]
  BY <1>4 DEF Known, PublicationInv, LateInv, LateCommitOK, TypeOK, RemoteTypeOK, ManifestKeys
<1>. QED  BY <1>1, <1>3, <1>5, <1>6, <1>7, <1>8, FirstFrame

\* Moving a pointer: only a readable candidate comes first.
LEMMA FirstPublish ==
    ASSUME Known, NEW h \in Helpers, NEW r \in Repos, NEW b \in Branches,
           CommitItem(h, r, b), UNCHANGED manifests,
           pointer[r] = None => ForRecipients(manifests[h]),
           \A g \in Helpers : SameFirst(g) \/ FirstHelper(g)',
           lateCommits' \subseteq lateCommits
    PROVE  FirstInv' /\ FirstPublicationReadable'
<1>1. /\ published[r] \in Seq(ManifestKeys) /\ published' = [published EXCEPT ![r] = Append(published[r], h)]
      /\ pointer' = [pointer EXCEPT ![r] = h] /\ owner' = [owner EXCEPT ![r] = None]
      /\ published \in [Repos -> Seq(ManifestKeys)]
      /\ pointer \in [Repos -> ManifestKeys \union {None}]
      /\ owner \in [Repos -> Helpers \union {None}]
  BY DEF CommitItem, Known, PublicationInv, TypeOK, RemoteTypeOK
<1>2. \A g \in Helpers : FirstHelper(g)'
  BY DEF Known, FirstInv, FirstHelper, SameFirst, ForRecipients, Decryptable
<1>3. ASSUME NEW c \in lateCommits' PROVE FirstCommit(c)'
  <2>1. c \in lateCommits /\ c.by # None /\ c.repo \in Repos /\ FirstCommit(c)
    BY SnapshotsAssumption DEF Known, FirstInv, PublicationInv, TypeOK, RemoteTypeOK
  <2>2. c' = c
    OBVIOUS
  <2>3. owner'[c.repo] = c.by => c.repo # r
    BY <1>1, <2>1
  <2>. QED  BY <1>1, <2>1, <2>3 DEF FirstCommit, ForRecipients, Decryptable, compatibleRecipients
<1>4. ASSUME NEW s \in Repos \ LegacyRepos, published'[s] # <<>>,
             manifests'[Head(published'[s])] # NoManifest
      PROVE  ForRecipients(manifests'[Head(published'[s])])
  <2>1. CASE \/ published'[s] = published[s]
             \/ published[s] # <<>> /\ Head(published'[s]) = Head(published[s])
    <3>1. published[s] # <<>> /\ Exists(Head(published[s]))
      BY <1>4, <2>1 DEF Exists
    <3>. QED  BY <2>1, <3>1 DEF Known, FirstPublicationReadable, ForRecipients, Decryptable
  <2>2. CASE s = r /\ published[r] = <<>>
    <3>1. Head(published'[s]) = h
      BY <1>1, <2>2
    <3>2. pointer[r] = None
      <4>1. Keys(r) = {}
        BY <2>2 DEF Keys, ToSet
      <4>. QED  BY <4>1 DEF Known, PublicationInv, KeyInv
    <3>. QED  BY <3>1, <3>2
  <2>3. CASE s = r /\ published[r] # <<>>
    <3>1. published'[s] = Append(published[r], h)
      BY <1>1, <2>3
    <3>2. h \in ManifestKeys
      BY DEF ManifestKeys
    <3>3. Head(Append(published[r], h)) = Head(published[r])
      BY <1>1, <2>3, <3>2
    <3>. QED  BY <2>1, <2>3, <3>1, <3>3
  <2>4. s # r => published'[s] = published[s]
    BY <1>1
  <2>. QED  BY <2>1, <2>2, <2>3, <2>4
<1>5. FirstPublicationReadable'
  BY <1>4 DEF FirstPublicationReadable, Exists, NoManifest, ForRecipients, Decryptable
<1>. QED  BY <1>2, <1>3, <1>5 DEF FirstInv

LEMMA FirstCommits ==
    ASSUME Known, NEW h \in Helpers, Commit(h)
    PROVE  FirstInv' /\ FirstPublicationReadable'
<1>1. /\ pc[h] = "commit" /\ CommitItem(h, repo[h], wants[h]) /\ owner[repo[h]] = h
      /\ UNCHANGED <<manifests, lateCommits>>
  BY DEF Commit, CommitItem, s3Vars, lateVars
<1>2. repo[h] \in Repos /\ wants[h] \in Branches
  BY <1>1 DEF Known, PublicationInv, JobInv
<1>3. pointer[repo[h]] = None => ForRecipients(manifests[h])
  <2>1. old[h] = pointer[repo[h]]
    BY <1>1 DEF Known, PublicationInv, HelperInv, FreshUnderLease, Leased
  <2>. QED  BY <1>1, <2>1 DEF Known, FirstInv, FirstHelper
<1>4. pc'[h] \in {"ok", "delete"} /\ \A g \in Helpers \ {h} : SameFirst(g)
  BY <1>1 DEF Commit, Exit, Goto, SameFirst, jobVars, workVars, Known, PublicationInv,
              TypeOK, PushTypeOK
<1>5. FirstHelper(h)'
  <2>1. pc'[h] \notin Leased \ {"read"}
    BY <1>4 DEF Leased
  <2>. QED  BY <2>1, FirstIdle
<1>. QED  BY <1>1, <1>2, <1>3, <1>4, <1>5, FirstPublish

LEMMA FirstEnvironment ==
    ASSUME Known,
           \/ \E h \in Helpers : Renew(h)
           \/ \E r \in Repos : Lapse(r)
           \/ Land /\ UNCHANGED <<pc, jobVars, workVars>>
           \/ UNCHANGED vars
    PROVE  FirstInv' /\ FirstPublicationReadable'
<1>1. UNCHANGED <<pc, old, chain, tip>>
  BY DEF Renew, Lapse, vars, jobVars, workVars
<1>2. CASE \/ \E h \in Helpers : Renew(h)
           \/ \E r \in Repos : Lapse(r)
           \/ LandBundle
           \/ UNCHANGED vars
  <2>1. UNCHANGED <<pointer, published, owner, manifests, lateCommits>>
    BY <1>2 DEF Renew, Lapse, LandBundle, vars, remoteVars, itemVars, s3Vars, lateVars
  <2>2. \A g \in Helpers : SameFirst(g)
    BY <1>1, <2>1 DEF SameFirst
  <2>. QED  BY <2>1, <2>2, FirstFrame
<1>3. CASE LandCommit
  <2>1. PICK c \in lateCommits :
          CommitItem(c.by, c.repo, c.branch) /\ lateCommits' = lateCommits \ {c}
    BY <1>3 DEF LandCommit
  <2>2. /\ c.by \in Helpers /\ c.repo \in Repos /\ c.branch \in Branches
        /\ owner[c.repo] = c.by /\ FirstCommit(c)
    BY <2>1 DEF CommitItem, Known, FirstInv, PublicationInv, TypeOK, RemoteTypeOK
  <2>3. UNCHANGED manifests
    BY <1>3 DEF LandCommit, s3Vars
  <2>4. \A g \in Helpers : SameFirst(g)
    BY <1>1, <2>3 DEF SameFirst
  <2>5. pointer[c.repo] = None => ForRecipients(manifests[c.by])
    BY <2>2 DEF FirstCommit
  <2>. QED  BY <2>1, <2>2, <2>3, <2>4, <2>5, FirstPublish
<1>4. CASE LandDelete
  <2>1. PICK k \in lateDeletes : manifests' = [manifests EXCEPT ![k] = NoManifest]
    BY <1>4 DEF LandDelete
  <2>2. UNCHANGED <<pointer, published, owner, lateCommits>>
    BY <1>4 DEF LandDelete, itemVars
  <2>3. ~Unpublished(k)
    BY DEF Known, PublicationInv, LateInv, Superseded, Unpublished
  <2>4. /\ \A i \in ManifestKeys : manifests'[i] = manifests[i] \/ manifests'[i] = NoManifest
        /\ \A i \in ManifestKeys : Unpublished(i) => manifests'[i] = manifests[i]
    BY <2>1, <2>3 DEF Known, PublicationInv, TypeOK, RemoteTypeOK
  <2>5. \A r \in Repos : \A i \in Keys(r) : i \in ManifestKeys
    BY DEF Keys, ToSet, Known, PublicationInv, TypeOK, RemoteTypeOK
  <2>6. \A g \in Helpers : SameFirst(g)
    <3>1. \A g \in Helpers : pc[g] = "commit" => Unpublished(g) /\ g \in ManifestKeys
      BY DEF Known, PublicationInv, HelperInv, OwnKeys, BeforeCommit, Leased, ManifestKeys
    <3>. QED  BY <1>1, <2>4, <3>1 DEF SameFirst
  <2>7. \A c \in lateCommits : manifests'[c.by] = manifests[c.by]
    BY <2>4 DEF Known, PublicationInv, LateInv, LateCommitOK, TypeOK, RemoteTypeOK, ManifestKeys
  <2>. QED  BY <2>2, <2>4, <2>5, <2>6, <2>7, FirstFrame
<1>5. CASE LandManifest
  <2>1. PICK m \in lateManifests : manifests' = [manifests EXCEPT ![m.by] = m.body]
    BY <1>5 DEF LandManifest
  <2>2. UNCHANGED <<pointer, published, owner, lateCommits>>
    BY <1>5 DEF LandManifest, itemVars
  <2>3. LateManifestOK(m)
    BY DEF Known, PublicationInv, LateInv
  <2>4. \A i \in ManifestKeys : i # m.by => manifests'[i] = manifests[i]
    BY <2>1 DEF Known, PublicationInv, TypeOK, RemoteTypeOK
  <2>5. \A r \in Repos : \A i \in Keys(r) : i \in ManifestKeys /\ i # m.by
    BY <2>3 DEF LateManifestOK, Unpublished, Keys, ToSet, Known, PublicationInv, TypeOK,
       RemoteTypeOK
  <2>6. \A g \in Helpers : SameFirst(g)
    <3>1. \A g \in Helpers : pc[g] = "commit" => g # m.by /\ g \in ManifestKeys
      BY <2>3 DEF LateManifestOK, GivenUp, ManifestKeys
    <3>. QED  BY <1>1, <2>4, <3>1 DEF SameFirst
  <2>7. \A c \in lateCommits : manifests'[c.by] = manifests[c.by]
    BY <2>3, <2>4 DEF LateManifestOK, Known, PublicationInv, TypeOK, RemoteTypeOK, ManifestKeys
  <2>. QED  BY <2>2, <2>4, <2>5, <2>6, <2>7, FirstFrame
<1>. QED  BY <1>2, <1>3, <1>4, <1>5 DEF Land

LEMMA FirstInit == Init => FirstInv /\ FirstPublicationReadable
<1>. SUFFICES ASSUME Init PROVE FirstInv /\ FirstPublicationReadable
  OBVIOUS
<1>1. \A h \in Helpers : FirstHelper(h)
  BY DEF Init, FirstHelper, Assembling, Leased
<1>2. lateCommits = {} /\ \A r \in Repos \ LegacyRepos : published[r] = <<>>
  BY DEF Init
<1>. QED  BY <1>1, <1>2 DEF FirstInv, FirstPublicationReadable

LEMMA FirstNext == Known /\ [PushNext]_vars => FirstInv' /\ FirstPublicationReadable'
<1>. SUFFICES ASSUME Known, [PushNext]_vars PROVE FirstInv' /\ FirstPublicationReadable'
  OBVIOUS
<1>1. CASE \E h \in Helpers : Start(h) \/ Step(h) \/ Fault(h)
  <2>1. PICK h \in Helpers : Start(h) \/ Step(h) \/ Fault(h)
    BY <1>1
  <2>2. CASE Start(h)
    BY <2>2, FirstQuit
  <2>3. CASE Step(h)
    BY <2>3, FirstQuit, FirstRead, FirstValidate, FirstWalk, FirstAdopt, FirstExtend,
       FirstManifest, FirstCommits, FirstDelete DEF Step
  <2>4. CASE Fault(h)
    BY <2>4, FirstQuit, FirstCommitUnknown, FirstEnvironment DEF Fault
  <2>. QED  BY <2>1, <2>2, <2>3, <2>4
<1>2. CASE (\E r \in Repos : Lapse(r)) \/ UNCHANGED vars
  BY <1>2, FirstEnvironment
<1>3. CASE Land /\ UNCHANGED <<pc, jobVars, workVars>>
  BY <1>3, FirstEnvironment
<1>. QED  BY <1>1, <1>2, <1>3 DEF PushNext

\* The whole invariant of the push protocol (PushInvariant).
THEOREM PushInvariance == Spec => []PushInv
<1>1. Init => PushInv
  BY InvInit, SnapInit, FirstInit DEF PushInv
<1>2. PushInv /\ [PushNext]_vars => PushInv'
  <2>. SUFFICES ASSUME PushInv, [PushNext]_vars PROVE PushInv'
    OBVIOUS
  <2>1. PublicationInv' /\ SnapshotInv'
    BY InvNext, SnapNext DEF PushInv, PublicationInv
  <2>2. FirstInv' /\ FirstPublicationReadable'
    BY FirstNext DEF PushInv, Known
  <2>. QED  BY <2>1, <2>2 DEF PushInv
<1>. QED  BY <1>1, <1>2, PTL DEF Spec

\* The first publication of a repository is encrypted to exactly the
\* recipients of its tip, whatever was adopted or resumed (adoptBundles,
\* compatibleRecipients).
THEOREM FirstReadable == Spec => []FirstPublicationReadable
<1>1. PushInv => FirstPublicationReadable
  BY DEF PushInv
<1>. QED  BY <1>1, PushInvariance, PTL
=============================================================================
