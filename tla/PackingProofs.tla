--------------------------- MODULE PackingProofs ----------------------------
(***************************************************************************)
(* For every history, base and tip, and any number of writes by other Git  *)
(* processes: the boundary search is correct, the packed ranges cover the  *)
(* missing history, and a foreign ref is never removed.                    *)
(***************************************************************************)
EXTENDS Packing, SequenceTheorems, TLAPS

Ranges == [base : Hashes, commits : Seq(Commits) \ {<<>>}]
Consumed == [base : Hashes, end : Commits, head : Commits]

\* The binary search has the boundary between low and high: the last one
\* probed below does not contain the base, the first one above does.
SearchInv ==
    step = "search" =>
        /\ consumed = <<>>
        /\ commits \in RevList(base, tip)
        /\ low \in 0..Len(commits) /\ high \in low..Len(commits)
        /\ base # Zero =>
            /\ low > 0 => ~gitBranchContains(commits[low], base)
            /\ high < Len(commits) => gitBranchContains(commits[high + 1], base)

\* Ranges that follow one another from one commit to another.
Joined(from, ranges, to) ==
    /\ ranges # <<>>
    /\ ranges[1].base = from
    /\ \A i \in 2..Len(ranges) : ranges[i].base = Last(ranges[i-1].commits)
    /\ Last(Last(ranges).commits) = to

\* Where the bundles so far end.
Reached == IF consumed = <<>> THEN base ELSE Last(consumed).end

ConsumedInv ==
    /\ consumed \in Seq(Consumed)
    /\ consumed # <<>> => consumed[1].base = base
    /\ \A i \in 1..Len(consumed) :
        /\ consumed[i].head = consumed[i].end
        /\ i > 1 => consumed[i].base = consumed[i-1].end

RangeInv ==
    step \notin {"search", "failed"} =>
        /\ todo \in Seq(Ranges)
        /\ IF step = "ok" THEN Reached = tip ELSE Joined(Reached, todo, tip)
        /\ step = "stat" => packed = End

\* While the transaction holds the lock, the ref is what was verified.
RefInv ==
    /\ writes \in Nat
    /\ ref \in [at : Hashes, symbolic : BOOLEAN]
    /\ step \in {"prepared", "checked"} => locked /\ ref.at = End
    /\ step = "checked" => ~ref.symbolic

PackingInv ==
    /\ tip \in Commits
    /\ base \in (Ancestry[tip] \ {tip}) \union {Zero}
    /\ SearchInv
    /\ SearchFindsBoundaries
    /\ ConsumedInv
    /\ RangeInv
    /\ RefInv

-----------------------------------------------------------------------------
(* Sequences.                                                              *)

\* The end of a line from one of its commits on.
LEMMA Suffix ==
    ASSUME NEW s \in Seq(Commits), NEW n \in 1..Len(s)
    PROVE  LET u == SubSeq(s, n, Len(s)) IN
           /\ u \in Seq(Commits) \ {<<>>}
           /\ Len(u) = Len(s) - n + 1
           /\ \A i \in 1..Len(u) : u[i] = s[n + i - 1]
           /\ Last(u) = Last(s)
<1> DEFINE u == SubSeq(s, n, Len(s))
<1>1. Len(s) \in Nat /\ n \in Nat /\ n <= Len(s) /\ 1 <= n
      /\ \A i \in n..Len(s) : s[i] \in Commits
  OBVIOUS
<1>2. /\ u \in Seq(Commits)
      /\ Len(u) = Len(s) - n + 1
      /\ \A i \in 1..(Len(s) - n + 1) : u[i] = s[n + i - 1]
  BY <1>1, SubSeqProperties
<1> HIDE DEF u
<1>3. u # <<>>
  BY <1>1, <1>2
<1>4. u[Len(u)] = s[Len(s)]
  BY <1>1, <1>2
<1>5. Last(u) = Last(s)
  BY <1>4 DEF Last
<1>6. /\ u \in Seq(Commits) \ {<<>>}
      /\ Len(u) = Len(s) - n + 1
      /\ \A i \in 1..Len(u) : u[i] = s[n + i - 1]
  BY <1>1, <1>2, <1>3
<1> QED
  BY <1>5, <1>6 DEF u

\* The boundaries that Git lists are a part of the line that ends at the tip.
LEMMA RevListEnds ==
    ASSUME NEW b, NEW t \in Commits, NEW c \in RevList(b, t)
    PROVE  c \in Seq(Commits) \ {<<>>} /\ Last(c) = t
<1>1. FirstParents[t] \in Seq(Commits) \ {<<>>} /\ Last(FirstParents[t]) = t
  BY FirstParentAssumption
<1>2. CASE b = Zero
  BY <1>1, <1>2 DEF RevList
<1>3. CASE b # Zero
  <2>1. PICK n \in 1..Len(FirstParents[t]) :
            c = SubSeq(FirstParents[t], n, Len(FirstParents[t]))
    BY <1>3 DEF RevList
  <2> QED
    BY <1>1, <2>1, Suffix
<1> QED
  BY <1>2, <1>3

\* Ends of sequences are their elements.
LEMMA LastIn ==
    ASSUME NEW S, NEW s \in Seq(S), s # <<>>
    PROVE  Last(s) \in S /\ Len(s) \in 1..Len(s)
BY DEF Last

LEMMA Half ==
    ASSUME NEW n \in Nat, n > 1
    PROVE  n \div 2 \in Nat /\ 1 <= n \div 2 /\ n \div 2 < n
BY SMT

LEMMA AtLeastTwo ==
    ASSUME NEW n \in Nat \ {0}, n # 1
    PROVE  n >= 2 /\ n + 1 \in 3..(n + 1) /\ (n + 1) - 1 = n
OBVIOUS

\* Halving a range at a boundary.
LEMMA HalvesJoin ==
    ASSUME NEW r \in Ranges, Len(r.commits) > 1
    PROVE  /\ Halves(r) \in Seq(Ranges) /\ Len(Halves(r)) = 2
           /\ Halves(r)[1].base = r.base
           /\ Halves(r)[2].base = Last(Halves(r)[1].commits)
           /\ Last(Halves(r)[2].commits) = Last(r.commits)
<1> DEFINE c == r.commits
           k == Len(c) \div 2
           a == SubSeq(c, 1, k)
           z == SubSeq(c, k + 1, Len(c))
<1>1. c \in Seq(Commits) /\ Len(c) \in Nat /\ r.base \in Hashes
  BY DEF Ranges
<1>2. k \in Nat /\ 1 <= k /\ k < Len(c)
  BY <1>1, Half
<1> HIDE DEF k
<1>3. /\ a \in Seq(Commits) /\ Len(a) = k /\ a[k] = c[k]
  <2>1. \A i \in 1..k : c[i] \in Commits
    BY <1>1, <1>2
  <2>2. /\ a \in Seq(Commits)
        /\ Len(a) = k
        /\ \A i \in 1..(k - 1 + 1) : a[i] = c[1 + i - 1]
    BY <1>1, <1>2, <2>1, SubSeqProperties
  <2> QED
    BY <1>2, <2>2
<1>4. z \in Seq(Commits) \ {<<>>} /\ Last(z) = Last(c)
  <2>1. k + 1 \in 1..Len(c)
    BY <1>1, <1>2
  <2> QED
    BY <1>1, <2>1, Suffix
<1>5. a # <<>> /\ Last(a) = c[k] /\ c[k] \in Hashes
  BY <1>1, <1>2, <1>3 DEF Last, Hashes
<1>6. Halves(r) = <<[base |-> r.base, commits |-> a], [base |-> c[k], commits |-> z]>>
  <2> USE DEF k
  <2> QED
    BY DEF Halves
<1>7. [base |-> r.base, commits |-> a] \in Ranges /\ [base |-> c[k], commits |-> z] \in Ranges
  BY <1>1, <1>3, <1>4, <1>5 DEF Ranges
<1> HIDE DEF a, z
<1> QED
  BY <1>4, <1>5, <1>6, <1>7

-----------------------------------------------------------------------------
(* What the actions have in common.                                        *)

\* The plan, once made, stays what it is.
LEMMA PlanKept ==
    ASSUME PackingInv, UNCHANGED planVars,
           step \notin {"search", "failed"}, step' # "search"
    PROVE  /\ tip' \in Commits
           /\ base' \in (Ancestry[tip'] \ {tip'}) \union {Zero}
           /\ SearchInv' /\ SearchFindsBoundaries'
BY DEF PackingInv, planVars, SearchInv, SearchFindsBoundaries

\* A step of the work on the current range.
LEMMA RangesKept ==
    ASSUME PackingInv, UNCHANGED <<base, tip, todo, consumed>>,
           step' = "failed" \/ step \notin {"search", "failed"},
           step' = "ok" <=> step = "ok",
           step' = "stat" => packed' = End
    PROVE  ConsumedInv' /\ RangeInv'
<1>1. ConsumedInv'
  BY DEF PackingInv, ConsumedInv
<1>2. Reached' = Reached /\ End' = End
  BY DEF Reached, End, Current
<1>3. CASE step' = "failed"
  BY <1>1, <1>3 DEF RangeInv
<1>4. CASE step' # "failed"
  BY <1>1, <1>2, <1>4 DEF PackingInv, RangeInv, Joined
<1> QED
  BY <1>3, <1>4

\* The current range and those after it.
LEMMA CurrentType ==
    ASSUME PackingInv, step \notin {"search", "failed", "ok"}
    PROVE  /\ todo \in Seq(Ranges) /\ todo # <<>> /\ Len(todo) \in Nat \ {0}
           /\ Joined(Reached, todo, tip)
           /\ Current = todo[1] /\ Current \in Ranges
           /\ End = Last(todo[1].commits) /\ End \in Commits
<1>1. todo \in Seq(Ranges) /\ todo # <<>> /\ Joined(Reached, todo, tip)
  BY DEF PackingInv, RangeInv, Joined
<1>2. Len(todo) \in Nat \ {0} /\ Current = todo[1] /\ Current \in Ranges
  BY <1>1, HeadTailProperties DEF Current
<1>3. End = Last(todo[1].commits) /\ End \in Commits
  BY <1>2, LastIn DEF End, Ranges
<1> QED
  BY <1>1, <1>2, <1>3

\* The current range has been uploaded or reused.
LEMMA ConsumeKeeps ==
    ASSUME PackingInv, step \in {"range", "stat"}, Consumes(End), UNCHANGED <<base, tip>>
    PROVE  ConsumedInv' /\ RangeInv' /\ step' \in {"ok", "range"}
<1> DEFINE entry == [base |-> Current.base, end |-> End, head |-> End]
           n == Len(consumed)
<1>1. /\ todo \in Seq(Ranges) /\ todo # <<>> /\ Len(todo) \in Nat \ {0}
      /\ Joined(Reached, todo, tip)
      /\ Current = todo[1] /\ Current \in Ranges
      /\ End = Last(todo[1].commits) /\ End \in Commits
  BY CurrentType
<1>2. entry \in Consumed /\ consumed \in Seq(Consumed) /\ n \in Nat
  BY <1>1 DEF Consumed, Ranges, PackingInv, ConsumedInv
<1>3. /\ consumed' \in Seq(Consumed) /\ consumed' # <<>>
      /\ Len(consumed') = n + 1
      /\ \A i \in 1..n : consumed'[i] = consumed[i]
      /\ consumed'[n + 1] = entry
  <2>1. consumed' = Append(consumed, entry)
    BY DEF Consumes
  <2> HIDE DEF entry
  <2> QED
    BY <1>2, <2>1, AppendProperties
<1>4. entry.base = Reached /\ entry.head = entry.end
  BY <1>1 DEF Joined
<1>5. ConsumedInv'
  <2>1. consumed'[1].base = base'
    <3>1. CASE n = 0
      BY <1>2, <1>3, <1>4, <3>1 DEF Reached
    <3>2. CASE n # 0
      BY <1>2, <1>3, <3>2 DEF PackingInv, ConsumedInv
    <3> QED
      BY <3>1, <3>2
  <2>2. ASSUME NEW i \in 1..(n + 1)
        PROVE  /\ consumed'[i].head = consumed'[i].end
               /\ i > 1 => consumed'[i].base = consumed'[i-1].end
    <3>1. CASE i <= n
      BY <1>2, <1>3, <3>1 DEF PackingInv, ConsumedInv
    <3>2. CASE i = n + 1 /\ n = 0
      BY <1>3, <1>4, <3>2
    <3>3. CASE i = n + 1 /\ n # 0
      <4>1. Reached = consumed[n].end
        BY <1>2, <3>3 DEF Reached, Last
      <4>2. consumed'[i-1] = consumed[n]
        BY <1>2, <1>3, <3>3
      <4> QED
        BY <1>3, <1>4, <3>3, <4>1, <4>2
    <3> QED
      BY <1>2, <3>1, <3>2, <3>3
  <2> QED
    BY <1>3, <2>1, <2>2 DEF ConsumedInv
<1>6. Reached' = End
  BY <1>2, <1>3 DEF Reached, Last
<1>7. /\ todo' \in Seq(Ranges) /\ Len(todo') = Len(todo) - 1
      /\ \A i \in 1..Len(todo') : todo'[i] = todo[i + 1]
  BY <1>1, HeadTailProperties DEF Consumes
<1>8. CASE Len(todo) = 1
  <2>1. step' = "ok" /\ End = tip
    BY <1>1, <1>8 DEF Consumes, Joined, Last
  <2> QED
    BY <1>5, <1>6, <1>7, <2>1 DEF RangeInv
<1>9. CASE Len(todo) # 1
  <2>1. step' = "range" /\ Len(todo) >= 2
    <3>1. step' = "range"
      BY <1>9, Zenon DEF Consumes
    <3>2. Len(todo) \in Nat \ {0}
      BY <1>1
    <3>3. Len(todo) >= 2
      BY <3>2, <1>9, AtLeastTwo
    <3> QED
      BY <3>1, <3>3
  <2>2. todo'[1] = todo[2] /\ todo' # <<>> /\ Last(todo') = Last(todo)
    BY <1>1, <1>7, <2>1 DEF Last
  <2>3. todo'[1].base = End
    BY <1>1, <2>1, <2>2 DEF Joined
  <2>4. ASSUME NEW i \in 2..Len(todo')
        PROVE  todo'[i].base = Last(todo'[i-1].commits)
    <3>1. i + 1 \in 2..Len(todo) /\ todo'[i] = todo[i + 1] /\ todo'[i-1] = todo[i]
      BY <1>1, <1>7
    <3>2. todo[i + 1].base = Last(todo[(i + 1) - 1].commits)
      BY <1>1, <3>1 DEF Joined
    <3> QED
      BY <3>1, <3>2
  <2>5. Joined(Reached', todo', tip')
    BY <1>1, <1>6, <2>2, <2>3, <2>4 DEF Joined
  <2> QED
    BY <1>5, <1>7, <2>1, <2>5 DEF RangeInv
<1> QED
  BY <1>8, <1>9

\* The current range has been split.
LEMMA SplitKeeps ==
    ASSUME PackingInv, step \in {"range", "stat"}, Splits, UNCHANGED <<base, tip, consumed>>
    PROVE  ConsumedInv' /\ RangeInv' /\ step' = "range"
<1> DEFINE h == Halves(Current)
           t == Tail(todo)
<1>1. /\ todo \in Seq(Ranges) /\ todo # <<>> /\ Len(todo) \in Nat \ {0}
      /\ Joined(Reached, todo, tip)
      /\ Current = todo[1] /\ Current \in Ranges
      /\ End = Last(todo[1].commits)
  BY CurrentType
<1>2. ConsumedInv' /\ Reached' = Reached
  BY DEF PackingInv, ConsumedInv, Reached
<1>3. step' = "range" /\ todo' = h \o t /\ Len(Current.commits) > 1
  BY DEF Splits
<1>4. /\ h \in Seq(Ranges) /\ Len(h) = 2
      /\ h[1].base = Current.base
      /\ h[2].base = Last(h[1].commits)
      /\ Last(h[2].commits) = Last(Current.commits)
  BY <1>1, <1>3, HalvesJoin
<1>5. /\ t \in Seq(Ranges) /\ Len(t) = Len(todo) - 1
      /\ \A i \in 1..Len(t) : t[i] = todo[i + 1]
  BY <1>1, HeadTailProperties
<1> HIDE DEF h, t
<1>6. /\ todo' \in Seq(Ranges)
      /\ Len(todo') = Len(todo) + 1
      /\ todo'[1] = h[1] /\ todo'[2] = h[2]
      /\ \A i \in 3..Len(todo') : todo'[i] = todo[i - 1]
  <2>1. /\ h \o t \in Seq(Ranges)
        /\ Len(h \o t) = Len(h) + Len(t)
        /\ \A i \in 1..Len(h) + Len(t) :
              (h \o t)[i] = IF i <= Len(h) THEN h[i] ELSE t[i - Len(h)]
    BY <1>4, <1>5, ConcatProperties
  <2>2. Len(todo') = Len(todo) + 1
    BY <1>1, <1>3, <1>4, <1>5, <2>1
  <2>3. todo'[1] = h[1] /\ todo'[2] = h[2]
    BY <1>1, <1>3, <1>4, <1>5, <2>1
  <2>4. ASSUME NEW i \in 3..Len(todo') PROVE todo'[i] = todo[i - 1]
    <3>1. i \in 1..Len(h) + Len(t) /\ ~(i <= 2) /\ i - 2 \in 1..Len(t)
      BY <1>1, <1>4, <1>5, <2>2
    <3>2. todo'[i] = t[i - 2]
      BY <1>3, <1>4, <2>1, <3>1
    <3>3. t[i - 2] = todo[(i - 2) + 1]
      BY <1>5, <3>1
    <3> QED
      BY <3>2, <3>3
  <2> QED
    BY <1>3, <2>1, <2>2, <2>3, <2>4
<1>7. Last(Last(todo').commits) = tip
  <2>1. CASE Len(todo) = 1
    BY <1>1, <1>4, <1>6, <2>1 DEF Joined, Last
  <2>2. CASE Len(todo) # 1
    <3>1. Last(todo') = Last(todo)
      <4>1. Len(todo) \in Nat \ {0} /\ Len(todo') = Len(todo) + 1
        BY <1>1, <1>6
      <4>2. Len(todo') \in 3..Len(todo') /\ Len(todo') - 1 = Len(todo)
        BY <2>2, <4>1, AtLeastTwo
      <4>3. todo'[Len(todo')] = todo[Len(todo)]
        BY <1>6, <4>2
      <4> QED
        BY <4>3 DEF Last
    <3> QED
      BY <1>1, <3>1 DEF Joined
  <2> QED
    BY <2>1, <2>2
<1>8. ASSUME NEW i \in 2..Len(todo')
      PROVE  todo'[i].base = Last(todo'[i-1].commits)
  <2>1. CASE i = 2
    BY <1>4, <1>6, <2>1
  <2>2. CASE i = 3
    <3>1. todo'[3] = todo[2] /\ todo[2].base = Last(todo[1].commits)
      BY <1>1, <1>6, <2>2 DEF Joined
    <3> QED
      BY <1>1, <1>4, <1>6, <2>2, <3>1
  <2>3. CASE i > 3
    <3>1. /\ todo'[i] = todo[i - 1] /\ todo'[i-1] = todo[(i - 1) - 1]
          /\ i - 1 \in 2..Len(todo)
      BY <1>1, <1>6, <2>3
    <3> QED
      BY <1>1, <3>1 DEF Joined
  <2> QED
    BY <2>1, <2>2, <2>3
<1>9. Joined(Reached', todo', tip')
  BY <1>1, <1>2, <1>4, <1>6, <1>7, <1>8 DEF Joined
<1> QED
  BY <1>2, <1>3, <1>6, <1>9 DEF RangeInv

-----------------------------------------------------------------------------
(* The boundary search.                                                    *)

\* A part of the line from its commit k on is what pushBundleCommits promises,
\* when k contains the base and the commit before it is outside or does not.
LEMMA BoundaryFound ==
    ASSUME NEW b, NEW t \in Commits, b \in (Ancestry[t] \ {t}) \union {Zero},
           NEW c \in RevList(b, t), NEW k \in 0..(Len(c) - 1),
           b = Zero => k = 0,
           b # Zero => /\ gitBranchContains(c[k + 1], b)
                       /\ k > 0 => ~gitBranchContains(c[k], b)
    PROVE  SubSeq(c, k + 1, Len(c)) \in pushBundleCommits(b, t)
<1> DEFINE line == FirstParents[t]
           L == Len(line)
           K == SubSeq(c, k + 1, Len(c))
<1>1. line \in Seq(Commits) \ {<<>>} /\ L \in Nat \ {0}
      /\ \A i \in 1..L : line[i] \in Commits
  BY FirstParentAssumption
<1> HIDE DEF line, K
<1>2. CASE b = Zero
  <2>1. c = line /\ k = 0
    BY <1>2 DEF RevList, line
  <2>2. K = line
    BY <1>1, <2>1, SubSeqFull DEF K
  <2> QED
    BY <1>2, <2>2 DEF pushBundleCommits, line, K
<1>3. CASE b # Zero
  <2>1. b \in Commits
    BY <1>3, HistoryAssumption
  <2>2. PICK n \in 1..L :
            /\ n..L = {j \in 1..L : line[j] \notin Ancestry[b]}
            /\ c = SubSeq(line, n, L)
    BY <1>3 DEF RevList, line
  <2>3. /\ c \in Seq(Commits) \ {<<>>} /\ Len(c) = L - n + 1
        /\ \A i \in 1..Len(c) : c[i] = line[n + i - 1]
    BY <1>1, <2>2, Suffix
  <2> DEFINE m == n + k
  <2>4. m \in 1..L /\ k + 1 \in 1..Len(c) /\ k \in Nat /\ n \in Nat /\ m \in Nat /\ m \in n..L
        /\ n + (k + 1) - 1 = m
    BY <1>1, <2>2, <2>3
  <2>5. c[k + 1] = line[m] /\ (k > 0 => c[k] = line[m - 1])
    <3>1. c[k + 1] = line[m]
      BY <2>3, <2>4
    <3>2. ASSUME k > 0 PROVE c[k] = line[m - 1]
      <4>1. k \in 1..Len(c) /\ n + k - 1 = m - 1
        BY <2>4, <3>2
      <4> QED
        BY <2>3, <4>1
    <3> QED
      BY <3>1, <3>2
  <2>6. K = SubSeq(line, m, L)
    <3>1. Len(c) \in 1..(L - n + 1) /\ k + 1 \in 1..(L - n + 1) /\ n \in 1..L /\ L \in 1..L
      BY <1>1, <2>3, <2>4
    <3>2. SubSeq(SubSeq(line, n, L), k + 1, Len(c))
              = SubSeq(line, n + (k + 1) - 1, n + Len(c) - 1)
      BY <1>1, <3>1, SubSeqOfSubSeq
    <3>3. n + Len(c) - 1 = L
      BY <1>1, <2>3, <2>4
    <3> QED
      BY <2>2, <2>4, <3>2, <3>3 DEF K
  <2>7. Beyond(b, line[m])
    <3>1. line[m] \notin Ancestry[b]
      BY <2>2, <2>4
    <3>2. b \in Ancestry[b]
      BY <2>1, HistoryAssumption
    <3> QED
      BY <1>3, <2>5, <3>1, <3>2 DEF Beyond
  <2>8. ASSUME m > 1 PROVE ~Beyond(b, line[m - 1])
    <3>1. CASE k > 0
      BY <1>3, <2>5, <3>1 DEF Beyond
    <3>2. CASE k = 0
      <4>1. m - 1 \in 1..L /\ m - 1 \notin n..L
        BY <2>4, <2>8, <3>2
      <4>2. line[m - 1] \in Ancestry[b] /\ line[m - 1] \in Commits
        BY <1>1, <2>2, <4>1
      <4> QED
        BY <2>1, <4>2, HistoryAssumption DEF Beyond, gitBranchContains
    <3> QED
      BY <2>4, <3>1, <3>2
  <2>9. m \in {i \in 1..L : Beyond(b, line[i]) /\ (i > 1 => ~Beyond(b, line[i-1]))}
    BY <2>4, <2>7, <2>8
  <2>10. SubSeq(line, m, L) \in pushBundleCommits(b, t)
    BY <1>3, <2>9 DEF pushBundleCommits, line
  <2> QED
    BY <2>6, <2>10 DEF K
<1> QED
  BY <1>2, <1>3

\* A probe halves the interval and keeps the boundary inside it.
LEMMA SearchStep ==
    ASSUME PackingInv, Search
    PROVE  SearchInv'
<1>1. CASE step' = "failed"
  BY <1>1 DEF SearchInv
<1>2. CASE step' # "failed"
  <2>1. /\ step = "search" /\ base # Zero /\ low < high
        /\ step' = step /\ UNCHANGED <<base, tip, commits, consumed>>
        /\ IF gitBranchContains(commits[Middle + 1], base)
           THEN high' = Middle /\ low' = low
           ELSE low' = Middle + 1 /\ high' = high
    BY <1>2 DEF Search, Fails
  <2>2. /\ commits \in RevList(base, tip) /\ tip \in Commits /\ consumed = <<>>
        /\ low \in 0..Len(commits) /\ high \in low..Len(commits)
        /\ low > 0 => ~gitBranchContains(commits[low], base)
        /\ high < Len(commits) => gitBranchContains(commits[high + 1], base)
    BY <2>1 DEF PackingInv, SearchInv
  <2>3. Len(commits) \in Nat
    BY <2>2, RevListEnds
  <2>4. Middle \in low..(high - 1)
    <3>1. low \in Nat /\ high \in Nat /\ low < high
      BY <2>1, <2>2, <2>3
    <3>2. (high - low) \div 2 \in 0..(high - low - 1)
      BY <3>1
    <3> QED
      BY <3>1, <3>2 DEF Middle
  <2> QED
    BY <2>1, <2>2, <2>3, <2>4 DEF SearchInv
<1> QED
  BY <1>1, <1>2

\* The boundaries that are kept are the right ones, and the first range.
LEMMA SearchEndsStep ==
    ASSUME PackingInv, SearchEnds
    PROVE  SearchInv' /\ SearchFindsBoundaries' /\ ConsumedInv' /\ RangeInv'
<1>1. ConsumedInv'
  BY DEF PackingInv, ConsumedInv, SearchEnds
<1>2. CASE step' = "failed"
  BY <1>1, <1>2 DEF SearchInv, SearchFindsBoundaries, RangeInv
<1>3. CASE step' # "failed"
  <2>1. /\ step = "search" /\ step' = "range" /\ UNCHANGED <<base, tip, low, high, consumed>>
        /\ base = Zero \/ (low = high /\ low # Len(commits))
        /\ commits' = IF base = Zero THEN commits ELSE Kept
        /\ todo' = <<[base |-> base, commits |-> commits']>>
    BY <1>3 DEF SearchEnds, Fails
  <2>2. /\ commits \in RevList(base, tip) /\ tip \in Commits
        /\ base \in (Ancestry[tip] \ {tip}) \union {Zero}
        /\ low \in 0..Len(commits) /\ high \in low..Len(commits)
        /\ base # Zero =>
            /\ low > 0 => ~gitBranchContains(commits[low], base)
            /\ high < Len(commits) => gitBranchContains(commits[high + 1], base)
    BY <2>1 DEF PackingInv, SearchInv
  <2>3. commits \in Seq(Commits) \ {<<>>} /\ Last(commits) = tip /\ Len(commits) \in Nat \ {0}
    BY <2>2, RevListEnds
  <2>4. commits' \in pushBundleCommits(base, tip) /\ commits' \in Seq(Commits) \ {<<>>}
        /\ Last(commits') = tip
    <3>1. CASE base = Zero
      <4>1. commits' = commits /\ commits = SubSeq(commits, 0 + 1, Len(commits))
        BY <2>1, <2>3, <3>1, SubSeqFull
      <4>2. 0 \in 0..(Len(commits) - 1)
        BY <2>3
      <4>3. SubSeq(commits, 0 + 1, Len(commits)) \in pushBundleCommits(base, tip)
        BY <2>2, <3>1, <4>2, BoundaryFound
      <4> QED
        BY <2>3, <4>1, <4>3
    <3>2. CASE base # Zero
      <4>1. low \in 0..(Len(commits) - 1) /\ low + 1 \in 1..Len(commits) /\ low = high
            /\ high < Len(commits)
        BY <2>1, <2>2, <2>3, <3>2
      <4>2. commits' = SubSeq(commits, low + 1, Len(commits))
        BY <2>1, <3>2 DEF Kept
      <4>3. SubSeq(commits, low + 1, Len(commits)) \in pushBundleCommits(base, tip)
        <5>1. /\ gitBranchContains(commits[low + 1], base)
              /\ low > 0 => ~gitBranchContains(commits[low], base)
          BY <2>2, <3>2, <4>1
        <5> QED
          BY <2>2, <3>2, <4>1, <5>1, BoundaryFound
      <4> QED
        BY <2>3, <4>1, <4>2, <4>3, Suffix
    <3> QED
      BY <3>1, <3>2
  <2>5. SearchInv' /\ SearchFindsBoundaries'
    BY <2>1, <2>4 DEF SearchInv, SearchFindsBoundaries
  <2> DEFINE r == [base |-> base, commits |-> commits']
  <2>6. r \in Ranges
    BY <2>2, <2>4, HistoryAssumption DEF Ranges, Hashes
  <2>7. Reached' = base /\ tip' = tip
    BY <2>1 DEF PackingInv, SearchInv, Reached, SearchEnds
  <2>8. /\ todo' \in Seq(Ranges) /\ Len(todo') = 1 /\ todo' # <<>>
        /\ todo'[1] = r /\ Last(todo') = r
    <3>1. todo' = <<r>>
      BY <2>1
    <3> HIDE DEF r
    <3> QED
      BY <2>6, <3>1 DEF Last
  <2>9. Joined(Reached', todo', tip')
    <3>1. todo'[1].base = base /\ Last(Last(todo').commits) = tip
      BY <2>4, <2>8
    <3> QED
      BY <2>7, <2>8, <3>1 DEF Joined
  <2>10. RangeInv'
    BY <2>1, <2>8, <2>9 DEF RangeInv
  <2> QED
    BY <1>1, <2>5, <2>10
<1> QED
  BY <1>2, <1>3

-----------------------------------------------------------------------------
(* The invariant.                                                          *)

LEMMA RefTypes ==
    /\ Absent \in [at : Hashes, symbolic : BOOLEAN]
    /\ \A r \in Refs : r \in [at : Hashes, symbolic : BOOLEAN]
<1>1. Absent \in [at : Hashes, symbolic : BOOLEAN]
  BY DEF Absent, Hashes
<1>2. ASSUME NEW r \in [at : Commits, symbolic : BOOLEAN]
      PROVE  r \in [at : Hashes, symbolic : BOOLEAN]
  BY <1>2, SMT DEF Hashes
<1> QED
  BY <1>1, <1>2 DEF Refs

\* It holds before anything is done.
LEMMA InitHolds == PackingInit => PackingInv
<1> SUFFICES ASSUME PackingInit PROVE PackingInv
  OBVIOUS
<1>1. tip \in Commits /\ base \in (Ancestry[tip] \ {tip}) \union {Zero}
  BY DEF PackingInit
<1>2. SearchInv
  <2>1. Len(commits) \in Nat
    BY <1>1, RevListEnds DEF PackingInit
  <2> QED
    BY <2>1 DEF PackingInit, SearchInv
<1>3. ConsumedInv
  BY DEF PackingInit, ConsumedInv
<1>4. RefInv
  BY HistoryAssumption DEF PackingInit, RefInv, Absent, Hashes
<1> QED
  BY <1>1, <1>2, <1>3, <1>4 DEF PackingInv, PackingInit, SearchFindsBoundaries, RangeInv

\* Actions that leave the plan and the ranges alone and move on from one step of
\* the work on a range to another.
LEMMA WorkKept ==
    ASSUME PackingInv, UNCHANGED <<planVars, todo, consumed>>,
           step \notin {"search", "ok", "failed"},
           step' \notin {"search", "ok"},
           step' = "stat" => packed' = End,
           RefInv'
    PROVE  PackingInv'
<1>1. /\ tip' \in Commits
      /\ base' \in (Ancestry[tip'] \ {tip'}) \union {Zero}
      /\ SearchInv' /\ SearchFindsBoundaries'
  BY PlanKept
<1>2. ConsumedInv' /\ RangeInv'
  BY RangesKept DEF planVars
<1> QED
  BY <1>1, <1>2 DEF PackingInv

\* Every step keeps it.
LEMMA StepKeeps == PackingInv /\ [PackingNext]_packingVars => PackingInv'
<1> SUFFICES ASSUME PackingInv, [PackingNext]_packingVars PROVE PackingInv'
  OBVIOUS
<1>1. CASE Search
  <2>1. SearchInv'
    BY <1>1, SearchStep
  <2>2. /\ step = "search" /\ step' \in {"search", "failed"}
        /\ UNCHANGED <<base, tip, commits, todo, ref, packed, consumed, writes>>
    BY <1>1 DEF Search, Fails
  <2>3. ConsumedInv' /\ RangeInv' /\ SearchFindsBoundaries'
    BY <2>2 DEF PackingInv, ConsumedInv, RangeInv, SearchFindsBoundaries
  <2>4. RefInv'
    BY <2>2 DEF PackingInv, RefInv
  <2> QED
    BY <2>1, <2>2, <2>3, <2>4 DEF PackingInv
<1>2. CASE SearchEnds
  <2>1. SearchInv' /\ SearchFindsBoundaries' /\ ConsumedInv' /\ RangeInv'
    BY <1>2, SearchEndsStep
  <2>2. step' \in {"range", "failed"} /\ UNCHANGED <<base, tip, ref, writes>>
    BY <1>2 DEF SearchEnds, Fails
  <2>3. RefInv'
    BY <2>2 DEF PackingInv, RefInv
  <2> QED
    BY <2>1, <2>2, <2>3 DEF PackingInv
<1>3. CASE TakeRange
  <2>1. step = "range" /\ UNCHANGED planVars /\ ref' = Absent /\ writes' = writes
    BY <1>3 DEF TakeRange
  <2>2. /\ Absent \in [at : Hashes, symbolic : BOOLEAN]
        /\ writes \in Nat
    BY DEF PackingInv, RefInv, Absent, Hashes
  <2>3. CASE Consumes(End)
    <3>1. ConsumedInv' /\ RangeInv' /\ step' \in {"ok", "range"}
      BY <2>1, <2>3, ConsumeKeeps DEF planVars
    <3> QED
      BY <2>1, <2>2, <3>1, PlanKept DEF PackingInv, RefInv
  <2>4. CASE Splits /\ UNCHANGED consumed
    <3>1. ConsumedInv' /\ RangeInv' /\ step' = "range"
      BY <2>1, <2>4, SplitKeeps DEF planVars
    <3> QED
      BY <2>1, <2>2, <3>1, PlanKept DEF PackingInv, RefInv
  <2>5. CASE step' \in {"pin", "failed"} /\ UNCHANGED <<todo, consumed>>
    <3>1. RefInv'
      BY <2>1, <2>2, <2>5 DEF RefInv
    <3> QED
      BY <2>1, <2>5, <3>1, WorkKept
  <2> QED
    BY <1>3, <2>3, <2>4, <2>5 DEF TakeRange, Fails
<1>4. CASE Pin
  <2>1. /\ step = "pin" /\ step' \in {"pack", "failed"} /\ writes' = writes
        /\ ref' \in {ref, Direct(End)}
        /\ UNCHANGED <<planVars, todo, consumed>>
    BY <1>4 DEF Pin, Fails
  <2>2. Direct(End) \in [at : Hashes, symbolic : BOOLEAN]
    BY <2>1, CurrentType DEF Direct, Hashes
  <2>3. RefInv'
    BY <2>1, <2>2 DEF PackingInv, RefInv
  <2> QED
    BY <2>1, <2>3, WorkKept
<1>5. CASE Bundle
  <2>1. /\ step = "pack" /\ step' = "cleanup" /\ UNCHANGED <<ref, writes>>
        /\ UNCHANGED <<planVars, todo, consumed>>
    BY <1>5 DEF Bundle
  <2>2. RefInv'
    BY <2>1 DEF PackingInv, RefInv
  <2> QED
    BY <2>1, <2>2, WorkKept
<1>6. CASE Prepare
  <2>1. /\ step = "cleanup" /\ UNCHANGED <<ref, writes>>
        /\ UNCHANGED <<planVars, todo, consumed>>
        /\ \/ step' = "failed"
           \/ step' = "prepared" /\ locked' /\ ref.at = End
    BY <1>6 DEF Prepare, Fails, Locks
  <2>2. End' = End
    BY <2>1 DEF End, Current
  <2>3. RefInv'
    BY <2>1, <2>2 DEF PackingInv, RefInv
  <2> QED
    BY <2>1, <2>3, WorkKept
<1>7. CASE CheckType
  <2>1. /\ step = "prepared" /\ UNCHANGED <<ref, writes>>
        /\ UNCHANGED <<planVars, todo, consumed>>
        /\ \/ step' = "failed"
           \/ step' = "checked" /\ locked' = locked /\ ~ref.symbolic
    BY <1>7 DEF CheckType, Fails
  <2>2. End' = End
    BY <2>1 DEF End, Current
  <2>3. RefInv'
    BY <2>1, <2>2 DEF PackingInv, RefInv
  <2> QED
    BY <2>1, <2>3, WorkKept
<1>8. CASE Commit
  <2>1. /\ step = "checked" /\ ref' = Absent /\ UNCHANGED <<writes, packed>>
        /\ UNCHANGED <<planVars, todo, consumed>>
        /\ step' \in {"stat", "failed"} /\ (step' = "stat" => packed = End)
    BY <1>8 DEF Commit, HeadIsPlanned
  <2>2. RefInv'
    BY <2>1 DEF PackingInv, RefInv, Absent, Hashes
  <2> QED
    BY <2>1, <2>2, WorkKept
<1>9. CASE CleanupFails
  <2>1. /\ step \in Cleanup /\ ref' \in {ref, Absent} /\ step' = "failed"
        /\ UNCHANGED <<planVars, todo, consumed, writes>>
    BY <1>9 DEF CleanupFails, Fails
  <2>2. ref' \in [at : Hashes, symbolic : BOOLEAN]
    BY <2>1, RefTypes DEF PackingInv, RefInv
  <2>3. RefInv'
    BY <2>1, <2>2 DEF PackingInv, RefInv
  <2> QED
    BY <2>1, <2>3, WorkKept DEF Cleanup
<1>10. CASE Finish
  <2>1. step = "stat" /\ packed = End /\ UNCHANGED <<planVars, ref, writes>>
    BY <1>10 DEF Finish, PackingInv, RangeInv
  <2>2. CASE Splits /\ UNCHANGED consumed
    <3>1. ConsumedInv' /\ RangeInv' /\ step' = "range"
      BY <2>1, <2>2, SplitKeeps DEF planVars
    <3> QED
      BY <2>1, <3>1, PlanKept DEF PackingInv, RefInv
  <2>3. CASE Consumes(packed)
    <3>1. ConsumedInv' /\ RangeInv' /\ step' \in {"ok", "range"}
      BY <2>1, <2>3, ConsumeKeeps DEF planVars
    <3> QED
      BY <2>1, <3>1, PlanKept DEF PackingInv, RefInv
  <2>4. CASE step' = "failed" /\ UNCHANGED <<todo, consumed>>
    <3>1. RefInv'
      BY <2>1, <2>4 DEF PackingInv, RefInv
    <3> QED
      BY <2>1, <2>4, <3>1, WorkKept
  <2> QED
    BY <1>10, <2>2, <2>3, <2>4 DEF Finish, Fails
<1>11. CASE Cancel \/ UNCHANGED packingVars
  <2>1. UNCHANGED <<planVars, step, todo, ref, locked, packed, consumed, writes>>
    BY <1>11 DEF Cancel, packingVars, planVars
  <2>2. End' = End /\ Reached' = Reached
    BY <2>1 DEF End, Current, Reached, planVars
  <2>3. SearchInv' /\ SearchFindsBoundaries' /\ ConsumedInv' /\ RangeInv' /\ RefInv'
    BY <2>1, <2>2 DEF PackingInv, SearchInv, SearchFindsBoundaries, ConsumedInv, RangeInv,
                      RefInv, planVars, Joined
  <2> QED
    BY <2>1, <2>3 DEF PackingInv, planVars
<1>12. CASE ForeignWrite
  <2>1. /\ step \in Cleanup \union {"pin", "pack"} /\ ~locked
        /\ writes' = writes + 1 /\ ref' \in Refs
        /\ UNCHANGED <<planVars, step, todo, locked, packed, consumed>>
    BY <1>12 DEF ForeignWrite
  <2>2. ref' \in [at : Hashes, symbolic : BOOLEAN]
    BY <2>1, RefTypes
  <2>3. step' \notin {"prepared", "checked"} /\ writes' \in Nat
    BY <2>1 DEF PackingInv, RefInv
  <2>4. RefInv'
    BY <2>2, <2>3 DEF RefInv
  <2> QED
    BY <2>1, <2>4, WorkKept DEF Cleanup
<1> QED
  BY <1>1, <1>2, <1>3, <1>4, <1>5, <1>6, <1>7, <1>8, <1>9, <1>10, <1>11, <1>12
     DEF PackingNext

LEMMA Invariance == PackingSpec => []PackingInv
<1> QED
  BY InitHolds, StepKeeps, PTL DEF PackingSpec

(***************************************************************************)
(* The binary search of pushBundleCommits is correct for every history: it *)
(* needs no more of the probes than the two around the boundary.           *)
(***************************************************************************)
THEOREM SearchCorrect == PackingSpec => []SearchFindsBoundaries
<1>1. PackingInv => SearchFindsBoundaries
  BY DEF PackingInv
<1> QED
  BY <1>1, Invariance, PTL

(***************************************************************************)
(* A pack run that succeeds covers the missing history from the base to    *)
(* the tip without a gap, in bundles of the planned heads: however the     *)
(* ranges were split and whatever other processes did to the pinned refs.  *)
(***************************************************************************)
THEOREM PackingCovers == PackingSpec => []PackedRangesCover
<1>1. ASSUME PackingInv PROVE PackedRangesCover
  <2> SUFFICES ASSUME step = "ok" PROVE PackedRangesCover
    BY DEF PackedRangesCover
  <2>1. Reached = tip /\ ConsumedInv
    BY <1>1 DEF PackingInv, RangeInv
  <2>2. base # tip
    BY <1>1, HistoryAssumption DEF PackingInv
  <2>3. consumed # <<>> /\ Last(consumed).end = tip
    BY <2>1, <2>2 DEF Reached
  <2>4. DOMAIN consumed = 1..Len(consumed)
    BY <2>1 DEF ConsumedInv
  <2> QED
    BY <2>1, <2>3, <2>4 DEF ConsumedInv, PackedRangesCover
<1> QED
  BY <1>1, Invariance, PTL

(***************************************************************************)
(* createPinnedPushBundle creates its ref only where there is none and     *)
(* removePinnedPushRef removes only the direct ref it pinned, with any     *)
(* number of writes by other processes between its steps.                  *)
(***************************************************************************)
THEOREM ForeignRefsKept == PackingSpec => ForeignRefsSurvive
<1>1. ASSUME PackingInv, [PackingNext]_packingVars
      PROVE  [(writes' = writes /\ ref' # ref /\ step \in Cleanup \union {"pin"}) =>
                 Direct(End) \in {ref, ref'} /\ Absent \in {ref, ref'}]_packingVars
  <2> SUFFICES ASSUME PackingNext, writes' = writes, ref' # ref, step \in Cleanup \union {"pin"}
               PROVE  Direct(End) \in {ref, ref'} /\ Absent \in {ref, ref'}
    BY <1>1
  <2>1. CASE Pin
    BY <2>1 DEF Pin
  <2>2. CASE Commit \/ CleanupFails
    <3>1. step = "checked" /\ ref' = Absent
      BY <2>2 DEF Commit, CleanupFails
    <3>2. ref \in [at : Hashes, symbolic : BOOLEAN] /\ ref.at = End /\ ~ref.symbolic
      BY <1>1, <3>1 DEF PackingInv, RefInv
    <3>3. ref = Direct(End)
      BY <3>2 DEF Direct
    <3> QED
      BY <3>1, <3>3
  <2>3. ~ForeignWrite
    BY <1>1 DEF ForeignWrite, PackingInv, RefInv
  <2>4. CASE Prepare \/ CheckType \/ Cancel
    BY <2>4 DEF Prepare, CheckType, Cancel
  <2>5. ~(Search \/ SearchEnds \/ TakeRange \/ Bundle \/ Finish)
    BY DEF Search, SearchEnds, TakeRange, Bundle, Finish, Cleanup
  <2> QED
    BY <2>1, <2>2, <2>3, <2>4, <2>5 DEF PackingNext
<1> QED
  BY <1>1, Invariance, PTL DEF PackingSpec, ForeignRefsSurvive
=============================================================================
