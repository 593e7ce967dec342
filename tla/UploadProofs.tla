---------------------------- MODULE UploadProofs ----------------------------
(***************************************************************************)
(* What uploads guarantee for any number of callers, tips, sizes and all   *)
(* limits, and any combination of lost, late and repeated requests: that   *)
(* parts always fit, and that concurrent uploads of one key implement      *)
(* StoredBundle.  UploadInv is shown inductive: a step of one job leaves   *)
(* the others as they were (JobAdvances), and only adds what is whole.     *)
(***************************************************************************)
EXTENDS UploadInvariant, WellFoundedInduction, TLAPS

----------------------------------------------------------------------------
(* The size of the parts.                                                  *)

\* Quotient and remainder.
LEMMA Division ==
    ASSUME NEW n \in Nat, NEW d \in Nat, 0 < d
    PROVE  /\ n \div d \in Nat /\ n % d \in 0..(d - 1)
           /\ n = d * (n \div d) + (n % d)
  BY SMT

\* A product is monotone in a factor.
LEMMA Monotone ==
    ASSUME NEW a \in Nat, NEW b \in Nat, NEW c \in Nat, a <= b
    PROVE  c * a <= c * b
  BY SMT

\* Full parts and a rest reach the end within the limits, or none could.
PartsFit(total) ==
    LET usual == multipartBundlePartSize(total) IN
    IF usual = TooLarge
    THEN maxUploadParts * maxUploadPartSize < total
    ELSE /\ bundleUploadPartSize <= usual /\ usual <= maxUploadPartSize
         /\ total <= maxUploadParts * usual

(***************************************************************************)
(* The parts of an accepted size reach its end within S3's limits, and a   *)
(* size is refused only when no legal parts could (multipartBundlePartSize *)
(* with the loop of multipartUploadBundle, which sends full parts and a    *)
(* rest).  It needs the usual part to be at least as large as the number   *)
(* of parts, as 64 MiB and 10,000 are: with fewer bytes than parts, the    *)
(* rounding would not be enough.                                           *)
(***************************************************************************)
THEOREM EveryPartFits == \A total \in Nat : PartsFit(total)
<1> SUFFICES ASSUME NEW total \in Nat PROVE PartsFit(total)
  OBVIOUS
<1> DEFINE p == bundleUploadPartSize
           n == maxUploadParts
           m == maxUploadPartSize
           q == total \div n
           usual == LargerOf(p, q)
           k == total \div usual
           rounded == IF k >= n /\ total % usual # 0 THEN usual + 1 ELSE usual
<1>1. /\ p \in Nat /\ n \in Nat /\ m \in Nat
      /\ 0 < n /\ n <= p /\ p <= m
  BY PartSizeAssumption
<1>2. /\ q \in Nat /\ total % n \in 0..(n - 1) /\ total = n * q + (total % n)
  BY <1>1, Division
<1>3. usual \in Nat /\ p <= usual /\ q <= usual /\ (usual = p \/ usual = q)
  BY <1>1, <1>2 DEF LargerOf
<1>4. /\ k \in Nat /\ total % usual \in 0..(usual - 1) /\ total = usual * k + (total % usual)
  <2>1. usual \in Nat /\ 0 < usual
    BY <1>1, <1>3
  <2> HIDE DEF usual
  <2> QED
    BY <2>1, Division
<1>5. total < n * (usual + 1)
  <2> HIDE DEF usual, q
  <2>1. n * q <= n * usual
    BY <1>1, <1>2, <1>3, Monotone
  <2>2. total < n * q + n
    BY <1>1, <1>2
  <2>3. n * (usual + 1) = n * usual + n
    BY <1>1, <1>3
  <2> QED
    BY <1>1, <1>2, <1>3, <2>1, <2>2, <2>3
<1>6. total <= n * rounded
  <2> DEFINE r == total % usual
  <2>1. /\ usual \in Nat /\ k \in Nat /\ r \in Nat /\ r < usual /\ total = usual * k + r
        /\ n \in Nat /\ n <= usual
    BY <1>1, <1>3, <1>4
  <2>2. CASE k >= n /\ r # 0
    <3>1. rounded = usual + 1
      BY <2>2
    <3> QED
      BY <1>1, <1>3, <1>5, <3>1
  <2>3. CASE k < n
    <3>1. rounded = usual
      BY <2>3, <1>1, <2>1
    <3> HIDE DEF usual, k, r, rounded
    <3>2. usual * (k + 1) <= usual * n
      BY <2>1, <2>3, Monotone
    <3>3. usual * (k + 1) = usual * k + usual
      BY <2>1
    <3>4. usual * n = n * usual
      BY <2>1
    <3> QED
      BY <2>1, <3>1, <3>2, <3>3, <3>4
  <2>4. CASE k >= n /\ r = 0
    <3>1. rounded = usual
      BY <2>4
    <3>2. total < n * (usual + 1)
      BY <1>5
    <3> HIDE DEF usual, k, r, rounded
    <3>3. n * (usual + 1) = usual * n + n /\ usual * (n + 1) = usual * n + usual
      BY <2>1
    <3>4. usual * k < usual * (n + 1)
      BY <2>1, <2>4, <3>2, <3>3
    <3>5. ~(n + 1 <= k)
      BY <2>1, <3>4, Monotone
    <3>6. k = n
      BY <2>1, <2>4, <3>5
    <3>7. usual * n = n * usual
      BY <2>1
    <3> QED
      BY <2>1, <2>4, <3>1, <3>6, <3>7
  <2> HIDE DEF usual, k, r, rounded
  <2>5. (k >= n /\ r # 0) \/ k < n \/ (k >= n /\ r = 0)
    BY <2>1
  <2> QED
    BY <2>2, <2>3, <2>4, <2>5
<1>7. rounded > m => n * m < total
  <2> SUFFICES ASSUME rounded > m PROVE n * m < total
    OBVIOUS
  <2> DEFINE r == total % usual
  <2>1. /\ usual \in Nat /\ k \in Nat /\ r \in Nat /\ total = usual * k + r
        /\ n \in Nat /\ m \in Nat /\ 0 < n
    BY <1>1, <1>3, <1>4
  <2>2. CASE k >= n /\ r # 0
    <3>1. m <= usual
      BY <2>2, <1>1, <1>3
    <3> HIDE DEF usual, k, r, rounded
    <3>2. usual * n <= usual * k
      BY <2>1, <2>2, Monotone
    <3>3. n * m <= n * usual
      BY <2>1, <3>1, Monotone
    <3>4. n * usual = usual * n
      BY <2>1
    <3> QED
      BY <2>1, <2>2, <3>2, <3>3, <3>4
  <2>3. CASE ~(k >= n /\ r # 0)
    <3>1. usual = q /\ m + 1 <= q
      BY <2>3, <1>1, <1>2, <1>3
    <3> HIDE DEF usual, k, r, rounded, q
    <3>2. n * (m + 1) <= n * q
      BY <1>1, <1>2, <3>1, Monotone
    <3>3. n * (m + 1) = n * m + n
      BY <1>1
    <3>4. n * m \in Nat /\ n * q \in Nat
      BY <1>1, <1>2
    <3> QED
      BY <1>1, <1>2, <3>2, <3>3, <3>4
  <2> QED
    BY <2>2, <2>3
<1> QED
  BY <1>1, <1>3, <1>6, <1>7 DEF PartsFit, multipartBundlePartSize, TooLarge
----------------------------------------------------------------------------
(* The offset that parts reach.                                            *)

\* Induction for a set of naturals.
LEMMA SetInduction ==
    ASSUME NEW S, S \subseteq Nat, 0 \in S, \A n \in S : n + 1 \in S
    PROVE  S = Nat
<1>1. SUFFICES ASSUME NEW n \in Nat, n \notin S PROVE FALSE
  OBVIOUS
<1>. DEFINE R == OpToRel(<, Nat)
            T == Nat \ S
<1>2. IsWellFoundedOn(R, Nat)
  BY NatLessThanWellFounded, Zenon
<1>3. \A m, k \in Nat : <<m, k>> \in R <=> m < k
  BY DEF OpToRel
<1>4. T \subseteq Nat /\ T # {}
  BY <1>1
<1>. HIDE DEF R, T
<1>5. PICK m \in T : \A k \in T : ~(<<k, m>> \in R)
  BY <1>2, <1>4, WFMin
<1>. USE DEF T
<1>6. m \in Nat /\ m # 0 /\ m - 1 \in Nat /\ m - 1 < m
  BY <1>4
<1>7. m - 1 \in S
  BY <1>3, <1>5, <1>6
<1>. QED  BY <1>6, <1>7

\* f counts the bytes of the first parts.
Counts(f, parts) ==
    f = [n \in 0..Len(parts) |-> IF n = 0 THEN 0 ELSE f[n - 1] + parts[n]]

\* There is such a count of any number of parts.
LEMMA CountExists ==
    ASSUME NEW parts \in Seq(Nat)
    PROVE  \E f : Counts(f, parts)
<1>. DEFINE upTo(f, k) == f = [n \in 0..k |-> IF n = 0 THEN 0 ELSE f[n - 1] + parts[n]]
            S == {k \in Nat : k <= Len(parts) => \E f : upTo(f, k)}
<1>1. 0 \in S
  <2>. DEFINE f == [n \in 0..0 |-> 0]
  <2>1. f = [n \in 0..0 |-> IF n = 0 THEN 0 ELSE f[n - 1] + parts[n]]
    OBVIOUS
  <2>2. upTo(f, 0)
    BY <2>1
  <2>. QED  BY <2>2
<1>2. ASSUME NEW k \in S PROVE k + 1 \in S
  <2>1. SUFFICES ASSUME k + 1 <= Len(parts) PROVE \E f : upTo(f, k + 1)
    OBVIOUS
  <2>2. PICK g : upTo(g, k)
    BY <2>1
  <2>. DEFINE f == [n \in 0..(k + 1) |-> IF n = k + 1 THEN g[k] + parts[k + 1] ELSE g[n]]
  <2>3. \A n \in 0..k : g[n] = IF n = 0 THEN 0 ELSE g[n - 1] + parts[n]
    BY <2>2
  <2>7. k \in Nat
    OBVIOUS
  <2>8. f[k + 1] = g[k] + parts[k + 1] /\ \A n \in 0..k : f[n] = g[n]
    BY <2>7
  <2>4. ASSUME NEW n \in 0..(k + 1)
        PROVE  f[n] = IF n = 0 THEN 0 ELSE f[n - 1] + parts[n]
    <3>. HIDE DEF f, S
    <3>1. CASE n = k + 1
      <4>1. n # 0 /\ n - 1 = k /\ k \in 0..k
        BY <2>7, <3>1
      <4>. QED  BY <2>8, <3>1, <4>1
    <3>2. CASE n = 0
      <4>1. 0 \in 0..k
        BY <2>7
      <4>. QED  BY <2>3, <2>8, <3>2, <4>1
    <3>3. CASE n \in 1..k
      <4>1. n \in 0..k /\ n - 1 \in 0..k /\ n # 0
        BY <2>7, <3>3
      <4>. QED  BY <2>3, <2>8, <4>1
    <3>. QED  BY <2>7, <3>1, <3>2, <3>3
  <2>5. f = [n \in 0..(k + 1) |-> IF n = 0 THEN 0 ELSE f[n - 1] + parts[n]]
    BY <2>4
  <2>6. upTo(f, k + 1)
    BY <2>5
  <2>. QED  BY <2>6
<1>3. S = Nat
  <2>. HIDE DEF S
  <2>1. S \subseteq Nat
    BY DEF S
  <2>. QED  BY <1>1, <1>2, <2>1, SetInduction
<1>4. Len(parts) \in Nat
  OBVIOUS
<1>5. PICK f : upTo(f, Len(parts))
  BY <1>3, <1>4
<1>. QED  BY <1>5 DEF Counts

\* Two sequences that agree have the same counts as far as they agree.
LEMMA CountsAgree ==
    ASSUME NEW s \in Seq(Nat), NEW t \in Seq(Nat), NEW f, NEW g, Counts(f, s), Counts(g, t),
           Len(s) <= Len(t), \A i \in 1..Len(s) : s[i] = t[i]
    PROVE  \A n \in 0..Len(s) : f[n] = g[n] /\ f[n] \in Nat
<1>. DEFINE S == {k \in Nat : k <= Len(s) => f[k] = g[k] /\ f[k] \in Nat}
<1>1. Len(s) \in Nat /\ Len(t) \in Nat
  OBVIOUS
<1>2. \A n \in 0..Len(s) : f[n] = IF n = 0 THEN 0 ELSE f[n - 1] + s[n]
  BY DEF Counts
<1>3. \A n \in 0..Len(t) : g[n] = IF n = 0 THEN 0 ELSE g[n - 1] + t[n]
  BY DEF Counts
<1>4. 0 \in S
  BY <1>1, <1>2, <1>3
<1>5. ASSUME NEW k \in S PROVE k + 1 \in S
  <2>1. SUFFICES ASSUME k + 1 <= Len(s) PROVE f[k + 1] = g[k + 1] /\ f[k + 1] \in Nat
    OBVIOUS
  <2>2. f[k] = g[k] /\ f[k] \in Nat /\ k \in Nat
    BY <1>1, <2>1
  <2>3. k + 1 \in 1..Len(s) /\ s[k + 1] \in Nat /\ s[k + 1] = t[k + 1]
    BY <1>1, <2>1, <2>2
  <2>4. k + 1 # 0 /\ (k + 1) - 1 = k /\ k + 1 \in 0..Len(s) /\ k + 1 \in 0..Len(t)
    BY <1>1, <2>1, <2>2
  <2>5. f[k + 1] = f[k] + s[k + 1] /\ g[k + 1] = g[k] + t[k + 1]
    <3>. HIDE DEF S
    <3>. QED  BY <1>2, <1>3, <2>4
  <2>. QED  BY <2>2, <2>3, <2>5
<1>6. S = Nat
  <2>. HIDE DEF S
  <2>1. S \subseteq Nat
    BY DEF S
  <2>. QED  BY <1>4, <1>5, <2>1, SetInduction
<1>. QED  BY <1>1, <1>6

LEMMA UploadedCounts ==
    ASSUME NEW parts \in Seq(Nat)
    PROVE  \E f : Counts(f, parts) /\ Uploaded(parts) = f[Len(parts)]
<1>. DEFINE f == CHOOSE h : Counts(h, parts)
<1>1. Counts(f, parts)
  BY CountExists
<1>2. Uploaded(parts) = f[Len(parts)]
  BY DEF Uploaded, Counts
<1>. QED  BY <1>1, <1>2

\* The offset grows by each part.
LEMMA UploadedAppend ==
    ASSUME NEW parts \in Seq(Nat), NEW length \in Nat
    PROVE  /\ Uploaded(parts) \in Nat
           /\ Uploaded(Append(parts, length)) = Uploaded(parts) + length
<1>. DEFINE more == Append(parts, length)
<1>1. /\ Len(parts) \in Nat /\ more \in Seq(Nat) /\ Len(more) = Len(parts) + 1
      /\ more[Len(parts) + 1] = length
      /\ \A i \in 1..Len(parts) : parts[i] = more[i]
  OBVIOUS
<1>. HIDE DEF more
<1>2. PICK f : Counts(f, parts) /\ Uploaded(parts) = f[Len(parts)]
  BY UploadedCounts
<1>3. PICK g : Counts(g, more) /\ Uploaded(more) = g[Len(more)]
  BY <1>1, UploadedCounts
<1>4. \A n \in 0..Len(parts) : f[n] = g[n] /\ f[n] \in Nat
  BY <1>1, <1>2, <1>3, CountsAgree
<1>5. g[Len(parts) + 1] = g[Len(parts)] + more[Len(parts) + 1]
  BY <1>1, <1>3 DEF Counts
<1>. QED  BY <1>1, <1>2, <1>3, <1>4, <1>5 DEF more

LEMMA NothingUploaded == Uploaded(<<>>) = 0
<1>1. <<>> \in Seq(Nat) /\ Len(<<>>) = 0
  OBVIOUS
<1>2. PICK f : Counts(f, <<>>) /\ Uploaded(<<>>) = f[Len(<<>>)]
  BY <1>1, UploadedCounts
<1>. QED  BY <1>1, <1>2 DEF Counts


----------------------------------------------------------------------------
(* What a step of one job keeps.                                           *)

Ending == {"abort"} \cup Returned

\* What is over leaves nothing behind unsaid, and no callback.
TidyOK(j) ==
    /\ step[j] \in {"ok", "failed"} /\ uploads[j] # None => j \in reported
    /\ step[j] \notin {"idle", "stream", "crashed"} => callback[j] \notin {"armed", "running"}

CompleteOK(j) == step[j] = "complete" => Complete(j)

JobOK(j) == WholeOK(j) /\ RouteOK(j) /\ PartsOK(j) /\ OffsetOK(j) /\ CompleteOK(j) /\ TidyOK(j)

\* The other jobs stay as they are.
Apart(j) ==
    \A k \in Jobs \ {j} :
        /\ step'[k] = step[k] /\ part'[k] = part[k] /\ uploads'[k] = uploads[k]
        /\ codec'[k] = codec[k] /\ callback'[k] = callback[k]

\* What has ended stays so, and its upload can only disappear.
Ends(j) ==
    /\ step[j] \in Ending => step'[j] \in Ending /\ uploads'[j] \in {uploads[j], None}
    /\ step[j] = "ok" => step'[j] = "ok"
    /\ step'[j] = "ok" => step[j] = "ok" \/ (object' # None /\ object'.tip = pushTip[j])

\* An object appears once, whole.
Stores(j) == object' = object \/ (object = None /\ j \in whole /\ object' = Ciphertext(j, size[j]))

\* A request left in flight is one for a whole ciphertext.
Leaves(j) ==
    \A r \in late' \ late :
        /\ r.by = j /\ j \in whole
        /\ r.kind = "complete" =>
              step'[j] \in Ending /\ (uploads'[j] # None => Uploaded(uploads'[j]) = size[j])

Accepts(j) == \A k \in accepted' \ accepted : object # None /\ object.tip = pushTip[k]

Advances(j) ==
    /\ pushTip' = pushTip /\ size' = size
    /\ whole \subseteq whole' /\ reported \subseteq reported'
    /\ Apart(j) /\ Ends(j) /\ Stores(j) /\ Leaves(j) /\ Accepts(j)

StepOK(j) == Advances(j) /\ BundleTypeOK' /\ JobOK(j)'

LEMMA InvJobs ==
    UploadInv <=> /\ BundleTypeOK /\ (\A j \in Jobs : JobOK(j))
                  /\ LateOK /\ ObjectOK /\ AcceptedOK
  BY DEF UploadInv, JobOK, CompleteOK, TidyOK, LeftoversAreReported, CallbackJoined

\* Parts that did not change are as good as they were.
LEMMA PartsKept ==
    ASSUME NEW j \in Jobs, PartsOK(j), part'[j] = part[j], size' = size,
           uploads'[j] \in {uploads[j], None}
    PROVE  PartsOK(j)'
<1>1. CASE uploads'[j] = None
  BY <1>1 DEF PartsOK
<1>2. CASE uploads'[j] = uploads[j]
  BY <1>2, Zenon DEF PartsOK
<1>. QED  BY <1>1, <1>2

LEMMA OffsetKept ==
    ASSUME NEW j \in Jobs, OffsetOK(j), step'[j] = step[j], part'[j] = part[j], size' = size,
           uploads'[j] = uploads[j]
    PROVE  OffsetOK(j)'
  BY Zenon DEF OffsetOK

\* What a step of one job keeps is UploadInv.
LEMMA JobAdvances ==
    ASSUME UploadInv, NEW j \in Jobs, StepOK(j)
    PROVE  UploadInv'
<1>1. /\ BundleTypeOK /\ LateOK /\ ObjectOK /\ AcceptedOK /\ \A k \in Jobs : JobOK(k)
  BY InvJobs
<1>2. /\ BundleTypeOK' /\ JobOK(j)'
      /\ pushTip' = pushTip /\ size' = size /\ whole \subseteq whole' /\ reported \subseteq reported'
      /\ Apart(j) /\ Ends(j) /\ Stores(j) /\ Leaves(j) /\ Accepts(j)
  BY DEF StepOK, Advances
<1>3. ASSUME NEW k \in Jobs PROVE JobOK(k)'
  <2>1. SUFFICES ASSUME k # j PROVE JobOK(k)'
    BY <1>2
  <2>2. /\ step'[k] = step[k] /\ part'[k] = part[k] /\ uploads'[k] = uploads[k]
        /\ codec'[k] = codec[k] /\ callback'[k] = callback[k]
    BY <1>2, <2>1 DEF Apart
  <2>3. JobOK(k)
    BY <1>1
  <2>4. PartsOK(k)' /\ OffsetOK(k)'
    BY <1>2, <2>2, <2>3, PartsKept, OffsetKept DEF JobOK
  <2>5. WholeOK(k)' /\ RouteOK(k)' /\ TidyOK(k)'
    BY <1>2, <2>2, <2>3 DEF JobOK, WholeOK, RouteOK, TidyOK
  <2>6. CompleteOK(k)'
    BY <1>2, <2>2, <2>3, Zenon DEF JobOK, CompleteOK, Complete
  <2>. QED  BY <2>4, <2>5, <2>6 DEF JobOK
<1>4. LateOK'
  <2>. SUFFICES ASSUME NEW r \in late'
                PROVE  /\ r.by \in whole'
                       /\ r.kind = "complete" => step'[r.by] \in Ending /\ Complete(r.by)'
    BY DEF LateOK, Ending
  <2>1. CASE r \in late
    <3>1. /\ r.by \in whole /\ r.by \in Jobs
          /\ r.kind = "complete" => step[r.by] \in Ending /\ Complete(r.by)
      BY <1>1, <2>1 DEF LateOK, Ending, BundleTypeOK, StreamTypeOK
    <3>2. SUFFICES ASSUME r.kind = "complete"
                   PROVE  step'[r.by] \in Ending /\ Complete(r.by)'
      BY <1>2, <3>1
    <3>3. step'[r.by] \in Ending /\ uploads'[r.by] \in {uploads[r.by], None}
      BY <1>2, <3>1, <3>2 DEF Apart, Ends
    <3>4. Complete(r.by)'
      BY <1>2, <3>1, <3>2, <3>3, Zenon DEF Complete
    <3>. QED  BY <3>3, <3>4
  <2>2. CASE r \in late' \ late
    <3>1. /\ r.by = j /\ j \in whole
          /\ r.kind = "complete" =>
                step'[j] \in Ending /\ (uploads'[j] # None => Uploaded(uploads'[j]) = size[j])
      BY <1>2, <2>2 DEF Leaves
    <3>. QED  BY <1>2, <3>1, Zenon DEF Complete
  <2>. QED  BY <2>1, <2>2
<1>5. ObjectOK'
  <2>1. CASE object' = object
    BY <1>1, <1>2, <2>1 DEF ObjectOK, StoredWhole
  <2>2. CASE j \in whole /\ object' = Ciphertext(j, size[j])
    BY <1>2, <2>2 DEF ObjectOK, StoredWhole, Ciphertext
  <2>. QED  BY <1>2, <2>1, <2>2 DEF Stores
<1>6. AcceptedOK'
  <2>1. ASSUME object = None PROVE accepted' = {}
    BY <1>1, <1>2, <2>1 DEF AcceptedOK, Accepts
  <2>2. CASE object = None
    BY <2>1, <2>2 DEF AcceptedOK
  <2>3. CASE object # None
    BY <1>1, <1>2, <2>3 DEF AcceptedOK, Accepts, Stores
  <2>. QED  BY <2>2, <2>3
<1>. QED
  <2>1. /\ BundleTypeOK' /\ (\A k \in Jobs : JobOK(k)') /\ LateOK' /\ ObjectOK' /\ AcceptedOK'
    BY <1>2, <1>3, <1>4, <1>5, <1>6
  <2>. QED  BY <2>1 DEF UploadInv, JobOK, CompleteOK, TidyOK, LeftoversAreReported, CallbackJoined

----------------------------------------------------------------------------
(* Each step of a job.                                                     *)


\* What is known of job j before a step of its own.
LEMMA Before ==
    ASSUME UploadInv, NEW j \in Jobs
    PROVE  /\ BundleTypeOK /\ JobOK(j) /\ LateOK /\ ObjectOK /\ AcceptedOK
           /\ size[j] \in Nat /\ size[j] # 0
           /\ uploads[j] \in Seq(Nat) \cup {None} /\ None \notin Seq(Nat)
<1>1. BundleTypeOK /\ JobOK(j) /\ LateOK /\ ObjectOK /\ AcceptedOK
  BY InvJobs
<1>2. size[j] \in Nat \ {0} /\ None \notin Seq(Nat)
  BY <1>1, UploadAssumption DEF BundleTypeOK
<1>3. uploads[j] \in Seq(Nat \ {0}) \cup {None} /\ Seq(Nat \ {0}) \subseteq Seq(Nat)
  BY <1>1 DEF BundleTypeOK
<1>. QED  BY <1>1, <1>2, <1>3

LEMMA BeginStep ==
    ASSUME UploadInv, NEW j \in Jobs, Begin(j)
    PROVE  StepOK(j)
<1>. USE DEF Begin, Go, streamVars
<1>1. BundleTypeOK /\ JobOK(j)
  BY Before
<1>2. BundleTypeOK'
  BY <1>1 DEF BundleTypeOK, StreamTypeOK, Steps
<1>3. Advances(j)
  BY <1>1 DEF Advances, Apart, Ends, Stores, Leaves, Accepts, BundleTypeOK, Ending, Returned
<1>4. step[j] = "idle" /\ step'[j] = "stream"
  BY <1>1 DEF BundleTypeOK
<1>5. PartsOK(j)'
  BY <1>1, PartsKept DEF JobOK
<1>6. JobOK(j)'
  BY <1>1, <1>4, <1>5 DEF JobOK, WholeOK, RouteOK, OffsetOK, CompleteOK, TidyOK
<1>. QED  BY <1>2, <1>3, <1>6 DEF StepOK

LEMMA StreamStep ==
    ASSUME UploadInv, NEW j \in Jobs, Stream(j) \/ StreamWaits(j)
    PROVE  StepOK(j)
<1>1. BundleTypeOK /\ JobOK(j)
  BY Before
<1>2. step[j] = "stream" /\ UNCHANGED uploadVars
  BY DEF Stream, StreamWaits
<1>3. StreamTypeOK' /\ whole \subseteq whole' /\ (codec'[j] \in {"ok", "returned"} => j \in whole')
      /\ \A k \in Jobs \ {j} : codec'[k] = codec[k] /\ callback'[k] = callback[k]
  BY <1>1 DEF Stream, StreamWaits, BundleTypeOK, StreamTypeOK, JobOK, WholeOK, StreamBegin, CodecEnds,
     StreamJudges, CallbackStarts, CallbackRuns, StreamBlocks, StreamUnblocks, Codes, Codec
<1>4. BundleTypeOK'
  BY <1>1, <1>2, <1>3 DEF BundleTypeOK, uploadVars
<1>5. Advances(j)
  BY <1>1, <1>2, <1>3 DEF Advances, Apart, Ends, Stores, Leaves, Accepts, uploadVars
<1>6. PartsOK(j)'
  BY <1>1, <1>2, PartsKept DEF JobOK, uploadVars
<1>7. JobOK(j)'
  BY <1>1, <1>2, <1>3, <1>6
     DEF JobOK, WholeOK, RouteOK, OffsetOK, CompleteOK, TidyOK, uploadVars
<1>. QED  BY <1>4, <1>5, <1>7 DEF StepOK

LEMMA StreamReturnsStep ==
    ASSUME UploadInv, NEW j \in Jobs, StreamReturns(j)
    PROVE  StepOK(j)
<1>. USE DEF StreamReturns, StreamJoins, Go
<1>1. BundleTypeOK /\ JobOK(j)
  BY Before
<1>2. BundleTypeOK'
  BY <1>1 DEF BundleTypeOK, StreamTypeOK, Steps, Returned
<1>3. Advances(j)
  BY <1>1 DEF Advances, Apart, Ends, Stores, Leaves, Accepts, BundleTypeOK, StreamTypeOK, Ending,
     Returned
<1>4. /\ step[j] = "stream" /\ step'[j] \in {"close", "failed"}
      /\ step'[j] = "close" => codec[j] = "returned"
      /\ callback'[j] \notin {"armed", "running"}
  BY <1>1 DEF BundleTypeOK, StreamTypeOK
<1>5. PartsOK(j)'
  BY <1>1, PartsKept DEF JobOK
<1>6. JobOK(j)'
  BY <1>1, <1>4, <1>5 DEF JobOK, WholeOK, RouteOK, OffsetOK, CompleteOK, TidyOK
<1>. QED  BY <1>2, <1>3, <1>6 DEF StepOK

LEMMA CloseFilesStep ==
    ASSUME UploadInv, NEW j \in Jobs, CloseFiles(j)
    PROVE  StepOK(j)
<1>. USE DEF CloseFiles, Fails, Go, streamVars
<1>1. BundleTypeOK /\ JobOK(j)
  BY Before
<1>2. BundleTypeOK'
  BY <1>1 DEF BundleTypeOK, StreamTypeOK, Steps, Returned
<1>3. Advances(j)
  BY <1>1 DEF Advances, Apart, Ends, Stores, Leaves, Accepts, BundleTypeOK, Ending, Returned
<1>4. /\ step[j] = "close" /\ step'[j] \in {"create", "put", "failed"}
      /\ step'[j] = "create" => size[j] > bundleUploadPartSize
      /\ step'[j] = "put" => ~(size[j] > bundleUploadPartSize)
  BY <1>1 DEF BundleTypeOK
<1>5. PartsOK(j)'
  BY <1>1, PartsKept DEF JobOK
<1>6. JobOK(j)'
  BY <1>1, <1>4, <1>5, Before, PartSizeAssumption
     DEF JobOK, WholeOK, RouteOK, OffsetOK, CompleteOK, TidyOK
<1>. QED  BY <1>2, <1>3, <1>6 DEF StepOK

LEMMA PutObjectStep ==
    ASSUME UploadInv, NEW j \in Jobs, PutObject(j)
    PROVE  StepOK(j)
<1>. USE DEF PutObject, Store, Go, streamVars
<1>1. BundleTypeOK /\ JobOK(j) /\ size[j] \in Nat
  BY Before
<1>2. Ciphertext(j, size[j]) \in Ciphertexts /\ Ciphertext(j, size[j]).tip = pushTip[j]
  BY <1>1 DEF BundleTypeOK, Ciphertext, Ciphertexts
<1>3. BundleTypeOK'
  BY <1>1, <1>2 DEF BundleTypeOK, StreamTypeOK, Steps, Returned
<1>4. /\ step[j] = "put" /\ step'[j] \in {"ok", "head", "put"}
      /\ step'[j] = "ok" => object = None
  BY <1>1 DEF BundleTypeOK
<1>5. Stores(j) /\ (object = None => object' = Ciphertext(j, size[j])) /\ j \in whole
  BY <1>1, <1>4 DEF Stores, JobOK, WholeOK
<1>6. Advances(j)
  <2>1. Ends(j)
    BY <1>2, <1>4, <1>5, UploadAssumption DEF Ends, Ending, Returned
  <2>. QED  BY <1>1, <1>5, <2>1 DEF Advances, Apart, Leaves, Accepts, BundleTypeOK
<1>7. PartsOK(j)'
  BY <1>1, PartsKept DEF JobOK
<1>8. JobOK(j)'
  <2>4. /\ uploads' = uploads /\ size' = size /\ codec' = codec /\ callback' = callback
        /\ whole' = whole /\ reported' = reported
    OBVIOUS
  <2>. HIDE DEF PutObject, Store, Go
  <2>1. WholeOK(j)' /\ RouteOK(j)'
    BY <1>1, <1>4, <2>4, PartSizeAssumption DEF JobOK, WholeOK, RouteOK
  <2>2. OffsetOK(j)' /\ CompleteOK(j)'
    BY <1>4 DEF OffsetOK, CompleteOK
  <2>3. TidyOK(j)'
    BY <1>1, <1>4, <2>4 DEF JobOK, TidyOK, RouteOK
  <2>. QED  BY <1>7, <2>1, <2>2, <2>3 DEF JobOK
<1>. QED  BY <1>3, <1>6, <1>8 DEF StepOK

LEMMA PutUnknownStep ==
    ASSUME UploadInv, NEW j \in Jobs, PutUnknown(j)
    PROVE  StepOK(j)
<1>. USE DEF PutUnknown, Fails, Go, streamVars
<1>1. BundleTypeOK /\ JobOK(j)
  BY Before
<1>2. BundleTypeOK'
  BY <1>1 DEF BundleTypeOK, StreamTypeOK, Steps, Returned
<1>3. step[j] = "put" /\ step'[j] = "failed" /\ j \in whole
  BY <1>1 DEF BundleTypeOK, JobOK, WholeOK
<1>4. Advances(j)
  BY <1>1, <1>3 DEF Advances, Apart, Ends, Stores, Leaves, Accepts, BundleTypeOK, Ending, Returned
<1>5. PartsOK(j)'
  BY <1>1, PartsKept DEF JobOK
<1>6. JobOK(j)'
  BY <1>1, <1>3, <1>5 DEF JobOK, WholeOK, RouteOK, OffsetOK, CompleteOK, TidyOK
<1>. QED  BY <1>2, <1>4, <1>6 DEF StepOK

\* The part size, once an upload is created.
LEMMA PartSizeIsNat ==
    ASSUME NEW n \in Nat
    PROVE  /\ multipartBundlePartSize(n) \in Nat /\ PartsFit(n)
           /\ 0 < bundleUploadPartSize
<1>1. PartsFit(n)
  BY EveryPartFits
<1>2. n \div maxUploadParts \in Nat
  BY PartSizeAssumption, Division
<1>. DEFINE usual == LargerOf(bundleUploadPartSize, n \div maxUploadParts)
<1>3. usual \in Nat
  BY <1>2, PartSizeAssumption DEF LargerOf
<1>. HIDE DEF usual
<1>4. multipartBundlePartSize(n) \in {0, usual, usual + 1}
  BY DEF multipartBundlePartSize, TooLarge, usual
<1>5. {0, usual, usual + 1} \subseteq Nat /\ 0 < bundleUploadPartSize
  BY <1>3, PartSizeAssumption
<1>. QED  BY <1>1, <1>4, <1>5

LEMMA CreateStep ==
    ASSUME UploadInv, NEW j \in Jobs, CreateMultipartUpload(j)
    PROVE  StepOK(j)
<1>1. BundleTypeOK /\ JobOK(j) /\ size[j] \in Nat /\ size[j] # 0
  BY Before
<1>2. /\ step[j] = "create" /\ uploads[j] = None
      /\ UNCHANGED <<streamVars, object, late, pushTip, size, accepted, reported>>
  BY <1>1 DEF CreateMultipartUpload, JobOK, RouteOK
<1>3. multipartBundlePartSize(size[j]) \in Nat
  BY <1>1, PartSizeIsNat
<1>4. CASE multipartBundlePartSize(size[j]) = TooLarge
  <2>1. step' = [step EXCEPT ![j] = "failed"] /\ uploads' = uploads /\ part' = part
    BY <1>4 DEF CreateMultipartUpload, Fails, Go
  <2>. USE DEF streamVars
  <2>2. BundleTypeOK'
    BY <1>1, <1>2, <2>1 DEF BundleTypeOK, StreamTypeOK, Steps, Returned
  <2>3. Advances(j)
    BY <1>1, <1>2, <2>1
       DEF Advances, Apart, Ends, Stores, Leaves, Accepts, BundleTypeOK, Ending, Returned
  <2>4. step'[j] = "failed"
    BY <1>1, <2>1 DEF BundleTypeOK
  <2>5. PartsOK(j)'
    BY <1>1, <1>2, <2>1, PartsKept DEF JobOK
  <2>6. JobOK(j)'
    BY <1>1, <1>2, <2>1, <2>4, <2>5 DEF JobOK, WholeOK, RouteOK, OffsetOK, CompleteOK, TidyOK
  <2>. QED  BY <2>2, <2>3, <2>6 DEF StepOK
<1>5. CASE multipartBundlePartSize(size[j]) # TooLarge
  <2>1. /\ step' = [step EXCEPT ![j] = "parts"] /\ uploads' = [uploads EXCEPT ![j] = <<>>]
        /\ part' = [part EXCEPT ![j] = multipartBundlePartSize(size[j])]
    BY <1>5 DEF CreateMultipartUpload, Go
  <2>. USE DEF streamVars
  <2>2. BundleTypeOK'
    <3>1. uploads' \in [Jobs -> Seq(Nat \ {0}) \cup {None}]
      BY <1>1, <2>1 DEF BundleTypeOK
    <3>2. part' \in [Jobs -> Nat]
      BY <1>1, <1>3, <2>1 DEF BundleTypeOK
    <3>. QED  BY <1>1, <1>2, <2>1, <3>1, <3>2 DEF BundleTypeOK, StreamTypeOK, Steps, Returned
  <2>3. Advances(j)
    BY <1>1, <1>2, <2>1
       DEF Advances, Apart, Ends, Stores, Leaves, Accepts, BundleTypeOK, Ending, Returned
  <2>4. /\ step'[j] = "parts" /\ uploads'[j] = <<>>
        /\ part'[j] = multipartBundlePartSize(size'[j]) /\ size' = size
    BY <1>1, <1>2, <2>1 DEF BundleTypeOK
  <2>5. PartsOK(j)'
    BY <2>4 DEF PartsOK
  <2>6. OffsetOK(j)'
    <3>1. <<>> # None
      <4>1. <<>> \in Seq(Nat)
        OBVIOUS
      <4>. QED  BY <4>1, UploadAssumption
    <3>2. Uploaded(uploads'[j]) = 0 /\ Len(uploads'[j]) = 0 /\ DOMAIN uploads'[j] = {}
      BY <2>4, NothingUploaded
    <3>3. part'[j] * 0 = 0 /\ 0 < size'[j]
      BY <1>1, <1>3, <2>4
    <3>. HIDE DEF multipartBundlePartSize
    <3>. QED  BY <1>5, <2>4, <3>1, <3>2, <3>3 DEF OffsetOK
  <2>7. JobOK(j)'
    BY <1>1, <1>2, <2>4, <2>5, <2>6, PartSizeAssumption
       DEF JobOK, WholeOK, RouteOK, CompleteOK, TidyOK
  <2>. QED  BY <2>2, <2>3, <2>7 DEF StepOK
<1>. QED  BY <1>4, <1>5

LEMMA CreateUnknownStep ==
    ASSUME UploadInv, NEW j \in Jobs, CreateUnknown(j)
    PROVE  StepOK(j)
<1>. USE DEF CreateUnknown, Fails, Go, streamVars
<1>1. BundleTypeOK /\ JobOK(j)
  BY Before
<1>2. BundleTypeOK'
  <2>1. uploads' \in [Jobs -> Seq(Nat \ {0}) \cup {None}]
    <3>1. <<>> \in Seq(Nat \ {0}) /\ uploads \in [Jobs -> Seq(Nat \ {0}) \cup {None}]
      BY <1>1 DEF BundleTypeOK
    <3>2. uploads' = uploads \/ uploads' = [uploads EXCEPT ![j] = <<>>]
      OBVIOUS
    <3>. HIDE DEF CreateUnknown
    <3>. QED  BY <3>1, <3>2
  <2>. QED  BY <1>1, <2>1 DEF BundleTypeOK, StreamTypeOK, Steps, Returned
<1>3. /\ step[j] = "create" /\ step'[j] = "failed" /\ uploads[j] = None
      /\ uploads'[j] \in {None, <<>>} /\ j \in reported' /\ size[j] > bundleUploadPartSize
  BY <1>1 DEF BundleTypeOK, JobOK, RouteOK
<1>4. Advances(j)
  BY <1>1, <1>3 DEF Advances, Apart, Ends, Stores, Leaves, Accepts, BundleTypeOK, Ending, Returned
<1>5. PartsOK(j)'
  BY <1>3 DEF PartsOK
<1>6. JobOK(j)'
  BY <1>1, <1>3, <1>5, Before, PartSizeAssumption
     DEF JobOK, WholeOK, RouteOK, OffsetOK, CompleteOK, TidyOK
<1>. QED  BY <1>2, <1>4, <1>6 DEF StepOK

\* What appending does to a sequence.
LEMMA Appended ==
    ASSUME NEW S, NEW s \in Seq(S), NEW e \in S
    PROVE  /\ Append(s, e) \in Seq(S) /\ Len(Append(s, e)) = Len(s) + 1 /\ Append(s, e) # <<>>
           /\ DOMAIN s = 1..Len(s) /\ DOMAIN Append(s, e) = 1..(Len(s) + 1)
           /\ Append(s, e)[Len(s) + 1] = e
           /\ \A i \in 1..Len(s) : Append(s, e)[i] = s[i]
  OBVIOUS

\* Another part: a full one while more is left, the rest at the end.
LEMMA UploadPartStep ==
    ASSUME UploadInv, NEW j \in Jobs, UploadPart(j)
    PROVE  StepOK(j)
<1>. DEFINE parts == uploads[j]
            length == size[j] - Uploaded(parts)
            next == IF length < part[j] THEN length ELSE part[j]
            more == Append(parts, next)
<1>1. BundleTypeOK /\ JobOK(j) /\ size[j] \in Nat /\ size[j] # 0
  BY Before
<1>2. /\ step[j] = "parts" /\ size' = size /\ part' = part
      /\ UNCHANGED <<streamVars, object, late, pushTip, accepted, reported>>
      /\ uploads' = [uploads EXCEPT ![j] = more]
      /\ step' = IF length <= part[j] THEN [step EXCEPT ![j] = "complete"] ELSE step
  BY <1>1 DEF UploadPart, Go, BundleTypeOK
<1>3. /\ parts \in Seq(Nat \ {0}) /\ parts \in Seq(Nat)
      /\ part[j] = multipartBundlePartSize(size[j]) /\ part[j] # TooLarge
      /\ \A i \in DOMAIN parts : parts[i] = part[j]
      /\ Uploaded(parts) = part[j] * Len(parts) /\ Uploaded(parts) < size[j]
  BY <1>1, <1>2, Before DEF JobOK, OffsetOK, BundleTypeOK
<1>4. part[j] \in Nat /\ 0 < part[j] /\ Uploaded(parts) \in Nat /\ Len(parts) \in Nat
  <2>1. part[j] \in Nat
    BY <1>1 DEF BundleTypeOK
  <2>2. parts \in Seq(Nat)
    BY <1>3
  <2>. HIDE DEF parts
  <2>3. Uploaded(parts) \in Nat
    BY <2>2, UploadedAppend, 0 \in Nat
  <2>. QED  BY <1>3, <2>1, <2>2, <2>3 DEF TooLarge
<1>. HIDE DEF parts
<1>5. /\ length \in Nat \ {0} /\ next \in Nat \ {0} /\ next <= part[j]
      /\ length <= part[j] => next = length
      /\ ~(length <= part[j]) => next = part[j]
  BY <1>1, <1>3, <1>4
<1>. HIDE DEF length, next
<1>6. /\ more \in Seq(Nat \ {0}) /\ Len(more) = Len(parts) + 1 /\ more # <<>>
      /\ DOMAIN more = 1..(Len(parts) + 1) /\ more[Len(parts) + 1] = next
      /\ \A i \in 1..Len(parts) : more[i] = part[j]
  BY <1>3, <1>5, Appended
<1>7. Uploaded(more) = Uploaded(parts) + next
  BY <1>3, <1>5, UploadedAppend
<1>. HIDE DEF more
<1>8. uploads'[j] = more /\ more # None
      /\ (length <= part[j] => step'[j] = "complete") /\ (~(length <= part[j]) => step'[j] = "parts")
  BY <1>1, <1>2, <1>6, UploadAssumption, Before DEF BundleTypeOK
<1>9. BundleTypeOK'
  <2>1. uploads' \in [Jobs -> Seq(Nat \ {0}) \cup {None}]
    BY <1>1, <1>2, <1>6 DEF BundleTypeOK
  <2>2. step' \in [Jobs -> {"idle"} \cup Steps \cup Returned]
    BY <1>1, <1>2 DEF BundleTypeOK, Steps
  <2>. QED  BY <1>1, <1>2, <2>1, <2>2 DEF BundleTypeOK, StreamTypeOK, streamVars
<1>10. Advances(j)
  BY <1>1, <1>2, <1>8
     DEF Advances, Apart, Ends, Stores, Leaves, Accepts, BundleTypeOK, Ending, Returned, streamVars
<1>11. PartsOK(j)'
  <2>1. \A i \in DOMAIN more : more[i] <= part[j] /\ (i < Len(more) => more[i] = part[j])
    BY <1>4, <1>5, <1>6
  <2>2. part[j] * (Len(more) - 1) < size[j]
    <3>1. Len(more) - 1 = Len(parts)
      BY <1>4, <1>6
    <3>. QED  BY <1>3, <3>1
  <2>. QED  BY <1>2, <1>3, <1>8, <2>1, <2>2, Zenon DEF PartsOK
<1>12. OffsetOK(j)'
  <2>1. SUFFICES ASSUME ~(length <= part[j]) PROVE OffsetOK(j)'
    BY <1>8 DEF OffsetOK
  <2>2. \A i \in DOMAIN more : more[i] = part[j]
    BY <1>4, <1>5, <1>6, <2>1
  <2>3. Uploaded(more) = part[j] * Len(more)
    <3>1. part[j] * (Len(parts) + 1) = part[j] * Len(parts) + part[j]
      BY <1>4
    <3>. QED  BY <1>3, <1>5, <1>6, <1>7, <2>1, <3>1
  <2>4. Uploaded(more) < size[j]
    BY <1>1, <1>4, <1>5, <1>7, <2>1 DEF length
  <2>. QED  BY <1>2, <1>3, <1>8, <2>2, <2>3, <2>4, Zenon DEF OffsetOK
<1>13. CompleteOK(j)'
  <2>1. SUFFICES ASSUME length <= part[j] PROVE CompleteOK(j)'
    BY <1>8 DEF CompleteOK
  <2>2. Uploaded(more) = size[j]
    BY <1>1, <1>4, <1>5, <1>7, <2>1 DEF length
  <2>. QED  BY <1>2, <1>8, <2>2 DEF CompleteOK, Complete
<1>14. WholeOK(j)' /\ RouteOK(j)' /\ TidyOK(j)'
  BY <1>1, <1>2, <1>8, PartSizeAssumption DEF JobOK, WholeOK, RouteOK, TidyOK, streamVars
<1>. QED  BY <1>9, <1>10, <1>11, <1>12, <1>13, <1>14 DEF StepOK, JobOK

LEMMA PartFailsStep ==
    ASSUME UploadInv, NEW j \in Jobs, PartFails(j)
    PROVE  StepOK(j)
<1>. USE DEF PartFails, Go, streamVars
<1>1. BundleTypeOK /\ JobOK(j)
  BY Before
<1>2. BundleTypeOK'
  BY <1>1 DEF BundleTypeOK, StreamTypeOK, Steps
<1>3. step[j] = "parts" /\ step'[j] = "abort"
  BY <1>1 DEF BundleTypeOK
<1>4. Advances(j)
  BY <1>1, <1>3 DEF Advances, Apart, Ends, Stores, Leaves, Accepts, BundleTypeOK, Ending, Returned
<1>5. PartsOK(j)'
  BY <1>1, PartsKept DEF JobOK
<1>6. JobOK(j)'
  BY <1>1, <1>3, <1>5 DEF JobOK, WholeOK, RouteOK, OffsetOK, CompleteOK, TidyOK
<1>. QED  BY <1>2, <1>4, <1>6 DEF StepOK

\* A completion that has all parts stores them whole.
LEMMA Completing ==
    ASSUME UploadInv, NEW j \in Jobs, Complete(j), j \in whole, CompleteUpload(j), size' = size
    PROVE  /\ Stores(j) /\ object' \in Ciphertexts \cup {None}
           /\ uploads' \in [Jobs -> Seq(Nat \ {0}) \cup {None}]
           /\ uploads'[j] \in {uploads[j], None}
           /\ \A k \in Jobs \ {j} : uploads'[k] = uploads[k]
           /\ uploads[j] # None /\ object = None => uploads'[j] = None /\ object' = Ciphertext(j, size[j])
<1>1. BundleTypeOK /\ size[j] \in Nat
  BY Before
<1>2. Ciphertext(j, size[j]) \in Ciphertexts
  BY <1>1 DEF BundleTypeOK, Ciphertext, Ciphertexts
<1>3. CASE uploads[j] # None /\ object = None
  <2>1. object' = Ciphertext(j, size[j]) /\ uploads' = [uploads EXCEPT ![j] = None]
    BY <1>3 DEF CompleteUpload, Store, Complete
  <2>. QED  BY <1>1, <1>2, <1>3, <2>1 DEF Stores, BundleTypeOK
<1>4. CASE ~(uploads[j] # None /\ object = None)
  <2>1. object' = object /\ uploads' = uploads
    BY <1>4 DEF CompleteUpload
  <2>. QED  BY <1>1, <1>4, <2>1 DEF Stores, BundleTypeOK
<1>. QED  BY <1>3, <1>4

LEMMA CompleteMultipartUploadStep ==
    ASSUME UploadInv, NEW j \in Jobs, CompleteMultipartUpload(j)
    PROVE  StepOK(j)
<1>1. BundleTypeOK /\ JobOK(j)
  BY Before
<1>2. /\ step[j] = "complete" /\ CompleteUpload(j)
      /\ UNCHANGED <<streamVars, late, pushTip, size, part, accepted, reported>>
  BY DEF CompleteMultipartUpload
<1>3. Complete(j) /\ j \in whole
  BY <1>1, <1>2 DEF JobOK, CompleteOK, WholeOK
<1>4. /\ Stores(j) /\ object' \in Ciphertexts \cup {None}
      /\ uploads' \in [Jobs -> Seq(Nat \ {0}) \cup {None}]
      /\ uploads'[j] \in {uploads[j], None}
      /\ \A k \in Jobs \ {j} : uploads'[k] = uploads[k]
      /\ uploads[j] # None /\ object = None => uploads'[j] = None /\ object' = Ciphertext(j, size[j])
  BY <1>2, <1>3, Completing
<1>5. /\ step' \in [Jobs -> {"idle"} \cup Steps \cup Returned]
      /\ step'[j] \in {"ok", "complete", "head", "abort"}
      /\ step'[j] = "ok" => uploads[j] # None /\ object = None
      /\ \A k \in Jobs \ {j} : step'[k] = step[k]
  BY <1>1, <1>2 DEF CompleteMultipartUpload, Go, BundleTypeOK, Steps, Returned
<1>6. BundleTypeOK'
  BY <1>1, <1>2, <1>4, <1>5 DEF BundleTypeOK, StreamTypeOK, streamVars
<1>7. Advances(j)
  <2>1. Ciphertext(j, size[j]) \in Ciphertexts /\ Ciphertext(j, size[j]).tip = pushTip[j]
    BY <1>1, Before DEF BundleTypeOK, Ciphertext, Ciphertexts
  <2>2. Ends(j)
    BY <1>2, <1>4, <1>5, <2>1, UploadAssumption DEF Ends, Ending, Returned
  <2>. QED  BY <1>1, <1>2, <1>4, <1>5, <2>2 DEF Advances, Apart, Leaves, Accepts, streamVars
<1>8. PartsOK(j)'
  BY <1>1, <1>2, <1>4, PartsKept DEF JobOK
<1>9. CompleteOK(j)'
  BY <1>2, <1>3, <1>4, Zenon DEF CompleteOK, Complete
<1>10. OffsetOK(j)'
  BY <1>5 DEF OffsetOK
<1>11. WholeOK(j)' /\ RouteOK(j)' /\ TidyOK(j)'
  BY <1>1, <1>2, <1>3, <1>4, <1>5, PartSizeAssumption, Before
     DEF JobOK, WholeOK, RouteOK, TidyOK, streamVars
<1>. QED  BY <1>6, <1>7, <1>8, <1>9, <1>10, <1>11 DEF StepOK, JobOK

LEMMA CompleteUnknownStep ==
    ASSUME UploadInv, NEW j \in Jobs, CompleteUnknown(j)
    PROVE  StepOK(j)
<1>. USE DEF CompleteUnknown, Go, streamVars
<1>1. BundleTypeOK /\ JobOK(j)
  BY Before
<1>2. BundleTypeOK'
  BY <1>1 DEF BundleTypeOK, StreamTypeOK, Steps
<1>3. /\ step[j] = "complete" /\ step'[j] = "abort" /\ j \in whole
      /\ uploads[j] # None => Uploaded(uploads[j]) = size[j]
  BY <1>1 DEF BundleTypeOK, JobOK, WholeOK, CompleteOK, Complete
<1>4. Leaves(j)
  BY <1>3 DEF Leaves, Ending
<1>5. Advances(j)
  BY <1>1, <1>3, <1>4 DEF Advances, Apart, Ends, Stores, Accepts, BundleTypeOK, Ending, Returned
<1>6. PartsOK(j)'
  BY <1>1, PartsKept DEF JobOK
<1>7. JobOK(j)'
  BY <1>1, <1>3, <1>6 DEF JobOK, WholeOK, RouteOK, OffsetOK, CompleteOK, TidyOK
<1>. QED  BY <1>2, <1>5, <1>7 DEF StepOK

\* After the answer about what is stored: the end, or the abort that goes before it.
LEMMA ResultStep ==
    ASSUME UploadInv, NEW j \in Jobs, bundleUploadResult(j) \/ HeadFails(j)
    PROVE  StepOK(j)
<1>1. BundleTypeOK /\ JobOK(j) /\ size[j] \in Nat
  BY Before
<1>2. /\ step[j] = "head"
      /\ UNCHANGED <<streamVars, object, uploads, late, pushTip, size, part, reported>>
  BY DEF bundleUploadResult, HeadFails
<1>3. /\ step'[j] \in {"abort", "ok", "failed"}
      /\ step' \in [Jobs -> {"idle"} \cup Steps \cup Returned]
      /\ \A k \in Jobs \ {j} : step'[k] = step[k]
      /\ step'[j] = "abort" <=> size[j] > bundleUploadPartSize
      /\ step'[j] = "ok" => object # None /\ object.tip = pushTip[j]
  BY <1>1 DEF bundleUploadResult, HeadFails, AfterResult, Go, BundleTypeOK, Steps, Returned
<1>4. Accepts(j) /\ accepted' \subseteq Jobs
  BY <1>1 DEF bundleUploadResult, HeadFails, Accepts, BundleTypeOK
<1>. USE DEF streamVars
<1>5. BundleTypeOK'
  BY <1>1, <1>2, <1>3, <1>4 DEF BundleTypeOK, StreamTypeOK
<1>6. Advances(j)
  BY <1>1, <1>2, <1>3, <1>4 DEF Advances, Apart, Ends, Stores, Leaves, Ending, Returned
<1>7. PartsOK(j)'
  BY <1>1, <1>2, PartsKept DEF JobOK
<1>8. step'[j] \in {"ok", "failed"} => uploads[j] = None
  BY <1>1, <1>3, PartSizeAssumption DEF JobOK, RouteOK
<1>9. JobOK(j)'
  BY <1>1, <1>2, <1>3, <1>7, <1>8, PartSizeAssumption
     DEF JobOK, WholeOK, RouteOK, OffsetOK, CompleteOK, TidyOK
<1>. QED  BY <1>5, <1>6, <1>9 DEF StepOK

LEMMA AbortStep ==
    ASSUME UploadInv, NEW j \in Jobs, AbortMultipartUpload(j) \/ AbortFails(j)
    PROVE  StepOK(j)
<1>1. BundleTypeOK /\ JobOK(j) /\ size[j] \in Nat /\ AcceptedOK
  BY Before
<1>2. /\ step[j] = "abort"
      /\ UNCHANGED <<streamVars, object, late, pushTip, size, part, accepted>>
  BY DEF AbortMultipartUpload, AbortFails
<1>3. /\ step'[j] \in {"ok", "failed"}
      /\ step' \in [Jobs -> {"idle"} \cup Steps \cup Returned]
      /\ \A k \in Jobs \ {j} : step'[k] = step[k]
      /\ step'[j] = "ok" => j \in accepted
  BY <1>1 DEF AbortMultipartUpload, AbortFails, Fails, Go, BundleTypeOK, Returned
<1>4. /\ uploads' \in [Jobs -> Seq(Nat \ {0}) \cup {None}]
      /\ uploads'[j] \in {uploads[j], None}
      /\ \A k \in Jobs \ {j} : uploads'[k] = uploads[k]
      /\ uploads'[j] = None \/ j \in reported'
      /\ reported \subseteq reported' /\ reported' \subseteq Jobs
  BY <1>1 DEF AbortMultipartUpload, AbortFails, BundleTypeOK
<1>. USE DEF streamVars
<1>5. BundleTypeOK'
  BY <1>1, <1>2, <1>3, <1>4 DEF BundleTypeOK, StreamTypeOK
<1>6. Advances(j)
  BY <1>1, <1>2, <1>3, <1>4
     DEF Advances, Apart, Ends, Stores, Leaves, Accepts, Ending, Returned, AcceptedOK
<1>7. PartsOK(j)'
  BY <1>1, <1>2, <1>4, PartsKept DEF JobOK
<1>8. JobOK(j)'
  BY <1>1, <1>2, <1>3, <1>4, <1>7, PartSizeAssumption
     DEF JobOK, WholeOK, RouteOK, OffsetOK, CompleteOK, TidyOK
<1>. QED  BY <1>5, <1>6, <1>8 DEF StepOK

LEMMA CanceledStep ==
    ASSUME UploadInv, NEW j \in Jobs, Canceled(j)
    PROVE  StepOK(j)
<1>. USE DEF Canceled, Cancel, uploadVars
<1>1. BundleTypeOK /\ JobOK(j)
  BY Before
<1>2. BundleTypeOK'
  BY <1>1 DEF BundleTypeOK, StreamTypeOK
<1>3. Advances(j)
  BY <1>1 DEF Advances, Apart, Ends, Stores, Leaves, Accepts
<1>4. PartsOK(j)' /\ OffsetOK(j)'
  BY <1>1, PartsKept, OffsetKept DEF JobOK
<1>5. CompleteOK(j)'
  BY <1>1, Zenon DEF JobOK, CompleteOK, Complete
<1>6. WholeOK(j)' /\ RouteOK(j)' /\ TidyOK(j)'
  BY <1>1 DEF JobOK, WholeOK, RouteOK, TidyOK
<1>. QED  BY <1>2, <1>3, <1>4, <1>5, <1>6 DEF StepOK, JobOK

LEMMA CrashStep ==
    ASSUME UploadInv, NEW j \in Jobs, Crash(j)
    PROVE  StepOK(j)
<1>. USE DEF Crash, Go, streamVars
<1>1. BundleTypeOK /\ JobOK(j)
  BY Before
<1>2. BundleTypeOK'
  BY <1>1 DEF BundleTypeOK, StreamTypeOK, Returned
<1>3. step[j] \in Steps /\ step'[j] = "crashed"
  BY <1>1 DEF BundleTypeOK
<1>4. Leaves(j)
  <2>1. step[j] \in {"put", "complete"} => j \in whole
    BY <1>1 DEF JobOK, WholeOK
  <2>2. step[j] = "complete" => (uploads[j] # None => Uploaded(uploads[j]) = size[j])
    BY <1>1 DEF JobOK, CompleteOK, Complete
  <2>. QED  BY <1>3, <2>1, <2>2 DEF Leaves, Ending, Returned
<1>5. Advances(j)
  BY <1>1, <1>3, <1>4 DEF Advances, Apart, Ends, Stores, Accepts, BundleTypeOK, Ending, Returned, Steps
<1>6. PartsOK(j)'
  BY <1>1, PartsKept DEF JobOK
<1>7. JobOK(j)'
  BY <1>1, <1>3, <1>6, PartSizeAssumption, Before
     DEF JobOK, WholeOK, RouteOK, OffsetOK, CompleteOK, TidyOK, Steps
<1>. QED  BY <1>2, <1>5, <1>7 DEF StepOK

\* A late request is a step of its sender.
LEMMA LandStep ==
    ASSUME UploadInv, Land
    PROVE  \E j \in Jobs : StepOK(j)
<1>1. BundleTypeOK /\ LateOK
  BY InvJobs
<1>2. PICK r \in late :
          /\ late' = late \ {r}
          /\ \/ r.kind = "put" /\ Store(r.by, size[r.by]) /\ UNCHANGED uploads
             \/ r.kind = "complete" /\ CompleteUpload(r.by)
  BY DEF Land
<1>3. UNCHANGED <<streamVars, step, pushTip, size, part, accepted, reported>>
  BY DEF Land
<1>. DEFINE j == r.by
<1>4. j \in Jobs /\ j \in whole /\ (r.kind = "complete" => step[j] \in Ending /\ Complete(j))
  BY <1>1, <1>2 DEF BundleTypeOK, LateOK, Ending
<1>. HIDE DEF j
<1>5. JobOK(j) /\ Ciphertext(j, size[j]) \in Ciphertexts
  BY <1>1, <1>4, Before DEF BundleTypeOK, Ciphertext, Ciphertexts
<1>6. /\ Stores(j) /\ object' \in Ciphertexts \cup {None}
      /\ uploads' \in [Jobs -> Seq(Nat \ {0}) \cup {None}]
      /\ uploads'[j] \in {uploads[j], None}
      /\ \A k \in Jobs \ {j} : uploads'[k] = uploads[k]
      /\ uploads'[j] = uploads[j] \/ step[j] \in Ending
  <2>1. CASE r.kind = "put" /\ Store(j, size[j]) /\ UNCHANGED uploads
    BY <1>1, <1>4, <1>5, <2>1 DEF Stores, Store, BundleTypeOK
  <2>2. CASE r.kind = "complete" /\ CompleteUpload(j)
    BY <1>3, <1>4, <2>2, Completing
  <2>. QED  BY <1>2, <2>1, <2>2 DEF j
<1>. USE DEF streamVars
<1>7. BundleTypeOK'
  BY <1>1, <1>2, <1>3, <1>6 DEF BundleTypeOK, StreamTypeOK
<1>8. Advances(j)
  BY <1>1, <1>2, <1>3, <1>6 DEF Advances, Apart, Ends, Leaves, Accepts
<1>9. PartsOK(j)'
  BY <1>3, <1>4, <1>5, <1>6, PartsKept DEF JobOK
<1>10. OffsetOK(j)'
  <2>1. CASE uploads'[j] = uploads[j]
    BY <1>3, <1>4, <1>5, <2>1, OffsetKept DEF JobOK
  <2>2. CASE step[j] \in Ending
    BY <1>3, <2>2 DEF OffsetOK, Ending, Returned
  <2>. QED  BY <1>6, <2>1, <2>2
<1>11. CompleteOK(j)'
  BY <1>3, <1>5, <1>6, Zenon DEF JobOK, CompleteOK, Complete
<1>12. WholeOK(j)' /\ RouteOK(j)' /\ TidyOK(j)'
  BY <1>3, <1>5, <1>6 DEF JobOK, WholeOK, RouteOK, TidyOK
<1>. QED  BY <1>4, <1>7, <1>8, <1>9, <1>10, <1>11, <1>12 DEF StepOK, JobOK

----------------------------------------------------------------------------
(* The theorems.                                                           *)

LEMMA NextSteps ==
    ASSUME UploadInv, BundleNext
    PROVE  \E j \in Jobs : StepOK(j)
<1>1. ASSUME NEW j \in Jobs,
             \/ Begin(j) \/ Stream(j) \/ StreamWaits(j) \/ StreamReturns(j)
             \/ CloseFiles(j) \/ PutObject(j) \/ PutUnknown(j)
             \/ CreateMultipartUpload(j) \/ CreateUnknown(j)
             \/ UploadPart(j) \/ PartFails(j)
             \/ CompleteMultipartUpload(j) \/ CompleteUnknown(j)
             \/ bundleUploadResult(j) \/ HeadFails(j)
             \/ AbortMultipartUpload(j) \/ AbortFails(j)
             \/ Canceled(j) \/ Crash(j)
      PROVE  StepOK(j)
  BY <1>1, BeginStep, StreamStep, StreamReturnsStep, CloseFilesStep, PutObjectStep,
     PutUnknownStep, CreateStep, CreateUnknownStep, UploadPartStep, PartFailsStep,
     CompleteMultipartUploadStep, CompleteUnknownStep, ResultStep, AbortStep, CanceledStep,
     CrashStep
<1>. QED  BY <1>1, LandStep DEF BundleNext

LEMMA UploadInit == BundleInit => UploadInv
<1>. SUFFICES ASSUME BundleInit PROVE UploadInv
  OBVIOUS
<1>. USE DEF BundleInit, StreamInit
<1>1. BundleTypeOK
  BY DEF BundleTypeOK, StreamTypeOK, Codec
<1>2. ASSUME NEW j \in Jobs PROVE JobOK(j)
  <2>1. step[j] = "idle" /\ codec[j] = "none" /\ uploads[j] = None
    OBVIOUS
  <2>2. PartsOK(j) /\ OffsetOK(j)
    BY <2>1 DEF PartsOK, OffsetOK
  <2>3. CompleteOK(j)
    BY <2>1 DEF CompleteOK
  <2>4. WholeOK(j) /\ RouteOK(j) /\ TidyOK(j)
    BY <2>1 DEF WholeOK, RouteOK, TidyOK
  <2>. QED  BY <2>2, <2>3, <2>4 DEF JobOK
<1>3. LateOK /\ ObjectOK /\ AcceptedOK
  BY DEF LateOK, ObjectOK, AcceptedOK
<1>. QED  BY <1>1, <1>2, <1>3, InvJobs

\* A stuttering step keeps everything.
LEMMA UploadStutters ==
    ASSUME UploadInv, UNCHANGED bundleVars
    PROVE  UploadInv'
<1>1. /\ UNCHANGED <<canceled, codec, callback, closed, whole>>
      /\ UNCHANGED <<object, uploads, late, step, pushTip, size, part, accepted, reported>>
  BY DEF bundleVars, streamVars, uploadVars
<1>2. BundleTypeOK' /\ LateOK' /\ ObjectOK' /\ AcceptedOK' /\ LeftoversAreReported' /\ CallbackJoined'
  BY <1>1, Zenon DEF UploadInv, BundleTypeOK, StreamTypeOK, LateOK, Complete, ObjectOK, StoredWhole,
     AcceptedOK, LeftoversAreReported, CallbackJoined
<1>3. ASSUME NEW j \in Jobs
      PROVE  /\ WholeOK(j)' /\ RouteOK(j)' /\ PartsOK(j)' /\ OffsetOK(j)'
             /\ (step[j] = "complete" => Complete(j))'
  BY <1>1, <1>3, Zenon DEF UploadInv, WholeOK, RouteOK, PartsOK, OffsetOK, Complete
<1>. QED  BY <1>2, <1>3 DEF UploadInv

(***************************************************************************)
(* UploadInv is an invariant of concurrent uploads of one key, for any     *)
(* callers, tips, sizes and limits (encryptAndUploadBundle).               *)
(***************************************************************************)
THEOREM UploadInvariance == BundleSpec => []UploadInv
<1>1. UploadInv /\ [BundleNext]_bundleVars => UploadInv'
  BY NextSteps, JobAdvances, UploadStutters
<1>. QED  BY <1>1, UploadInit, PTL DEF BundleSpec

(***************************************************************************)
(* The types of BundleUpload hold throughout.                              *)
(***************************************************************************)
THEOREM UploadTypeCorrect == BundleSpec => []BundleTypeOK
<1>1. UploadInv => BundleTypeOK
  BY DEF UploadInv
<1>. QED  BY <1>1, UploadInvariance, PTL

(***************************************************************************)
(* Every multipart upload left behind was left by a helper that died or    *)
(* was told of by an error (the deferred abort of multipartUploadBundle).  *)
(***************************************************************************)
THEOREM LeftoversReported == BundleSpec => []LeftoversAreReported
<1>1. UploadInv => LeftoversAreReported
  BY DEF UploadInv
<1>. QED  BY <1>1, UploadInvariance, PTL

(***************************************************************************)
(* streamBundle never returns with its callback still to run.              *)
(***************************************************************************)
THEOREM CallbacksJoined == BundleSpec => []CallbackJoined
<1>1. UploadInv => CallbackJoined
  BY DEF UploadInv
<1>. QED  BY <1>1, UploadInvariance, PTL

\* Full parts before a last one that is not beyond the end are not too many.
LEMMA FewParts ==
    ASSUME NEW n \in Nat, NEW usual \in Nat, NEW total \in Nat, NEW limit \in Nat,
           usual * (n - 1) < total, total <= limit * usual
    PROVE  n <= limit
<1>. SUFFICES ASSUME limit + 1 <= n PROVE FALSE
  OBVIOUS
<1>1. n - 1 \in Nat /\ limit <= n - 1
  OBVIOUS
<1>2. usual * limit <= usual * (n - 1)
  BY <1>1, Monotone
<1>3. usual * limit = limit * usual /\ usual * (n - 1) \in Nat /\ limit * usual \in Nat
  BY <1>1
<1>. QED  BY <1>2, <1>3

(***************************************************************************)
(* S3 takes every part of every upload: not too many, none too large, none *)
(* but the last too small (multipartBundlePartSize, multipartUploadBundle).*)
(***************************************************************************)
THEOREM PartsAlwaysFit == BundleSpec => []PartsWithinLimits
<1>1. ASSUME UploadInv, NEW j \in Jobs, uploads[j] # None
      PROVE  /\ Len(uploads[j]) <= maxUploadParts
             /\ \A i \in DOMAIN uploads[j] :
                   /\ uploads[j][i] <= maxUploadPartSize
                   /\ i < Len(uploads[j]) => uploads[j][i] >= bundleUploadPartSize
  <2>. DEFINE parts == uploads[j]
  <2>1. /\ BundleTypeOK /\ PartsOK(j) /\ size[j] \in Nat
        /\ parts \in Seq(Nat \ {0}) /\ parts \in Seq(Nat)
    BY <1>1, Before DEF JobOK, BundleTypeOK
  <2>2. CASE parts = <<>>
    BY <2>2, PartSizeAssumption
  <2>3. CASE parts # <<>>
    <3>1. /\ part[j] = multipartBundlePartSize(size[j]) /\ part[j] # TooLarge
          /\ \A i \in DOMAIN parts : parts[i] <= part[j] /\ (i < Len(parts) => parts[i] = part[j])
          /\ part[j] * (Len(parts) - 1) < size[j]
      BY <1>1, <2>1, <2>3 DEF PartsOK
    <3>2. /\ bundleUploadPartSize <= part[j] /\ part[j] <= maxUploadPartSize
          /\ size[j] <= maxUploadParts * part[j]
      BY <2>1, <3>1, PartSizeIsNat DEF PartsFit
    <3>3. part[j] \in Nat /\ Len(parts) \in Nat /\ \A i \in DOMAIN parts : parts[i] \in Nat
      BY <2>1 DEF BundleTypeOK
    <3>. HIDE DEF parts
    <3>4. Len(parts) <= maxUploadParts
      BY <2>1, <3>1, <3>2, <3>3, FewParts, PartSizeAssumption
    <3>5. ASSUME NEW i \in DOMAIN parts
          PROVE  /\ parts[i] <= maxUploadPartSize
                 /\ i < Len(parts) => parts[i] >= bundleUploadPartSize
      BY <3>1, <3>2, <3>3, PartSizeAssumption
    <3>. QED  BY <3>4, <3>5 DEF parts
  <2>. QED  BY <2>2, <2>3
<1>2. UploadInv => PartsWithinLimits
  BY <1>1 DEF PartsWithinLimits
<1>. QED  BY <1>2, UploadInvariance, PTL

----------------------------------------------------------------------------
(* The refinement of StoredBundle.                                         *)

StoredRecord == IF StoredWhole THEN [by |-> object.by, tip |-> object.tip] ELSE None
Acknowledged == {j \in Jobs : step[j] = "ok"}

LEMMA StoresInit == BundleInit => Promise!Init
<1>. SUFFICES ASSUME BundleInit PROVE Promise!Init
  OBVIOUS
<1>1. ~StoredWhole /\ Acknowledged = {}
  BY DEF BundleInit, StoredWhole, Acknowledged
<1>. QED  BY <1>1 DEF Promise!Init, BundleInit, Acknowledged

\* What is stored is the object, whole.
StoredOK ==
    /\ object = None => StoredRecord = None
    /\ object # None =>
          /\ StoredRecord = [by |-> object.by, tip |-> object.tip]
          /\ StoredRecord \in [by : Jobs, tip : Tips]
          /\ StoredRecord.tip = object.tip /\ StoredRecord # None
          /\ StoredRecord.tip = pushTip[StoredRecord.by]

LEMMA Stored == UploadInv => StoredOK
<1>. SUFFICES ASSUME UploadInv PROVE StoredOK
  OBVIOUS
<1>1. BundleTypeOK /\ ObjectOK
  BY DEF UploadInv
<1>2. CASE object = None
  BY <1>2 DEF StoredRecord, StoredWhole, StoredOK
<1>3. CASE object # None
  <2>1. StoredWhole /\ object.tip = pushTip[object.by] /\ object \in Ciphertexts
    BY <1>1, <1>3 DEF ObjectOK, BundleTypeOK
  <2>2. StoredRecord = [by |-> object.by, tip |-> object.tip]
    BY <2>1 DEF StoredRecord
  <2>3. object.by \in Jobs /\ object.tip \in Tips
    BY <2>1 DEF Ciphertexts
  <2>4. StoredRecord \in [by : Jobs, tip : Tips]
    BY <2>2, <2>3
  <2>. QED  BY <1>3, <2>1, <2>2, <2>4, UploadAssumption DEF StoredOK
<1>. QED  BY <1>2, <1>3

LEMMA StoresStep ==
    ASSUME UploadInv, UploadInv', NEW j \in Jobs, StepOK(j)
    PROVE  Promise!Next
<1>1. /\ pushTip' = pushTip /\ size' = size /\ whole \subseteq whole'
      /\ Apart(j) /\ Ends(j) /\ Stores(j) /\ BundleTypeOK /\ BundleTypeOK'
  BY DEF StepOK, Advances, UploadInv
<1>2. StoredOK
  BY Stored
<1>3. StoredOK'
  BY Stored, PTL
<1>4. \/ StoredRecord' = StoredRecord
      \/ /\ StoredRecord = None
         /\ StoredRecord' \in {c \in Promise!Ciphertexts : c.tip = pushTip[c.by]}
  <2>1. CASE object' = object
    BY <1>2, <1>3, <2>1 DEF StoredOK
  <2>2. CASE object = None /\ object' # object
    BY <1>1, <1>2, <1>3, <2>2 DEF Promise!Ciphertexts, StoredOK
  <2>. QED  BY <1>1, <2>1, <2>2 DEF Stores
<1>5. Acknowledged \subseteq Acknowledged'
  BY <1>1 DEF Acknowledged, Apart, Ends
<1>6. ASSUME NEW k \in Acknowledged' \ Acknowledged
      PROVE  StoredRecord' # None /\ StoredRecord'.tip = pushTip[k]
  <2>1. k = j /\ object' # None /\ object'.tip = pushTip[j]
    BY <1>1, <1>6 DEF Acknowledged, Apart, Ends
  <2>. QED  BY <1>3, <2>1 DEF StoredOK
<1>. QED  BY <1>1, <1>4, <1>5, <1>6 DEF Promise!Next, StoredRecord, Acknowledged

(***************************************************************************)
(* Concurrent uploads of one key keep the promise of StoredBundle: the     *)
(* first whole ciphertext stays, and success is only for pushes of its     *)
(* tip (uploadBundle, multipartUploadBundle, bundleUploadResult).          *)
(***************************************************************************)
THEOREM StoresWhole == BundleSpec => RefinesStoredBundle
<1>1. UploadInv /\ UploadInv' /\ [BundleNext]_bundleVars
        => [Promise!Next]_<<pushTip, StoredRecord, Acknowledged>>
  <2>1. CASE BundleNext /\ UploadInv /\ UploadInv'
    BY <2>1, NextSteps, StoresStep
  <2>2. CASE UNCHANGED bundleVars
    BY <2>2 DEF bundleVars, uploadVars, streamVars, StoredRecord, StoredWhole, Acknowledged
  <2>. QED  BY <2>1, <2>2
<1>. QED
  BY <1>1, StoresInit, UploadInvariance, PTL
     DEF BundleSpec, RefinesStoredBundle, Promise!Spec, StoredRecord, Acknowledged

=============================================================================
