-------------------------- MODULE ValidationProofs --------------------------
(***************************************************************************)
(* For any number of goroutines, bundles and operations: what a validation *)
(* returns about a bundle is true of one object, success is complete, and  *)
(* the error it returns is one that happened.                              *)
(***************************************************************************)
EXTENDS Validation, FiniteSetTheorems, TLAPS

Working == {"received"} \union Requests

\* Who can be at work in each phase.
PhaseInv ==
    /\ phase = "idle" => \A w \in Goroutines : at[w] = "none" /\ job[w] = 0
    /\ phase \in {"feeding", "waiting"} => at[Caller] = "none"
    /\ phase = "walking" => \A w \in Workers : at[w] = "none"

\* While an operation runs, whatever exists has been seen.
SeenInv == phase # "idle" => \A k \in Keys : objects[k] # None => <<k, objects[k]>> \in seen

\* A HEAD's answer was true, and goes on being true of the identity it named.
HeadInv ==
    \A w \in Goroutines : at[w] \in {"count", "read"} =>
        /\ <<Ref(w).key, headed[w]>> \in seen
        /\ Ref(w).etag \in {None, headed[w]}
        /\ tip # None => PushTip[headed[w]] = tip

CacheTrue == \A k \in Keys, v \in Versions : cache[<<k, v>>] \in {None, Envelope[v]}

TrueOfAnObject(d) ==
    /\ <<d.key, d.etag>> \in seen
    /\ d.recipients = Envelope[d.etag]
    /\ tip # None => PushTip[d.etag] = tip

MemoInv ==
    \A k \in Keys : inspected[k] # None => inspected[k].key = k /\ TrueOfAnObject(inspected[k])

CheckedInv ==
    \A i \in 1..Len(refs) : checked[i] # None =>
        TrueOfAnObject(checked[i]) /\ Agrees(refs[i], checked[i])

\* The pool's context is cancelled exactly when something went wrong.
PoolInv ==
    phase \in {"feeding", "waiting"} =>
        /\ tip # None /\ err = None
        /\ cause # None => cause \in failures \union {Parent}
        /\ cause = None => failures = {}

\* chain has no context of its own, and stops at the first thing that went wrong.
ChainInv ==
    phase = "walking" =>
        /\ tip = None /\ cause \in {None, Parent}
        /\ err # None => at[Caller] = "none"
        /\ \/ err = None /\ failures = {}
           \/ err # None /\ failures = {err}
           \/ err = GitFailed /\ failures = {}
           \/ err = Canceled /\ failures = {} /\ cause = Parent

\* Until something goes wrong, every reference handed out is done or being worked
\* on.
Unfailed == IF phase = "walking" THEN err = None ELSE cause = None

ProgressInv ==
    /\ (phase # "idle" /\ Unfailed) =>
        \A i \in 1..next : \/ checked[i] # None
                           \/ \E w \in Goroutines : at[w] \in Working /\ job[w] = i
    /\ (phase = "waiting" /\ cause = None) => next = Len(refs)

ValidationInv ==
    /\ ValidationTypeOK /\ PhaseInv /\ SeenInv /\ HeadInv /\ CacheTrue /\ MemoInv
    /\ CheckedInv /\ PoolInv /\ ChainInv /\ ProgressInv /\ FirstErrorReported

-----------------------------------------------------------------------------
(* Data                                                                    *)

LEMMA EnvelopesTyped ==
    /\ \A v \in Versions : Envelope[v] \in SUBSET Recipients
    /\ Policy \in SUBSET Recipients
<1>1. ASSUME NEW v \in Versions, NEW r \in Envelope[v] PROVE r \in Recipients
  <2>1. Envelope[v] \in {Envelope[w] : w \in Versions}
    OBVIOUS
  <2> QED
    BY <2>1 DEF Recipients
<1> QED
  BY <1>1 DEF Recipients

LEMMA DescriptorsExist == \A d \in Descriptors : d # None
  BY DescriptorAssumption

\* SetToSeq enumerates a set of keys.
LEMMA OrderTyped ==
    ASSUME NEW ks \in SUBSET Keys
    PROVE  SetToSeq(ks) \in Seq(ks)
<1>1. IsFiniteSet(ks)
  BY KeysAssumption, FS_Subset
<1>2. Cardinality(ks) \in Nat /\ ExistsBijection(1..Cardinality(ks), ks)
  BY <1>1, FS_CardinalityType
<1>3. \E f \in [1..Cardinality(ks) -> ks] : IsInjective(f)
  <2>1. PICK f : f \in Bijection(1..Cardinality(ks), ks)
    BY <1>2 DEF ExistsBijection
  <2>2. f \in [1..Cardinality(ks) -> ks]
    BY <2>1 DEF Bijection, Injection
  <2>3. \A a, b \in DOMAIN f : f[a] = f[b] => a = b
    BY <2>1, <2>2 DEF Bijection, Injection, IsInjective
  <2> QED
    BY <2>2, <2>3 DEF IsInjective
<1>4. SetToSeq(ks) \in [1..Cardinality(ks) -> ks]
  BY <1>3 DEF SetToSeq
<1> QED
  BY <1>2, <1>4

LEMMA ChainRefsTyped == ChainRefs \subseteq Descriptors
<1>1. ASSUME NEW k \in Chained PROVE LegacyRef(k) \in Descriptors
  BY KeysAssumption DEF LegacyRef, Descriptors
<1>2. ASSUME NEW k \in Chained, NEW v \in Versions PROVE Recorded(k, v) \in Descriptors
  BY KeysAssumption, EnvelopesTyped DEF Recorded, Descriptors
<1> QED
  BY <1>1, <1>2 DEF ChainRefs

-----------------------------------------------------------------------------
(* An operation begins                                                     *)

LEMMA OperationStep ==
    ASSUME ValidationInv, NEW list \in Seq(Descriptors), NEW pushTip \in {None, Tip},
           NEW start \in {"feeding", "walking"}, Operation(list, pushTip, start),
           at' \in [Goroutines -> {"none", "receiving"}],
           at'[Caller] = "none",
           start = "walking" => pushTip = None /\ \A w \in Workers : at'[w] = "none",
           start = "feeding" => pushTip # None
    PROVE  ValidationInv'
<1> USE DEF ValidationInv, Operation
<1>1. ValidationTypeOK'
  <2>1. 0 \in 0..Len(list) /\ 0 \in 0..Len(refs')
    OBVIOUS
  <2>2. \A w \in Goroutines : job'[w] = 0
    BY DEF PhaseInv
  <2>3. job' \in [Goroutines -> 0..Len(refs')]
    BY <2>1, <2>2 DEF ValidationTypeOK
  <2>4. at' \in [Goroutines -> {"none", "receiving", "received"} \union Requests]
    OBVIOUS
  <2>5. \A w \in Goroutines : at'[w] \notin {"received"} \union Requests
    BY DEF Requests
  <2>6. \A w \in Goroutines : at'[w] \notin {"count", "read"}
    OBVIOUS
  <2>7. /\ objects' \in [Keys -> Versions \union {None}]
        /\ cache' \in [Keys \X Versions -> (SUBSET Recipients) \union {None}]
        /\ refs' \in Seq(Descriptors)
        /\ tip' \in {None, Tip}
        /\ phase' \in {"idle", "feeding", "waiting", "walking"}
        /\ headed' \in [Goroutines -> Versions \union {None}]
    BY DEF ValidationTypeOK
  <2>8. /\ cause' \in (Errors \union {None})' /\ err' \in (Errors \union {None})'
        /\ failures' \subseteq 1..Len(refs')
    OBVIOUS
  <2>9. /\ checked' \in [1..Len(refs') -> Descriptors \union {None}]
        /\ inspected' \in [Keys -> Descriptors \union {None}]
    OBVIOUS
  <2> QED
    BY <2>1, <2>3, <2>4, <2>5, <2>6, <2>7, <2>8, <2>9 DEF ValidationTypeOK
<1>2. PhaseInv'
  BY DEF PhaseInv
<1>3. SeenInv'
  BY DEF SeenInv, Existing
<1>4. HeadInv'
  BY DEF HeadInv
<1>5. CacheTrue' /\ MemoInv'
  BY DEF CacheTrue, MemoInv
<1>6. CheckedInv'
  BY DEF CheckedInv
<1>7. PoolInv' /\ ChainInv' /\ ProgressInv' /\ FirstErrorReported'
  BY DEF PoolInv, ChainInv, Unfailed, ProgressInv, FirstErrorReported
<1> QED
  BY <1>1, <1>2, <1>3, <1>4, <1>5, <1>6, <1>7

LEMMA StartPrefixStep ==
    ASSUME ValidationInv, StartPrefix
    PROVE  ValidationInv'
<1>1. PICK ks \in (SUBSET {k \in Keys : objects[k] # None}) \ {{}},
           started \in SUBSET Workers :
        /\ Operation([i \in 1..Len(SetToSeq(ks)) |-> Listed(SetToSeq(ks)[i])], Tip, "feeding")
        /\ at' = [w \in Goroutines |-> IF w \in started THEN "receiving" ELSE "none"]
  BY DEF StartPrefix
<1> DEFINE order == SetToSeq(ks)
           list == [i \in 1..Len(order) |-> Listed(order[i])]
<1>2. order \in Seq(ks) /\ ks \in SUBSET Keys
  BY OrderTyped
<1>3. ASSUME NEW k \in ks PROVE Listed(k) \in Descriptors
  BY EnvelopesTyped DEF Listed, Descriptors, ValidationInv, ValidationTypeOK
<1>4. list \in Seq(Descriptors)
  BY <1>2, <1>3
<1>5. Caller \notin started /\ Caller \in Goroutines
  BY GoroutinesAssumption DEF Goroutines
<1>6. Tip # None
  BY AbsenceAssumption
<1> QED
  BY <1>1, <1>4, <1>5, <1>6, OperationStep

LEMMA StartChainStep ==
    ASSUME ValidationInv, StartChain
    PROVE  ValidationInv'
<1>0. PICK n \in 1..MaxChain : \E list \in [1..n -> ChainRefs] :
        Operation(list, None, "walking") /\ UNCHANGED at
  BY DEF StartChain
<1>1. PICK list \in [1..n -> ChainRefs] : Operation(list, None, "walking") /\ UNCHANGED at
  BY <1>0
<1>2. list \in Seq(Descriptors)
  BY ChainRefsTyped
<1>3. \A w \in Goroutines : at'[w] = "none"
  BY <1>1 DEF Operation, ValidationInv, PhaseInv
<1>4. at' \in [Goroutines -> {"none", "receiving"}]
  BY <1>1, <1>3 DEF ValidationInv, ValidationTypeOK
<1> QED
  BY <1>1, <1>2, <1>3, <1>4, OperationStep DEF Goroutines

-----------------------------------------------------------------------------
(* The pool                                                                *)

LEMMA FeedStep ==
    ASSUME ValidationInv, NEW w \in Workers, Feed(w)
    PROVE  ValidationInv'
<1> USE DEF ValidationInv, Feed
<1>0. w \in Goroutines /\ w # Caller
  BY GoroutinesAssumption DEF Goroutines
<1>1. next + 1 \in 1..Len(refs) /\ next' = next + 1 /\ next' \in 0..Len(refs)
  BY DEF ValidationTypeOK, MoreJobs
<1>2. /\ at' = [at EXCEPT ![w] = "received"] /\ at[w] = "receiving"
      /\ job' = [job EXCEPT ![w] = next + 1]
  BY DEF Moves, Takes
<1>3. ValidationTypeOK'
  BY <1>0, <1>1, <1>2 DEF ValidationTypeOK, Errors
<1>4. PhaseInv' /\ SeenInv' /\ CacheTrue' /\ PoolInv' /\ ChainInv' /\ FirstErrorReported'
  BY <1>0, <1>2 DEF PhaseInv, SeenInv, CacheTrue, PoolInv, ChainInv, Unfailed, FirstErrorReported, ValidationTypeOK
<1>5. HeadInv'
  BY <1>0, <1>2 DEF HeadInv, Ref, ValidationTypeOK, Requests
<1>6. MemoInv' /\ CheckedInv'
  BY DEF MemoInv, CheckedInv, TrueOfAnObject, Agrees
<1>7. ProgressInv'
  <2>1. ASSUME NEW i \in 1..next', cause = None
        PROVE  \/ checked'[i] # None
               \/ \E u \in Goroutines : at'[u] \in Working /\ job'[u] = i
    <3>1. CASE i = next + 1
      BY <3>1, <1>0, <1>2 DEF Working, ValidationTypeOK
    <3>2. CASE i # next + 1
      <4>1. i \in 1..next
        BY <3>2, <1>1 DEF ValidationTypeOK
      <4>2. at[w] \notin Working
        BY <1>2 DEF Working, Requests
      <4> QED
        BY <2>1, <4>1, <4>2, <1>2 DEF ProgressInv, Unfailed, ValidationTypeOK
    <3> QED
      BY <3>1, <3>2
  <2> QED
    BY <2>1 DEF ProgressInv, Unfailed
<1> QED
  BY <1>3, <1>4, <1>5, <1>6, <1>7

\* Closing the channel, or cancelling: only the phase or the cause changes.
LEMMA FeedEndsStep ==
    ASSUME ValidationInv, FeedEnds
    PROVE  ValidationInv'
<1> USE DEF ValidationInv, FeedEnds, poolVars, boundVars
<1>1. ValidationTypeOK'
  BY DEF ValidationTypeOK, Errors
<1>2. PhaseInv' /\ SeenInv' /\ CacheTrue' /\ PoolInv' /\ ChainInv' /\ FirstErrorReported'
  BY DEF PhaseInv, SeenInv, CacheTrue, PoolInv, ChainInv, Unfailed, FirstErrorReported
<1>3. HeadInv' /\ MemoInv' /\ CheckedInv'
  BY DEF HeadInv, Ref, MemoInv, CheckedInv, TrueOfAnObject, Agrees
<1>4. ProgressInv'
  BY DEF ProgressInv, Unfailed, Working
<1> QED
  BY <1>1, <1>2, <1>3, <1>4

LEMMA ParentFailsStep ==
    ASSUME ValidationInv, ParentCancels
    PROVE  ValidationInv'
<1> USE DEF ValidationInv, ParentCancels, poolVars, boundVars
<1>0. Parent # None
  BY CausesAssumption
<1>1. ValidationTypeOK'
  BY DEF ValidationTypeOK, Errors
<1>2. PhaseInv' /\ SeenInv' /\ CacheTrue' /\ PoolInv' /\ ChainInv' /\ FirstErrorReported'
  BY <1>0 DEF PhaseInv, SeenInv, CacheTrue, PoolInv, ChainInv, Unfailed, FirstErrorReported
<1>3. HeadInv' /\ MemoInv' /\ CheckedInv'
  BY DEF HeadInv, Ref, MemoInv, CheckedInv, TrueOfAnObject, Agrees
<1>4. ProgressInv'
  BY <1>0 DEF ProgressInv, Unfailed
<1> QED
  BY <1>1, <1>2, <1>3, <1>4

(***************************************************************************)
(* A goroutine moves to another step and nothing else changes.  It may     *)
(* drop its reference only when the context is cancelled or when it had    *)
(* none.                                                                   *)
(***************************************************************************)
LEMMA MoveStep ==
    ASSUME ValidationInv, NEW w \in Goroutines, NEW step \in {"none"} \union Requests,
           at[w] # "none", Moves(w, step),
           UNCHANGED <<objects, cache, operationVars, job, headed, result, seen, boundVars>>,
           step \in Working => at[w] \in Working,
           step = "count" => at[w] = "count",
           step = "read" => at[w] = "count",
           (step = "none" /\ at[w] \in Working) => w # Caller /\ cause # None
    PROVE  ValidationInv'
<1> USE DEF ValidationInv, operationVars, boundVars
<1>1. at' = [at EXCEPT ![w] = step]
  BY DEF Moves
<1>2. ValidationTypeOK'
  <2>1. at' \in [Goroutines -> {"none", "receiving", "received"} \union Requests]
    BY <1>1 DEF ValidationTypeOK
  <2>2. \A u \in Goroutines :
            /\ at'[u] \in {"received"} \union Requests => job'[u] # 0
            /\ at'[u] \in {"count", "read"} => headed'[u] # None
    BY <1>1 DEF ValidationTypeOK, Working, Requests
  <2> QED
    BY <2>1, <2>2 DEF ValidationTypeOK, Errors
<1>3. PhaseInv' /\ SeenInv' /\ CacheTrue' /\ PoolInv' /\ ChainInv' /\ FirstErrorReported'
  BY <1>1 DEF PhaseInv, SeenInv, CacheTrue, PoolInv, ChainInv, Unfailed, FirstErrorReported, ValidationTypeOK
<1>4. HeadInv'
  <2>1. ASSUME NEW u \in Goroutines, at'[u] \in {"count", "read"}
        PROVE  at[u] \in {"count", "read"} /\ Ref(u)' = Ref(u) /\ headed'[u] = headed[u]
    BY <2>1, <1>1 DEF ValidationTypeOK, Ref
  <2> QED
    BY <2>1 DEF HeadInv
<1>5. MemoInv' /\ CheckedInv'
  BY DEF MemoInv, CheckedInv, TrueOfAnObject, Agrees
<1>6. ProgressInv'
  <2>1. ASSUME NEW u \in Goroutines, at[u] \in Working, cause = None PROVE at'[u] \in Working
    BY <2>1, <1>1 DEF Working, ValidationTypeOK
  <2>2. ASSUME NEW u \in Goroutines, at[u] \in Working, phase = "walking"
        PROVE  at'[u] \in Working
    BY <2>2, <1>1 DEF Working, Requests, ValidationTypeOK, PhaseInv, Goroutines
  <2> QED
    BY <2>1, <2>2 DEF ProgressInv, Unfailed
<1> QED
  BY <1>2, <1>3, <1>4, <1>5, <1>6

LEMMA WorkerEndsStep ==
    ASSUME ValidationInv, NEW w \in Workers, WorkerEnds(w)
    PROVE  ValidationInv'
<1>1. w \in Goroutines
  BY DEF Goroutines
<1>2. at[w] = "receiving" /\ "receiving" \notin Working /\ "none" \notin Working
  BY DEF WorkerEnds, Working, Requests
<1> QED
  BY <1>1, <1>2, MoveStep DEF WorkerEnds

LEMMA BeginInspectStep ==
    ASSUME ValidationInv, NEW w \in Workers, BeginInspect(w)
    PROVE  ValidationInv'
<1>1. w \in Goroutines /\ w # Caller
  BY GoroutinesAssumption DEF Goroutines
<1>2. at[w] = "received" /\ "received" \in Working /\ "none" \notin Working
  BY DEF BeginInspect, Working, Requests
<1>3. CASE cause # None
  BY <1>1, <1>2, <1>3, MoveStep DEF BeginInspect
<1>4. CASE cause = None
  BY <1>1, <1>2, <1>4, MoveStep DEF BeginInspect, Requests
<1> QED
  BY <1>3, <1>4

\* The reference a goroutine works on.
LEMMA JobTyped ==
    ASSUME ValidationInv, NEW w \in Goroutines, at[w] \in Working
    PROVE  /\ job[w] \in 1..Len(refs) /\ Ref(w) \in Descriptors /\ Ref(w).key \in Keys
           /\ phase # "idle"
<1> USE DEF ValidationInv
<1>1. job[w] \in 0..Len(refs) /\ job[w] # 0 /\ refs \in Seq(Descriptors)
  BY DEF ValidationTypeOK, Working
<1>2. job[w] \in 1..Len(refs)
  BY <1>1
<1>3. at[w] # "none"
  BY DEF Working, Requests
<1>4. Ref(w) \in Descriptors
  BY <1>1, <1>2 DEF Ref
<1>5. \A d \in Descriptors : d.key \in Keys
  BY DEF Descriptors
<1> QED
  BY <1>2, <1>3, <1>4, <1>5 DEF PhaseInv

\* The Caller works in chain only, the others in the pool only.
LEMMA WhoWorks ==
    ASSUME ValidationInv, NEW w \in Goroutines, at[w] \in Working
    PROVE  IF w = Caller THEN phase = "walking" ELSE phase \in {"feeding", "waiting"}
<1>1. at[w] # "none" /\ phase # "idle"
  BY JobTyped DEF Working, Requests
<1> QED
  BY <1>1 DEF ValidationInv, ValidationTypeOK, PhaseInv, Goroutines

(***************************************************************************)
(* A goroutine stops with an error, of its reference, which is recorded,   *)
(* or of a context that is done.                                           *)
(***************************************************************************)
LEMMA StopsStep ==
    ASSUME ValidationInv, NEW w \in Goroutines, at[w] \in Working,
           NEW why, Stops(w, why),
           \/ why = job[w] /\ failures' = failures \union {job[w]}
           \/ why = Canceled /\ cause # None /\ failures' = failures,
           UNCHANGED <<objects, refs, tip, phase, next, job, checked, inspected, result,
                       seen, boundVars>>,
           headed' \in [Goroutines -> Versions \union {None}],
           \A u \in Goroutines \ {w} : headed'[u] = headed[u],
           cache' \in [Keys \X Versions -> (SUBSET Recipients) \union {None}],
           CacheTrue'
    PROVE  ValidationInv'
<1> USE DEF ValidationInv, boundVars
<1>0. job[w] \in 1..Len(refs) /\ phase # "idle" /\ at[w] # "none"
  BY JobTyped DEF Working, Requests
<1>1. at' = [at EXCEPT ![w] = "none"]
  BY DEF Stops, Moves
<1>2. why \in 1..Len(refs) \union {Canceled} /\ why # None
  BY <1>0, CausesAssumption
<1>3. \/ w = Caller /\ err' = why /\ cause' = cause
      \/ w # Caller /\ cause' = (IF cause = None THEN why ELSE cause) /\ err' = err
  BY DEF Stops, Cancel
<1>4. ValidationTypeOK'
  <2>1. at' \in [Goroutines -> {"none", "receiving", "received"} \union Requests]
    BY <1>1 DEF ValidationTypeOK
  <2>2. \A u \in Goroutines :
            /\ at'[u] \in {"received"} \union Requests => job'[u] # 0
            /\ at'[u] \in {"count", "read"} => headed'[u] # None
    BY <1>1 DEF ValidationTypeOK, Requests
  <2>3. cause' \in (Errors \union {None})' /\ err' \in (Errors \union {None})'
    BY <1>2, <1>3 DEF ValidationTypeOK, Errors
  <2>4. failures' \subseteq 1..Len(refs')
    BY <1>0 DEF ValidationTypeOK
  <2> QED
    BY <2>1, <2>2, <2>3, <2>4 DEF ValidationTypeOK
<1>5. PhaseInv' /\ SeenInv'
  BY <1>0, <1>1 DEF PhaseInv, SeenInv, ValidationTypeOK
<1>6. PoolInv' /\ ChainInv'
  <2>1. CASE w = Caller
    <3>1. phase = "walking"
      BY <2>1, WhoWorks
    <3>2. err = None /\ failures = {} /\ cause \in {None, Parent} /\ tip = None
      BY <2>1, <3>1, <1>0 DEF ChainInv
    <3>3. at'[Caller] = "none" /\ err' = why /\ cause' = cause
      BY <2>1, <1>1, <1>3 DEF ValidationTypeOK
    <3> QED
      BY <3>1, <3>2, <3>3, <1>2 DEF PoolInv, ChainInv
  <2>2. CASE w # Caller
    <3>1. phase \in {"feeding", "waiting"}
      BY <2>2, WhoWorks
    <3>2. /\ tip # None /\ err' = None
          /\ cause # None => cause \in failures \union {Parent}
      BY <2>2, <3>1, <1>3 DEF PoolInv
    <3>3. cause' # None /\ cause' \in failures' \union {Parent}
      BY <2>2, <3>2, <1>2, <1>3
    <3> QED
      BY <3>1, <3>2, <3>3 DEF PoolInv, ChainInv
  <2> QED
    BY <2>1, <2>2
<1>7. ProgressInv'
  <2>1. IF phase = "walking" THEN err' # None ELSE cause' # None
    BY <1>0, <1>2, <1>3, WhoWorks
  <2> QED
    BY <2>1, <1>0 DEF ProgressInv, Unfailed
<1>8. FirstErrorReported'
  BY <1>0 DEF FirstErrorReported
<1>9. HeadInv'
  <2>1. ASSUME NEW u \in Goroutines, at'[u] \in {"count", "read"}
        PROVE  at[u] \in {"count", "read"} /\ Ref(u)' = Ref(u) /\ headed'[u] = headed[u]
    BY <2>1, <1>1 DEF ValidationTypeOK, Ref
  <2> QED
    BY <2>1 DEF HeadInv
<1>10. MemoInv' /\ CheckedInv'
  BY DEF MemoInv, CheckedInv, TrueOfAnObject, Agrees
<1> QED
  BY <1>4, <1>5, <1>6, <1>7, <1>8, <1>9, <1>10

LEMMA FailsStep ==
    ASSUME ValidationInv, NEW w \in Goroutines, at[w] \in Working, Fails(w)
    PROVE  ValidationInv'
<1>1. /\ headed' \in [Goroutines -> Versions \union {None}] /\ headed' = headed
      /\ cache' \in [Keys \X Versions -> (SUBSET Recipients) \union {None}]
      /\ CacheTrue'
  BY DEF Fails, ValidationInv, ValidationTypeOK, CacheTrue
<1> QED
  BY <1>1, StopsStep DEF Fails

LEMMA RequestFailsStep ==
    ASSUME ValidationInv, NEW w \in Goroutines, RequestFails(w)
    PROVE  ValidationInv'
<1>1. at[w] \in Working
  BY DEF RequestFails, Working
<1>2. CASE cause = None
  BY <1>1, <1>2, FailsStep DEF RequestFails
<1>3. CASE cause # None
  <2>1. /\ headed' \in [Goroutines -> Versions \union {None}] /\ headed' = headed
        /\ cache' \in [Keys \X Versions -> (SUBSET Recipients) \union {None}]
        /\ CacheTrue'
    BY <1>3 DEF RequestFails, ValidationInv, ValidationTypeOK, CacheTrue
  <2>2. Stops(w, Canceled) /\ failures' = failures
        /\ UNCHANGED <<objects, refs, tip, phase, next, job, checked, inspected, result,
                       seen, boundVars>>
    BY <1>3 DEF RequestFails
  <2> QED
    BY <1>1, <1>3, <2>1, <2>2, StopsStep
<1> QED
  BY <1>2, <1>3

(***************************************************************************)
(* A goroutine has found what its object is.  Only its own places change,  *)
(* and the cache by something true.                                        *)
(***************************************************************************)
LEMMA FinishesStep ==
    ASSUME ValidationInv, NEW w \in Goroutines, at[w] \in Requests,
           NEW found \in Descriptors, found.key = Ref(w).key, TrueOfAnObject(found),
           Finishes(w, found),
           UNCHANGED <<objects, refs, tip, phase, next, job, result, seen, boundVars>>,
           headed' \in [Goroutines -> Versions \union {None}],
           \A u \in Goroutines \ {w} : headed'[u] = headed[u],
           cache' \in [Keys \X Versions -> (SUBSET Recipients) \union {None}],
           CacheTrue'
    PROVE  ValidationInv'
<1> USE DEF ValidationInv, boundVars
<1>0. /\ at[w] \in Working /\ at[w] # "none"
  BY DEF Working, Requests
<1>a. /\ job[w] \in 1..Len(refs) /\ phase # "idle" /\ found.key \in Keys /\ found # None
  BY <1>0, JobTyped, DescriptorsExist
<1>b. job[w] # None
  BY <1>a, CausesAssumption
<1>1. CASE ~Agrees(Ref(w), found)
  BY <1>0, <1>1, StopsStep DEF Finishes
<1>2. CASE Agrees(Ref(w), found)
  <2>1. /\ at' = [at EXCEPT ![w] = IF w = Caller THEN "none" ELSE "receiving"]
        /\ checked' = [checked EXCEPT ![job[w]] = found]
        /\ inspected' = [inspected EXCEPT ![found.key] = found] \/ inspected' = inspected
        /\ UNCHANGED <<cause, err, failures>>
    BY <1>2 DEF Finishes, Moves
  <2> DEFINE step == IF w = Caller THEN "none" ELSE "receiving"
  <2>2. /\ at' = [at EXCEPT ![w] = step]
        /\ step \in {"none", "receiving"} /\ (w = Caller => step = "none")
    BY <2>1
  <2> HIDE DEF step
  <2>3. ValidationTypeOK'
    <3>1. at' \in [Goroutines -> {"none", "receiving", "received"} \union Requests]
      BY <2>2 DEF ValidationTypeOK
    <3>2. \A u \in Goroutines :
              /\ at'[u] \in {"received"} \union Requests => job'[u] # 0
              /\ at'[u] \in {"count", "read"} => headed'[u] # None
      BY <2>2 DEF ValidationTypeOK, Requests
    <3>3. checked' \in [1..Len(refs') -> Descriptors \union {None}]
      BY <1>a, <2>1 DEF ValidationTypeOK
    <3>4. inspected' \in [Keys -> Descriptors \union {None}]
      BY <1>a, <2>1 DEF ValidationTypeOK
    <3> QED
      BY <2>1, <3>1, <3>2, <3>3, <3>4 DEF ValidationTypeOK, Errors
  <2>4. PhaseInv' /\ SeenInv'
    BY <1>a, <1>0, <2>2 DEF PhaseInv, SeenInv, ValidationTypeOK, Goroutines
  <2>5. HeadInv'
    <3>1. ASSUME NEW u \in Goroutines, at'[u] \in {"count", "read"}
          PROVE  at[u] \in {"count", "read"} /\ Ref(u)' = Ref(u) /\ headed'[u] = headed[u]
      BY <3>1, <2>2 DEF ValidationTypeOK, Ref
    <3> QED
      BY <3>1 DEF HeadInv
  <2>6. MemoInv'
    <3>1. ASSUME NEW k \in Keys, inspected'[k] # None
          PROVE  inspected'[k].key = k /\ TrueOfAnObject(inspected'[k])
      <4>1. inspected'[k] = inspected[k] \/ (inspected'[k] = found /\ k = found.key)
        BY <2>1 DEF ValidationTypeOK
      <4> QED
        BY <3>1, <4>1 DEF MemoInv
    <3> QED
      BY <3>1 DEF MemoInv, TrueOfAnObject
  <2>7. CheckedInv'
    <3>1. ASSUME NEW i \in 1..Len(refs), checked'[i] # None
          PROVE  TrueOfAnObject(checked'[i]) /\ Agrees(refs[i], checked'[i])
      <4>1. checked'[i] = checked[i] \/ (checked'[i] = found /\ i = job[w])
        BY <2>1 DEF ValidationTypeOK
      <4> QED
        BY <3>1, <4>1, <1>2 DEF CheckedInv, Ref
    <3> QED
      BY <3>1 DEF CheckedInv, TrueOfAnObject, Agrees
  <2>8. PoolInv' /\ FirstErrorReported'
    BY <1>a, <2>1 DEF PoolInv, FirstErrorReported
  <2>9. ChainInv'
    <3>1. at[Caller] = "none" => at'[Caller] = "none"
      BY <2>2, <1>0 DEF ValidationTypeOK, Goroutines
    <3> QED
      BY <2>1, <3>1 DEF ChainInv
  <2>10. ProgressInv'
    <3>1. ASSUME NEW i \in 1..next, Unfailed
          PROVE  \/ checked'[i] # None
                 \/ \E u \in Goroutines : at'[u] \in Working /\ job'[u] = i
      <4>0. i \in 1..Len(refs)
        BY DEF ValidationTypeOK
      <4>1. CASE checked[i] # None \/ i = job[w]
        BY <4>0, <4>1, <2>1, <1>a DEF ValidationTypeOK
      <4>2. CASE ~(checked[i] # None \/ i = job[w])
        <5>1. PICK u \in Goroutines : at[u] \in Working /\ job[u] = i
          BY <3>1, <4>2, <1>a DEF ProgressInv
        <5>2. u # w
          BY <4>2, <5>1
        <5> QED
          BY <5>1, <5>2, <2>2 DEF ValidationTypeOK
      <4> QED
        BY <4>1, <4>2
    <3>2. Unfailed' = Unfailed
      BY <2>1 DEF Unfailed
    <3> QED
      BY <2>1, <3>1, <3>2 DEF ProgressInv
  <2> QED
    BY <2>3, <2>4, <2>5, <2>6, <2>7, <2>8, <2>9, <2>10
<1> QED
  BY <1>1, <1>2

-----------------------------------------------------------------------------
(* inspectPush                                                             *)

LEMMA HeadAndLoadStep ==
    ASSUME ValidationInv, NEW w \in Goroutines, HeadAndLoad(w)
    PROVE  ValidationInv'
<1> DEFINE ref == Ref(w)
           v == objects[ref.key]
<1>1. at[w] = "head" /\ at[w] \in Requests /\ at[w] \in Working
  BY DEF HeadAndLoad, Requests, Working
<1>2. /\ job[w] \in 1..Len(refs) /\ ref \in Descriptors /\ ref.key \in Keys
      /\ phase # "idle"
  BY <1>1, JobTyped
<1>3. CASE ~Identifies(ref, v)
  BY <1>1, <1>3, FailsStep DEF HeadAndLoad
<1>4. CASE Identifies(ref, v)
  <2>1. /\ headed' = [headed EXCEPT ![w] = v]
        /\ UNCHANGED <<objects, cache, refs, tip, phase, next, job, result, seen, boundVars>>
    BY <1>4 DEF HeadAndLoad
  <2>2. /\ v \in Versions /\ v # None /\ <<ref.key, v>> \in seen
        /\ ref.etag \in {None, v}
        /\ tip # None => PushTip[v] = tip
    BY <1>2, <1>4 DEF Identifies, ValidationInv, ValidationTypeOK, SeenInv
  <2>3. headed' \in [Goroutines -> Versions \union {None}]
    BY <2>1, <2>2 DEF ValidationInv, ValidationTypeOK
  <2>4. CASE Cached(ref.key, v) # None
    <3> DEFINE found == [key |-> ref.key, etag |-> v, recipients |-> Cached(ref.key, v)]
    <3>1. Finishes(w, found)
      BY <1>4, <2>4 DEF HeadAndLoad
    <3>2. Cached(ref.key, v) = Envelope[v]
      BY <1>2, <2>2, <2>4 DEF Cached, ValidationInv, CacheTrue
    <3>3. found \in Descriptors
      BY <1>2, <2>2, <3>2, EnvelopesTyped DEF Descriptors
    <3>4. TrueOfAnObject(found)
      BY <2>2, <3>2 DEF TrueOfAnObject
    <3>5. CacheTrue' /\ cache' \in [Keys \X Versions -> (SUBSET Recipients) \union {None}]
      BY <2>1 DEF ValidationInv, ValidationTypeOK, CacheTrue
    <3>6. \A u \in Goroutines \ {w} : headed'[u] = headed[u]
      BY <2>1 DEF ValidationInv, ValidationTypeOK
    <3>7. found.key = Ref(w).key
      OBVIOUS
    <3> HIDE DEF found
    <3> QED
      BY <1>1, <2>1, <2>3, <3>1, <3>3, <3>4, <3>5, <3>6, <3>7, FinishesStep
  <2>5. CASE Cached(ref.key, v) = None
    <3> USE DEF ValidationInv, boundVars
    <3>1. PICK step \in {"count", "read"} : at' = [at EXCEPT ![w] = step]
      BY <1>4, <2>5 DEF HeadAndLoad, Moves
    <3>2. UNCHANGED <<cause, err, failures, checked, inspected>>
      BY <1>4, <2>5 DEF HeadAndLoad
    <3>3. ValidationTypeOK'
      <4>1. at' \in [Goroutines -> {"none", "receiving", "received"} \union Requests]
        BY <3>1 DEF ValidationTypeOK, Requests
      <4>2. \A u \in Goroutines :
                /\ at'[u] \in {"received"} \union Requests => job'[u] # 0
                /\ at'[u] \in {"count", "read"} => headed'[u] # None
        BY <1>1, <2>1, <2>2, <3>1 DEF ValidationTypeOK
      <4> QED
        BY <2>1, <2>3, <3>2, <4>1, <4>2 DEF ValidationTypeOK, Errors
    <3>4. PhaseInv' /\ SeenInv' /\ CacheTrue' /\ PoolInv' /\ ChainInv' /\ FirstErrorReported'
      BY <1>1, <1>2, <2>1, <3>1, <3>2
      DEF PhaseInv, SeenInv, CacheTrue, PoolInv, ChainInv, Unfailed, FirstErrorReported, ValidationTypeOK
    <3>5. HeadInv'
      <4>1. ASSUME NEW u \in Goroutines, at'[u] \in {"count", "read"}
            PROVE  /\ <<Ref(u).key, headed'[u]>> \in seen
                   /\ Ref(u).etag \in {None, headed'[u]}
                   /\ tip # None => PushTip[headed'[u]] = tip
        <5>1. CASE u = w
          BY <2>1, <2>2, <5>1 DEF ValidationTypeOK
        <5>2. CASE u # w
          BY <2>1, <3>1, <4>1, <5>2 DEF ValidationTypeOK, HeadInv
        <5> QED
          BY <5>1, <5>2
      <4> QED
        BY <2>1, <4>1 DEF HeadInv, Ref
    <3>6. MemoInv' /\ CheckedInv'
      BY <2>1, <3>2 DEF MemoInv, CheckedInv, TrueOfAnObject, Agrees
    <3>7. ProgressInv'
      BY <1>1, <2>1, <3>1, <3>2 DEF ProgressInv, Unfailed, Working, Requests, ValidationTypeOK
    <3> QED
      BY <3>3, <3>4, <3>5, <3>6, <3>7
  <2> QED
    BY <2>4, <2>5
<1> QED
  BY <1>3, <1>4

LEMMA ReadCountStep ==
    ASSUME ValidationInv, NEW w \in Goroutines, ReadCount(w)
    PROVE  ValidationInv'
<1>1. at[w] = "count" /\ at[w] \in Working /\ "read" \in Working /\ "read" \in Requests
  BY DEF ReadCount, Working, Requests
<1>2. \/ Fails(w)
      \/ /\ Moves(w, "read")
         /\ UNCHANGED <<objects, cache, operationVars, job, headed, result, seen, boundVars>>
  BY DEF ReadCount
<1> QED
  BY <1>1, <1>2, FailsStep, MoveStep

\* The range reads are bound to the ETag of the HEAD, so the recipients are those
\* of the object that answered it.
LEMMA ReadRecipientsStep ==
    ASSUME ValidationInv, NEW w \in Goroutines, ReadRecipients(w)
    PROVE  ValidationInv'
<1> DEFINE recipients == IF Pinned(w) THEN Envelope[objects[Ref(w).key]] ELSE {}
           found == Descriptor(w, recipients)
<1>1. at[w] = "read" /\ at[w] \in Requests /\ at[w] \in Working
  BY DEF ReadRecipients, Requests, Working
<1>2. CASE recipients = {} \/ Ref(w).recipients \notin {{}, recipients}
  BY <1>1, <1>2, FailsStep DEF ReadRecipients
<1>3. CASE ~(recipients = {} \/ Ref(w).recipients \notin {{}, recipients})
  <2>1. /\ Stores(Ref(w).key, headed[w], recipients) /\ Finishes(w, found)
        /\ UNCHANGED <<objects, refs, tip, phase, next, job, headed, result, seen, boundVars>>
    BY <1>3 DEF ReadRecipients
  <2>2. Ref(w).key \in Keys /\ headed[w] \in Versions
    BY <1>1, JobTyped DEF ValidationInv, ValidationTypeOK
  <2>3. recipients = Envelope[headed[w]]
    BY <1>3 DEF Pinned
  <2>4. found.key = Ref(w).key /\ found.etag = headed[w] /\ found.recipients = recipients
    BY DEF Descriptor
  <2>5. found \in Descriptors
    BY <2>2, <2>3, EnvelopesTyped DEF Descriptor, Descriptors
  <2>6. TrueOfAnObject(found)
    BY <1>1, <2>3, <2>4 DEF TrueOfAnObject, ValidationInv, HeadInv
  <2>7. recipients \in SUBSET Recipients
    BY <2>2, <2>3, EnvelopesTyped
  <2> HIDE DEF recipients, found
  <2>8. cache' \in [Keys \X Versions -> (SUBSET Recipients) \union {None}]
    BY <2>1, <2>2, <2>7 DEF Stores, ValidationInv, ValidationTypeOK
  <2>9. CacheTrue'
    <3> SUFFICES ASSUME NEW k \in Keys, NEW v \in Versions
                 PROVE  cache'[<<k, v>>] \in {None, Envelope[v]}
      BY DEF CacheTrue
    <3>1. \/ cache'[<<k, v>>] = cache[<<k, v>>]
          \/ cache'[<<k, v>>] = recipients /\ v = headed[w]
      BY <2>1, <2>2 DEF Stores, ValidationInv, ValidationTypeOK
    <3> QED
      BY <2>3, <3>1 DEF ValidationInv, CacheTrue
  <2>10. headed' \in [Goroutines -> Versions \union {None}]
    BY <2>1 DEF ValidationInv, ValidationTypeOK
  <2> QED
    BY <1>1, <2>1, <2>4, <2>5, <2>6, <2>8, <2>9, <2>10, FinishesStep
<1> QED
  BY <1>2, <1>3

-----------------------------------------------------------------------------
(* chain, the end of an operation, the environment                         *)

LEMMA FollowChainStep ==
    ASSUME ValidationInv, FollowChain
    PROVE  ValidationInv'
<1> USE DEF ValidationInv, FollowChain, boundVars
<1>0. Caller \in Goroutines
  BY DEF Goroutines
<1>1. /\ next + 1 \in 1..Len(refs) /\ next' = next + 1 /\ next' \in 0..Len(refs)
      /\ phase = "walking" /\ at[Caller] = "none" /\ err = None
      /\ job' = [job EXCEPT ![Caller] = next + 1]
  BY DEF ValidationTypeOK, Takes
<1>2. next + 1 # None /\ next + 1 # 0
  BY <1>1, CausesAssumption
<1>3. failures = {} /\ cause \in {None, Parent} /\ tip = None
  BY <1>1, CausesAssumption DEF ChainInv
<1>4. /\ \/ /\ at' = [at EXCEPT ![Caller] = "received"]
            /\ err' = None /\ failures' = {}
         \/ at' = at /\ err' = next + 1 /\ failures' = {next + 1}
         \/ at' = at /\ err' = GitFailed /\ failures' = {}
      /\ UNCHANGED <<objects, cache, refs, tip, phase, cause, headed, checked, inspected,
                     result, seen>>
  BY <1>1, <1>3 DEF Moves
<1>5. ValidationTypeOK'
  <2>1. at' \in [Goroutines -> {"none", "receiving", "received"} \union Requests]
    BY <1>4 DEF ValidationTypeOK
  <2>2. \A u \in Goroutines :
            /\ at'[u] \in {"received"} \union Requests => job'[u] # 0
            /\ at'[u] \in {"count", "read"} => headed'[u] # None
    BY <1>0, <1>1, <1>2, <1>4 DEF ValidationTypeOK
  <2>3. err' \in (Errors \union {None})' /\ failures' \subseteq 1..Len(refs')
    BY <1>1, <1>4 DEF Errors
  <2>4. job' \in [Goroutines -> 0..Len(refs')]
    BY <1>1, <1>4 DEF ValidationTypeOK
  <2> QED
    BY <1>1, <1>4, <2>1, <2>2, <2>3, <2>4 DEF ValidationTypeOK, Errors
<1>6. PhaseInv' /\ SeenInv' /\ CacheTrue' /\ PoolInv' /\ FirstErrorReported'
  BY <1>1, <1>4, GoroutinesAssumption
  DEF PhaseInv, SeenInv, CacheTrue, PoolInv, FirstErrorReported, ValidationTypeOK, Goroutines
<1>7. ChainInv'
  <2>1. err' # None => at'[Caller] = "none"
    BY <1>1, <1>4
  <2> QED
    BY <1>1, <1>2, <1>3, <1>4, <2>1 DEF ChainInv
<1>8. HeadInv'
  <2>1. ASSUME NEW u \in Goroutines, at'[u] \in {"count", "read"}
        PROVE  at[u] \in {"count", "read"} /\ Ref(u)' = Ref(u) /\ headed'[u] = headed[u]
    BY <2>1, <1>1, <1>4 DEF ValidationTypeOK, Ref
  <2> QED
    BY <2>1, <1>4 DEF HeadInv
<1>9. MemoInv' /\ CheckedInv'
  BY <1>4 DEF MemoInv, CheckedInv, TrueOfAnObject, Agrees
<1>10. ProgressInv'
  <2>0. "received" \in Working /\ at[Caller] \notin Working
    BY <1>1 DEF Working, Requests
  <2>1. ASSUME NEW i \in 1..next', err' = None
        PROVE  \/ checked'[i] # None
               \/ \E u \in Goroutines : at'[u] \in Working /\ job'[u] = i
    <3>0. at' = [at EXCEPT ![Caller] = "received"]
      BY <2>1, <1>2, <1>4, CausesAssumption
    <3>1. CASE i = next + 1
      BY <3>0, <3>1, <1>0, <1>1, <2>0 DEF ValidationTypeOK
    <3>2. CASE i # next + 1
      <4>1. i \in 1..next
        BY <3>2, <1>1 DEF ValidationTypeOK
      <4>2. \A u \in Goroutines : at[u] \in Working => at'[u] = at[u] /\ job'[u] = job[u]
        BY <3>0, <1>1, <2>0 DEF ValidationTypeOK
      <4> QED
        BY <4>1, <4>2, <1>1, <1>4 DEF ProgressInv, Unfailed
    <3> QED
      BY <3>1, <3>2
  <2> QED
    BY <1>1, <1>4, <2>1 DEF ProgressInv, Unfailed
<1> QED
  BY <1>5, <1>6, <1>7, <1>8, <1>9, <1>10

LEMMA InspectNextStep ==
    ASSUME ValidationInv, InspectNext
    PROVE  ValidationInv'
<1> DEFINE i == job[Caller]
           previous == inspected[Ref(Caller).key]
<1>0. Caller \in Goroutines /\ at[Caller] = "received" /\ at[Caller] \in Working
  BY DEF Goroutines, InspectNext, Working
<1>1. /\ i \in 1..Len(refs) /\ Ref(Caller).key \in Keys
      /\ phase = "walking"
  BY <1>0, JobTyped, WhoWorks
<1>2. UNCHANGED <<objects, cache, refs, tip, phase, next, job, headed, inspected, result,
                  seen, boundVars>>
  BY DEF InspectNext
<1>3. /\ headed' \in [Goroutines -> Versions \union {None}] /\ headed' = headed
      /\ cache' \in [Keys \X Versions -> (SUBSET Recipients) \union {None}]
      /\ CacheTrue'
  BY <1>2 DEF ValidationInv, ValidationTypeOK, CacheTrue
<1>4. CASE cause # None
  <2>1. Stops(Caller, Canceled) /\ failures' = failures /\ checked' = checked
    BY <1>4 DEF InspectNext
  <2> QED
    BY <1>0, <1>2, <1>3, <1>4, <2>1, StopsStep
<1>5. CASE cause = None /\ previous = None
  <2>1. Moves(Caller, "head") /\ UNCHANGED <<cause, err, checked, failures>>
    BY <1>5 DEF InspectNext
  <2>2. "head" \in Requests /\ "head" # "none"
    BY DEF Requests
  <2> QED
    BY <1>0, <1>2, <2>1, <2>2, MoveStep DEF operationVars
<1>6. CASE cause = None /\ previous # None /\ ~Agrees(Ref(Caller), previous)
  <2>1. Stops(Caller, i) /\ failures' = failures \union {i} /\ checked' = checked
    BY <1>6 DEF InspectNext
  <2> QED
    BY <1>0, <1>2, <1>3, <2>1, StopsStep
<1>7. CASE cause = None /\ previous # None /\ Agrees(Ref(Caller), previous)
  <2> USE DEF ValidationInv, boundVars
  <2>1. /\ at' = [at EXCEPT ![Caller] = "none"]
        /\ checked' = [checked EXCEPT ![i] = previous]
        /\ UNCHANGED <<cause, err, failures>>
    BY <1>7 DEF InspectNext, Moves
  <2>2. previous \in Descriptors /\ TrueOfAnObject(previous)
    BY <1>1, <1>7 DEF ValidationTypeOK, MemoInv
  <2> HIDE DEF previous
  <2>3. ValidationTypeOK'
    <3>1. at' \in [Goroutines -> {"none", "receiving", "received"} \union Requests]
      BY <2>1 DEF ValidationTypeOK
    <3>2. \A u \in Goroutines :
              /\ at'[u] \in {"received"} \union Requests => job'[u] # 0
              /\ at'[u] \in {"count", "read"} => headed'[u] # None
      BY <1>2, <2>1 DEF ValidationTypeOK, Requests
    <3>3. checked' \in [1..Len(refs') -> Descriptors \union {None}]
      BY <1>1, <1>2, <2>1, <2>2 DEF ValidationTypeOK
    <3> QED
      BY <1>2, <2>1, <3>1, <3>2, <3>3 DEF ValidationTypeOK, Errors
  <2>4. PhaseInv' /\ SeenInv' /\ PoolInv' /\ FirstErrorReported'
    BY <1>1, <1>2, <2>1 DEF PhaseInv, SeenInv, PoolInv, FirstErrorReported, ValidationTypeOK
  <2>5. ChainInv'
    BY <1>0, <1>2, <2>1 DEF ChainInv, ValidationTypeOK
  <2>6. HeadInv'
    <3>1. ASSUME NEW u \in Goroutines, at'[u] \in {"count", "read"}
          PROVE  at[u] \in {"count", "read"} /\ Ref(u)' = Ref(u) /\ headed'[u] = headed[u]
      BY <3>1, <1>2, <2>1 DEF ValidationTypeOK, Ref
    <3> QED
      BY <3>1, <1>2 DEF HeadInv
  <2>7. MemoInv'
    BY <1>2 DEF MemoInv, TrueOfAnObject
  <2>8. CheckedInv'
    <3>1. ASSUME NEW j \in 1..Len(refs), checked'[j] # None
          PROVE  TrueOfAnObject(checked'[j]) /\ Agrees(refs[j], checked'[j])
      <4>1. checked'[j] = checked[j] \/ (checked'[j] = previous /\ j = i)
        BY <2>1 DEF ValidationTypeOK
      <4> QED
        BY <3>1, <4>1, <1>7, <2>2 DEF CheckedInv, Ref
    <3> QED
      BY <3>1, <1>2 DEF CheckedInv, TrueOfAnObject, Agrees
  <2>9. ProgressInv'
    <3>1. ASSUME NEW j \in 1..next, Unfailed
          PROVE  \/ checked'[j] # None
                 \/ \E u \in Goroutines : at'[u] \in Working /\ job'[u] = j
      <4>0. j \in 1..Len(refs) /\ previous # None
        BY <1>7 DEF ValidationTypeOK
      <4>1. CASE checked[j] # None \/ j = i
        BY <4>0, <4>1, <1>1, <2>1 DEF ValidationTypeOK
      <4>2. CASE ~(checked[j] # None \/ j = i)
        <5>1. PICK u \in Goroutines : at[u] \in Working /\ job[u] = j
          BY <3>1, <4>2, <1>1 DEF ProgressInv
        <5>2. u # Caller
          BY <4>2, <5>1
        <5> QED
          BY <5>1, <5>2, <1>2, <2>1 DEF ValidationTypeOK
      <4> QED
        BY <4>1, <4>2
    <3>2. Unfailed' = Unfailed
      BY <1>2, <2>1 DEF Unfailed
    <3> QED
      BY <1>1, <1>2, <3>1, <3>2 DEF ProgressInv
  <2> QED
    BY <1>3, <2>3, <2>4, <2>5, <2>6, <2>7, <2>8, <2>9
<1> QED
  BY <1>4, <1>5, <1>6, <1>7

\* An operation returns; nobody is left at work.
LEMMA ReturnsStep ==
    ASSUME ValidationInv, NEW value, Returns(value), FirstErrorReported',
           \A w \in Goroutines : at[w] = "none"
    PROVE  ValidationInv'
<1> USE DEF ValidationInv, Returns, boundVars
<1>1. /\ phase' = "idle" /\ job' = [w \in Goroutines |-> 0]
      /\ headed' = [w \in Goroutines |-> None]
      /\ UNCHANGED <<objects, cache, refs, tip, next, cause, err, at, checked, inspected,
                     failures, seen>>
  OBVIOUS
<1>2. ValidationTypeOK'
  <2>1. job' \in [Goroutines -> 0..Len(refs')] /\ headed' \in [Goroutines -> Versions \union {None}]
    BY <1>1 DEF ValidationTypeOK
  <2>2. \A u \in Goroutines :
            /\ at'[u] \in {"received"} \union Requests => job'[u] # 0
            /\ at'[u] \in {"count", "read"} => headed'[u] # None
    BY <1>1 DEF Requests
  <2> QED
    BY <1>1, <2>1, <2>2 DEF ValidationTypeOK, Errors
<1>3. PhaseInv' /\ SeenInv' /\ HeadInv' /\ CacheTrue'
  BY <1>1 DEF PhaseInv, SeenInv, HeadInv, CacheTrue
<1>4. MemoInv' /\ CheckedInv'
  BY <1>1 DEF MemoInv, CheckedInv, TrueOfAnObject, Agrees
<1>5. PoolInv' /\ ChainInv' /\ ProgressInv'
  BY <1>1 DEF PoolInv, ChainInv, ProgressInv
<1> QED
  BY <1>2, <1>3, <1>4, <1>5

LEMMA ReturnPoolStep ==
    ASSUME ValidationInv, ReturnPool
    PROVE  ValidationInv'
<1> USE DEF ValidationInv
<1>1. phase = "waiting" /\ \A w \in Goroutines : at[w] = "none"
  BY DEF ReturnPool, PhaseInv, Goroutines
<1>2. /\ result' = IF cause = None THEN Success ELSE cause
      /\ UNCHANGED <<refs, tip, at, checked, failures>>
  BY DEF ReturnPool, Returns
<1>3. CASE cause = None
  <2>1. failures = {} /\ next = Len(refs)
    BY <1>1, <1>3 DEF PoolInv, ProgressInv
  <2>2. \A i \in 1..Len(refs) : checked[i] # None
    BY <1>1, <1>3, <2>1 DEF ProgressInv, Unfailed, Working, Requests
  <2>3. FirstErrorReported'
    BY <1>1, <1>2, <1>3, <2>1, <2>2 DEF FirstErrorReported
  <2> QED
    BY <1>1, <2>3, ReturnsStep DEF ReturnPool
<1>4. CASE cause # None
  <2>1. tip # None /\ cause \in failures \union {Parent}
    BY <1>1, <1>4 DEF PoolInv
  <2>2. FirstErrorReported'
    BY <1>1, <1>2, <1>4, <2>1 DEF FirstErrorReported
  <2> QED
    BY <1>1, <2>2, ReturnsStep DEF ReturnPool
<1> QED
  BY <1>3, <1>4

LEMMA ReturnChainStep ==
    ASSUME ValidationInv, ReturnChain
    PROVE  ValidationInv'
<1> USE DEF ValidationInv
<1>1. phase = "walking" /\ \A w \in Goroutines : at[w] = "none"
  BY DEF ReturnChain, PhaseInv, Goroutines
<1>2. /\ result' = IF err = None THEN Success ELSE err
      /\ UNCHANGED <<refs, tip, cause, at, checked, failures>>
  BY DEF ReturnChain, Returns
<1>3. tip = None
  BY <1>1 DEF ChainInv
<1>4. CASE err = None
  <2>1. failures = {} /\ next = Len(refs)
    BY <1>1, <1>4, CausesAssumption DEF ChainInv, ReturnChain
  <2>2. \A i \in 1..Len(refs) : checked[i] # None
    BY <1>1, <1>4, <2>1 DEF ProgressInv, Unfailed, Working, Requests
  <2>3. FirstErrorReported'
    BY <1>1, <1>2, <1>4, <2>1, <2>2 DEF FirstErrorReported
  <2> QED
    BY <1>1, <2>3, ReturnsStep DEF ReturnChain
<1>5. CASE err # None
  <2>1. \/ failures = {err}
        \/ err = GitFailed /\ failures = {}
        \/ err = Canceled /\ failures = {} /\ cause = Parent
    BY <1>1, <1>5 DEF ChainInv
  <2>2. FirstErrorReported'
    BY <1>1, <1>2, <1>3, <1>5, <2>1 DEF FirstErrorReported
  <2> QED
    BY <1>1, <2>2, ReturnsStep DEF ReturnChain
<1> QED
  BY <1>4, <1>5

\* An administrator cannot make what was seen untrue.
LEMMA AdministrateStep ==
    ASSUME ValidationInv, NEW k \in Keys, Administrate(k)
    PROVE  ValidationInv'
<1> USE DEF ValidationInv
<1>1. PICK v \in Versions \union {None} :
        /\ objects' = [objects EXCEPT ![k] = v]
        /\ seen' = IF phase = "idle" \/ v = None THEN seen ELSE seen \union {<<k, v>>}
  BY DEF Administrate
<1>2. UNCHANGED <<cache, refs, tip, phase, next, cause, err, checked, inspected, failures,
                  at, job, headed, result>>
  BY DEF Administrate, operationVars, poolVars
<1>3. seen \subseteq seen'
  BY <1>1
<1>4. ValidationTypeOK'
  BY <1>1, <1>2 DEF ValidationTypeOK, Errors
<1>5. PhaseInv' /\ CacheTrue' /\ PoolInv' /\ ChainInv' /\ ProgressInv' /\ FirstErrorReported'
  BY <1>2 DEF PhaseInv, CacheTrue, PoolInv, ChainInv, Unfailed, ProgressInv, FirstErrorReported
<1>6. SeenInv'
  BY <1>1, <1>2 DEF SeenInv, ValidationTypeOK
<1>7. HeadInv'
  BY <1>2, <1>3 DEF HeadInv, Ref
<1>8. MemoInv' /\ CheckedInv'
  BY <1>2, <1>3 DEF MemoInv, CheckedInv, TrueOfAnObject, Agrees
<1> QED
  BY <1>4, <1>5, <1>6, <1>7, <1>8

LEMMA CacheMissStep ==
    ASSUME ValidationInv, NEW k \in Keys, NEW v \in Versions, CacheMiss(k, v)
    PROVE  ValidationInv'
<1> USE DEF ValidationInv
<1>1. cache' = [cache EXCEPT ![<<k, v>>] = None]
  BY DEF CacheMiss
<1>2. UNCHANGED <<objects, refs, tip, phase, next, cause, err, checked, inspected, failures,
                  at, job, headed, result, seen>>
  BY DEF CacheMiss, operationVars, poolVars
<1>3. ValidationTypeOK'
  <2>1. cache' \in [Keys \X Versions -> (SUBSET Recipients) \union {None}]
    BY <1>1 DEF ValidationTypeOK
  <2> QED
    BY <1>2, <2>1 DEF ValidationTypeOK, Errors
<1>4. CacheTrue'
  BY <1>1 DEF CacheTrue, ValidationTypeOK
<1>5. PhaseInv' /\ SeenInv' /\ PoolInv' /\ ChainInv' /\ ProgressInv' /\ FirstErrorReported'
  BY <1>2 DEF PhaseInv, SeenInv, PoolInv, ChainInv, Unfailed, ProgressInv, FirstErrorReported
<1>6. HeadInv' /\ MemoInv' /\ CheckedInv'
  BY <1>2 DEF HeadInv, Ref, MemoInv, CheckedInv, TrueOfAnObject, Agrees
<1> QED
  BY <1>3, <1>4, <1>5, <1>6

LEMMA StutterStep ==
    ASSUME ValidationInv, UNCHANGED validationVars
    PROVE  ValidationInv'
<1> USE DEF ValidationInv, validationVars
<1>1. ValidationTypeOK'
  BY DEF ValidationTypeOK, Errors
<1>2. PhaseInv' /\ SeenInv' /\ CacheTrue' /\ PoolInv' /\ ChainInv' /\ ProgressInv' /\ FirstErrorReported'
  BY DEF PhaseInv, SeenInv, CacheTrue, PoolInv, ChainInv, Unfailed, ProgressInv, FirstErrorReported
<1>3. HeadInv' /\ MemoInv' /\ CheckedInv'
  BY DEF HeadInv, Ref, MemoInv, CheckedInv, TrueOfAnObject, Agrees
<1> QED
  BY <1>1, <1>2, <1>3

-----------------------------------------------------------------------------
(* Theorems                                                                *)

LEMMA InitHolds == ASSUME ValidationInit PROVE ValidationInv
<1> USE DEF ValidationInit
<1>1. refs = <<>> /\ Len(refs) = 0 /\ refs \in Seq(Descriptors) /\ 0 \in 0..0
  OBVIOUS
<1>2. ValidationTypeOK
  <2>1. checked \in [1..Len(refs) -> Descriptors \union {None}]
    BY <1>1
  <2>2. \A w \in Goroutines : at[w] \notin {"received"} \union Requests
    BY DEF Requests
  <2>3. \A w \in Goroutines : at[w] \notin {"count", "read"}
    OBVIOUS
  <2>4. objects \in [Keys -> Versions \union {None}]
    OBVIOUS
  <2>5. cache \in [Keys \X Versions -> (SUBSET Recipients) \union {None}]
    OBVIOUS
  <2>6. /\ tip \in {None, Tip} /\ phase \in {"idle", "feeding", "waiting", "walking"}
        /\ next \in 0..Len(refs) /\ cause \in Errors \union {None} /\ err \in Errors \union {None}
    BY <1>1
  <2>7. /\ at \in [Goroutines -> {"none", "receiving", "received"} \union Requests]
        /\ job \in [Goroutines -> 0..Len(refs)]
        /\ headed \in [Goroutines -> Versions \union {None}]
    BY <1>1
  <2>8. inspected \in [Keys -> Descriptors \union {None}] /\ failures \subseteq 1..Len(refs)
    OBVIOUS
  <2> QED
    BY <1>1, <2>1, <2>2, <2>3, <2>4, <2>5, <2>6, <2>7, <2>8 DEF ValidationTypeOK
<1>3. PhaseInv /\ SeenInv /\ HeadInv /\ CacheTrue /\ MemoInv
  BY DEF PhaseInv, SeenInv, HeadInv, CacheTrue, MemoInv
<1>4. CheckedInv /\ PoolInv /\ ChainInv /\ ProgressInv /\ FirstErrorReported
  BY <1>1 DEF CheckedInv, PoolInv, ChainInv, Unfailed, ProgressInv, FirstErrorReported
<1> QED
  BY <1>2, <1>3, <1>4 DEF ValidationInv

LEMMA NextKeeps == ASSUME ValidationInv, ValidationNext PROVE ValidationInv'
<1>1. CASE StartPrefix \/ StartChain
  BY <1>1, StartPrefixStep, StartChainStep
<1>2. CASE \E w \in Workers : Feed(w) \/ WorkerEnds(w) \/ BeginInspect(w)
  BY <1>2, FeedStep, WorkerEndsStep, BeginInspectStep
<1>3. CASE \E w \in Goroutines :
            HeadAndLoad(w) \/ ReadCount(w) \/ ReadRecipients(w) \/ RequestFails(w)
  BY <1>3, HeadAndLoadStep, ReadCountStep, ReadRecipientsStep, RequestFailsStep
<1>4. CASE FeedEnds \/ ReturnPool \/ FollowChain \/ InspectNext \/ ReturnChain
  BY <1>4, FeedEndsStep, ReturnPoolStep, FollowChainStep, InspectNextStep, ReturnChainStep
<1>5. CASE ParentCancels \/ \E k \in Keys : Administrate(k)
  BY <1>5, ParentFailsStep, AdministrateStep
<1>6. CASE \E k \in Keys, v \in Versions : CacheMiss(k, v)
  BY <1>6, CacheMissStep
<1> QED
  BY <1>1, <1>2, <1>3, <1>4, <1>5, <1>6 DEF ValidationNext

LEMMA ValidationInvariance == ValidationSpec => []ValidationInv
<1>1. ValidationInv /\ [ValidationNext]_validationVars => ValidationInv'
  BY NextKeeps, StutterStep
<1> QED
  BY <1>1, InitHolds, PTL DEF ValidationSpec

\* Indices, jobs and result slots always fit the list of references: no goroutine
\* of inspectPushPrefix works without a job, and none reads a range before a HEAD.
THEOREM ValidationTyped == ValidationSpec => []ValidationTypeOK
<1>1. ValidationInv => ValidationTypeOK
  BY DEF ValidationInv
<1> QED
  BY <1>1, ValidationInvariance, PTL

\* What bundleValidation.inspect and inspectPush return is true of one object that
\* existed while they ran, from the cache or from the ciphertext, whatever an
\* administrator does meanwhile and however many goroutines there are.
THEOREM ChecksTrue == ValidationSpec => []ChecksAreTrue
<1>1. ValidationInv => ChecksAreTrue
  <2> SUFFICES ASSUME ValidationInv PROVE ChecksAreTrue
    OBVIOUS
  <2>1. DOMAIN checked = 1..Len(refs)
    BY DEF ValidationInv, ValidationTypeOK
  <2> QED
    BY <2>1 DEF ValidationInv, CacheTrue, CheckedInv, TrueOfAnObject, ChecksAreTrue
<1> QED
  BY <1>1, ValidationInvariance, PTL

\* Success means the complete list.  inspectPushPrefix fails with the error of a
\* reference that failed by itself or with its caller's cancellation; chain with the
\* one reference that failed or, without one, because it was cancelled or git did
\* not run.  Neither leaves a goroutine behind.
THEOREM ErrorsReported == ValidationSpec => []FirstErrorReported
<1>1. ValidationInv => FirstErrorReported
  BY DEF ValidationInv
<1> QED
  BY <1>1, ValidationInvariance, PTL
=============================================================================
