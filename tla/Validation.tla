----------------------------- MODULE Validation -----------------------------
(***************************************************************************)
(* How a helper finds out what the bundle objects in the bucket really     *)
(* are.  bundleValidation asks for every object's identity afresh (HEAD),  *)
(* takes the recipients from a cache file under .git, or reads them from   *)
(* the ciphertext.  inspectPushPrefix does so with a pool of goroutines    *)
(* over the completed bundles of an interrupted push.  chain walks over    *)
(* the bundles of a manifest, asks Git about each range's ancestry and     *)
(* inspects one object after the other with a memo; it has no goroutines   *)
(* and no context of its own.                                              *)
(*                                                                         *)
(* One helper runs operation after operation in one repository, so the     *)
(* cache outlives the operations.  An administrator may replace or delete  *)
(* an object at any moment, and cache files may vanish or be damaged.      *)
(***************************************************************************)
EXTENDS Naturals, Sequences, FiniteSets, SequencesExt

CONSTANTS
    Keys,           \* bundle keys
    Chained,        \* the keys that the chains of manifests name
    Begins, Ends,   \* [Keys -> the commits between which the bundle's range lies]
    Zero,           \* where the range of a first bundle begins
    Versions,       \* what an object may be: its ETag, size, envelope and metadata
    Envelope,       \* [Versions -> the recipients of the ciphertext, {} if malformed]
    PushTip,        \* [Versions -> the tip in the object's metadata]
    Tip,            \* the tip of the push that resumes
    Policy,         \* the recipients of the push that resumes
    Workers,        \* the goroutines of the pool: pushValidationWorkers
    Caller,         \* the goroutine that called chain or inspectPushPrefix
    None, Success, Parent, Canceled, GitFailed,
    MaxChain,       \* bound: references in the chains of one operation
    MaxOperations,  \* bound: operations of the helper
    MaxChanges      \* bound: changes by the administrator

ASSUME KeysAssumption == IsFiniteSet(Keys) /\ Chained \subseteq Keys
ASSUME GoroutinesAssumption == Caller \notin Workers

\* What an operation ends with, besides the index of a reference.  Parent is the
\* cause the caller cancelled with, Canceled the plain error of a context that is
\* done, GitFailed the panic about a git that did not run.
ASSUME CausesAssumption ==
    /\ {None, Success, Parent, Canceled, GitFailed} \intersect Nat = {}
    /\ None \notin {Success, Parent, Canceled, GitFailed}
    /\ Success \notin {Parent, Canceled, GitFailed}

VARIABLES
    objects,    \* [Keys -> a version, or None]
    cache,      \* [Keys \X Versions -> the recipients in the cache file, or None]
    refs,       \* the bundle references to inspect
    tip,        \* inspectPush's pushTip, None for chain
    phase,      \* the caller: "idle", "feeding", "waiting", "walking"
    next,       \* how many references have been handed out
    cause,      \* context.Cause of the operation's context, the pool's being its own
    err,        \* what chain's loop has ended with
    at,         \* [goroutine -> the step of inspectPush it is at]
    job,        \* [goroutine -> the index of its reference]
    headed,     \* [goroutine -> the version its HEAD answered with]
    checked,    \* the result slots
    inspected,  \* bundleValidation.inspected: [Keys -> a descriptor, or None]
    result,     \* the last operation: None, Success or the error
    failures,   \* history: the references whose own inspection failed
    seen,       \* history: the objects that have existed since the operation began
    operations, changes

poolVars == <<at, job, headed>>
operationVars == <<refs, tip, phase, next, cause, err, checked, inspected, failures>>
boundVars == <<operations, changes>>
validationVars == <<objects, cache, refs, tip, phase, next, cause, err, at, job, headed,
                    checked, inspected, result, failures, seen, operations, changes>>

Goroutines == Workers \union {Caller}
Requests == {"head", "count", "read"}
Recipients == (UNION {Envelope[v] : v \in Versions}) \union Policy

\* Absence is not a value.
ASSUME AbsenceAssumption ==
    /\ None \notin Versions /\ Tip # None
    /\ DOMAIN Envelope = Versions

\* A reference as a manifest records it: legacy entries know neither identity
\* nor recipients.
Descriptors == [key : Keys, etag : Versions \union {None}, recipients : SUBSET Recipients]
Recorded(k, v) == [key |-> k, etag |-> v, recipients |-> Envelope[v]]
LegacyRef(k) == [key |-> k, etag |-> None, recipients |-> {}]
ChainRefs == {LegacyRef(k) : k \in Chained} \union
             {Recorded(k, v) : k \in Chained, v \in {w \in Versions : Envelope[w] # {}}}

ASSUME DescriptorAssumption == \A d \in Descriptors : d # None

Errors == 1..Len(refs) \union {Parent, Canceled, GitFailed}

ValidationTypeOK ==
    /\ objects \in [Keys -> Versions \union {None}]
    /\ cache \in [Keys \X Versions -> (SUBSET Recipients) \union {None}]
    /\ refs \in Seq(Descriptors)
    /\ tip \in {None, Tip}
    /\ phase \in {"idle", "feeding", "waiting", "walking"}
    /\ next \in 0..Len(refs)
    /\ cause \in Errors \union {None}
    /\ err \in Errors \union {None}
    /\ at \in [Goroutines -> {"none", "receiving", "received"} \union Requests]
    /\ job \in [Goroutines -> 0..Len(refs)]
    /\ headed \in [Goroutines -> Versions \union {None}]
    /\ \A w \in Goroutines :
        /\ at[w] \in {"received"} \union Requests => job[w] # 0
        /\ at[w] \in {"count", "read"} => headed[w] # None
    /\ checked \in [1..Len(refs) -> Descriptors \union {None}]
    /\ inspected \in [Keys -> Descriptors \union {None}]
    /\ failures \subseteq 1..Len(refs)

\* The objects are those of a push that did not finish.
ValidationInit ==
    /\ objects \in [Keys -> {v \in Versions : PushTip[v] = Tip /\ Envelope[v] = Policy}]
    /\ cache = [e \in Keys \X Versions |-> None]
    /\ refs = <<>> /\ tip = None
    /\ phase = "idle" /\ next = 0 /\ cause = None /\ err = None
    /\ at = [w \in Goroutines |-> "none"]
    /\ job = [w \in Goroutines |-> 0]
    /\ headed = [w \in Goroutines |-> None]
    /\ checked = <<>>
    /\ inspected = [k \in Keys |-> None]
    /\ result = None /\ failures = {} /\ seen = {}
    /\ operations = 0 /\ changes = 0

Existing == {<<k, objects[k]>> : k \in {key \in Keys : objects[key] # None}}

-----------------------------------------------------------------------------
(* Operations                                                              *)

Operation(list, pushTip, start) ==
    /\ phase = "idle"
    /\ operations < MaxOperations
    /\ operations' = operations + 1
    /\ refs' = list
    /\ tip' = pushTip
    /\ phase' = start
    /\ next' = 0 /\ cause' = None /\ err' = None /\ result' = None
    /\ checked' = [i \in 1..Len(list) |-> None]
    /\ inspected' = [k \in Keys |-> None]
    /\ failures' = {}
    /\ seen' = Existing
    /\ UNCHANGED <<objects, cache, job, headed, changes>>

\* listPushBundles: the completed objects under the tip's prefix with the listed
\* ETag and the recipients of the push; completedPushPrefix picks some of them.
Listed(k) == [key |-> k, etag |-> objects[k], recipients |-> Policy]

\* As many goroutines as there are bundles, up to the limit.
StartPrefix ==
    \E ks \in (SUBSET {k \in Keys : objects[k] # None}) \ {{}}, started \in SUBSET Workers :
        LET order == SetToSeq(ks)
        IN  /\ Cardinality(started) = IF Cardinality(ks) < Cardinality(Workers)
                                      THEN Cardinality(ks) ELSE Cardinality(Workers)
            /\ Operation([i \in 1..Len(order) |-> Listed(order[i])], Tip, "feeding")
            /\ at' = [w \in Goroutines |-> IF w \in started THEN "receiving" ELSE "none"]

\* The chains of the manifests one operation reads, one after the other.
StartChain ==
    \E n \in 1..MaxChain : \E list \in [1..n -> ChainRefs] :
        /\ Operation(list, None, "walking")
        /\ UNCHANGED at

-----------------------------------------------------------------------------
(* The pool                                                                *)

Moves(w, step) == at' = [at EXCEPT ![w] = step]
Takes(w, i) == job' = [job EXCEPT ![w] = i]

\* Mutant: one index too many.
MoreJobsPastEnd == next <= Len(refs)
MoreJobs == next < Len(refs)

\* The channel is unbuffered: the feeder hands an index to a goroutine that
\* receives.  With a context that is done, select may still choose the send.
Feed(w) ==
    /\ phase = "feeding"
    /\ MoreJobs
    /\ at[w] = "receiving"
    /\ next' = next + 1
    /\ Takes(w, next + 1)
    /\ Moves(w, "received")
    /\ UNCHANGED <<objects, cache, refs, tip, phase, cause, err, headed, checked,
                   inspected, result, failures, seen, boundVars>>

\* close(jobs), after the last index or with a context that is done.
FeedEnds ==
    /\ phase = "feeding"
    /\ next = Len(refs) \/ cause # None
    /\ phase' = "waiting"
    /\ UNCHANGED <<objects, cache, refs, tip, next, cause, err, poolVars, checked, inspected,
                   result, failures, seen, boundVars>>

\* for i := range jobs ends when the channel is closed.
WorkerEnds(w) ==
    /\ w \in Workers
    /\ phase = "waiting"
    /\ at[w] = "receiving"
    /\ Moves(w, "none")
    /\ UNCHANGED <<objects, cache, operationVars, job, headed, result, seen, boundVars>>

\* ctx.Err() before the work begins.
BeginInspect(w) ==
    /\ at[w] = "received"
    /\ Moves(w, IF cause # None THEN "none" ELSE "head")
    /\ UNCHANGED <<objects, cache, operationVars, job, headed, result, seen, boundVars>>

\* Mutant: every failing goroutine records its own error.
CancelLast(why) == cause' = why
\* Mutant: a failing goroutine keeps its error without cancelling the others.
CancelNot(why) == UNCHANGED cause
\* The first cancellation of a context decides its cause.
Cancel(why) == cause' = IF cause = None THEN why ELSE cause

\* inspectPush returns an error: a goroutine of the pool cancels with it and ends,
\* chain returns it.
Stops(w, why) ==
    /\ Moves(w, "none")
    /\ IF w = Caller THEN err' = why /\ UNCHANGED cause
                     ELSE Cancel(why) /\ UNCHANGED err

\* The reference has an error of its own.
Fails(w) ==
    /\ Stops(w, job[w])
    /\ failures' = failures \union {job[w]}
    /\ UNCHANGED <<objects, cache, refs, tip, phase, next, job, headed, checked,
                   inspected, result, seen, boundVars>>

\* A request fails by itself, or because the context was cancelled meanwhile:
\* then its error says no more than that.
RequestFails(w) ==
    /\ at[w] \in Requests
    /\ IF cause = None
       THEN Fails(w)
       ELSE /\ Stops(w, Canceled)
            /\ UNCHANGED <<objects, cache, refs, tip, phase, next, job, headed, checked,
                           inspected, result, failures, seen, boundVars>>

\* What is left in the variables of an operation that has returned is forgotten.
Returns(value) ==
    /\ result' = value
    /\ phase' = "idle"
    /\ job' = [w \in Goroutines |-> 0]
    /\ headed' = [w \in Goroutines |-> None]
    /\ UNCHANGED <<objects, cache, refs, tip, next, cause, err, at, checked, inspected,
                   failures, seen, boundVars>>

\* inspectPushPrefix after workers.Wait: the cause, even of a cancellation that
\* came when every slot was filled.
ReturnPool ==
    /\ phase = "waiting" /\ \A w \in Workers : at[w] = "none"
    /\ Returns(IF cause = None THEN Success ELSE cause)

-----------------------------------------------------------------------------
(* inspectPush                                                             *)

Ref(w) == refs[job[w]]

\* checkedBundleDescriptor
Agrees(want, actual) ==
    /\ want.key = actual.key
    /\ want.etag \in {None, actual.etag}
    /\ want.recipients \in {{}, actual.recipients}

\* A result: the pool's slot, or the memo and the entry of the chain.
Finishes(w, found) ==
    IF Agrees(Ref(w), found)
    THEN /\ checked' = [checked EXCEPT ![job[w]] = found]
         /\ inspected' = IF w = Caller THEN [inspected EXCEPT ![found.key] = found]
                                       ELSE inspected
         /\ Moves(w, IF w = Caller THEN "none" ELSE "receiving")
         /\ UNCHANGED <<cause, err, failures>>
    ELSE /\ Stops(w, job[w])
         /\ failures' = failures \union {job[w]}
         /\ UNCHANGED <<checked, inspected>>

Descriptor(w, recipients) ==
    [key |-> Ref(w).key, etag |-> headed[w], recipients |-> recipients]

\* headBundle: the object must be there, be the one recorded, and, when a push
\* resumes, carry its tip.
Identifies(ref, v) ==
    /\ v # None
    /\ ref.etag \in {None, v}
    /\ tip # None => PushTip[v] = tip

\* HEAD, then load: the cache is asked for the identity the object has now.
Cached(k, v) == cache[<<k, v>>]
HeadAndLoad(w) ==
    /\ at[w] = "head"
    /\ LET ref == Ref(w)
           v == objects[ref.key]
       IN IF ~Identifies(ref, v)
          THEN Fails(w)
          ELSE /\ headed' = [headed EXCEPT ![w] = v]
               /\ IF Cached(ref.key, v) # None
                  THEN Finishes(w, [key |-> ref.key, etag |-> v,
                                    recipients |-> Cached(ref.key, v)])
                  ELSE /\ Moves(w, IF ref.recipients = {} THEN "count" ELSE "read")
                       /\ UNCHANGED <<cause, err, failures, checked, inspected>>
               /\ UNCHANGED <<objects, cache, refs, tip, phase, next, job, result, seen,
                              boundVars>>

\* A conditional range read of the envelope (If-Match): the first four bytes
\* when the number of recipients is not known, then the records.
\* Mutant: the range reads are not bound to the ETag of the HEAD.
PinnedNot(w) == objects[Ref(w).key] # None
Pinned(w) == objects[Ref(w).key] = headed[w]

ReadCount(w) ==
    /\ at[w] = "count"
    /\ IF Pinned(w) /\ Envelope[objects[Ref(w).key]] # {}
       THEN /\ Moves(w, "read")
            /\ UNCHANGED <<objects, cache, operationVars, job, headed, result, seen,
                           boundVars>>
       ELSE Fails(w)

\* bundleValidation.store: one rename of a complete file, or nothing, which is no
\* error.
Stores(k, v, recipients) ==
    \/ cache' = [cache EXCEPT ![<<k, v>>] = recipients]
    \/ UNCHANGED cache

\* readBundleRecipients verifies the recipients a push expects.
ReadRecipients(w) ==
    /\ at[w] = "read"
    /\ LET recipients == IF Pinned(w) THEN Envelope[objects[Ref(w).key]] ELSE {}
       IN IF recipients = {} \/ Ref(w).recipients \notin {{}, recipients}
          THEN Fails(w)
          ELSE /\ Stores(Ref(w).key, headed[w], recipients)
               /\ Finishes(w, Descriptor(w, recipients))
               /\ UNCHANGED <<objects, refs, tip, phase, next, job, headed, result, seen,
                              boundVars>>

-----------------------------------------------------------------------------
(* chain                                                                   *)

\* A range that begins at zero begins another manifest's chain.
StartsChain(i) == i = 1 \/ Begins[refs[i].key] = Zero
Continuous(i) ==
    Begins[refs[i].key] \in IF i = 1 THEN {Zero} ELSE {Zero, Ends[refs[i - 1].key]}

\* The loop before it inspects the next bundle.  gitBranchContains finds that the
\* range is ancestry, or is not, or cannot know; git that is killed, or not even
\* started, because the context is done makes it panic.
FollowChain ==
    /\ phase = "walking"
    /\ at[Caller] = "none"
    /\ next < Len(refs) /\ err = None
    /\ next' = next + 1
    /\ Takes(Caller, next + 1)
    /\ \/ /\ Continuous(next + 1)
          /\ StartsChain(next + 1) \/ cause = None
          /\ Moves(Caller, "received")
          /\ UNCHANGED <<err, failures>>
       \/ /\ ~Continuous(next + 1) \/ (~StartsChain(next + 1) /\ cause = None)
          /\ err' = next + 1
          /\ failures' = failures \union {next + 1}
          /\ UNCHANGED at
       \/ /\ Continuous(next + 1) /\ ~StartsChain(next + 1)
          /\ err' = GitFailed
          /\ UNCHANGED <<at, failures>>
    /\ UNCHANGED <<objects, cache, refs, tip, phase, cause, headed, checked, inspected,
                   result, seen, boundVars>>

\* inspect: not under a context that is done, and a key that this operation has
\* validated is not asked for again.
InspectNext ==
    /\ at[Caller] = "received"
    /\ LET i == job[Caller]
           previous == inspected[Ref(Caller).key]
       IN \/ /\ cause # None
             /\ Stops(Caller, Canceled)
             /\ UNCHANGED <<checked, failures>>
          \/ /\ cause = None /\ previous = None
             /\ Moves(Caller, "head")
             /\ UNCHANGED <<cause, err, checked, failures>>
          \/ /\ cause = None /\ previous # None
             /\ Agrees(Ref(Caller), previous)
             /\ checked' = [checked EXCEPT ![i] = previous]
             /\ Moves(Caller, "none")
             /\ UNCHANGED <<cause, err, failures>>
          \/ /\ cause = None /\ previous # None
             /\ ~Agrees(Ref(Caller), previous)
             /\ Stops(Caller, i)
             /\ failures' = failures \union {i}
             /\ UNCHANGED checked
    /\ UNCHANGED <<objects, cache, refs, tip, phase, next, job, headed, inspected, result,
                   seen, boundVars>>

\* The first error, or the whole list: nobody asks whether the context is done
\* after the last reference.  The panic goes up the same way.
ReturnChain ==
    /\ phase = "walking" /\ at[Caller] = "none"
    /\ next = Len(refs) \/ err # None
    /\ Returns(IF err = None THEN Success ELSE err)

-----------------------------------------------------------------------------
(* The environment                                                         *)

\* A signal, or the operation that called this one, cancels.
ParentCancels ==
    /\ phase # "idle"
    /\ cause = None
    /\ cause' = Parent
    /\ UNCHANGED <<objects, cache, refs, tip, phase, next, err, poolVars, checked, inspected,
                   result, failures, seen, boundVars>>

\* The administrator replaces, restores or deletes an object, while an operation
\* runs or before one.
Administrate(k) ==
    /\ changes < MaxChanges
    /\ phase # "idle" \/ operations < MaxOperations
    /\ changes' = changes + 1
    /\ \E v \in (Versions \union {None}) \ {objects[k]} :
        /\ objects' = [objects EXCEPT ![k] = v]
        /\ seen' = IF phase = "idle" \/ v = None THEN seen ELSE seen \union {<<k, v>>}
    /\ UNCHANGED <<cache, operationVars, poolVars, result, operations>>

\* A cache file is lost, or damaged so that its checksum fails.
CacheMiss(k, v) ==
    /\ phase = "idle"
    /\ cache[<<k, v>>] # None
    /\ cache' = [cache EXCEPT ![<<k, v>>] = None]
    /\ UNCHANGED <<objects, operationVars, poolVars, result, seen, boundVars>>

-----------------------------------------------------------------------------
Inspects(w) == HeadAndLoad(w) \/ ReadCount(w) \/ ReadRecipients(w) \/ RequestFails(w)
Walks == FollowChain \/ InspectNext \/ ReturnChain
Pooled(w) == Feed(w) \/ WorkerEnds(w) \/ BeginInspect(w)

ValidationNext ==
    \/ StartPrefix \/ StartChain
    \/ \E w \in Workers : Feed(w) \/ WorkerEnds(w) \/ BeginInspect(w)
    \/ \E w \in Goroutines :
        HeadAndLoad(w) \/ ReadCount(w) \/ ReadRecipients(w) \/ RequestFails(w)
    \/ FeedEnds \/ ReturnPool
    \/ FollowChain \/ InspectNext \/ ReturnChain
    \/ ParentCancels
    \/ \E k \in Keys : Administrate(k)
    \/ \E k \in Keys, v \in Versions : CacheMiss(k, v)

\* Goroutines are scheduled, and every request ends: the SDK bounds its attempts
\* and a cancelled context interrupts them.
Fairness ==
    /\ WF_validationVars(FeedEnds) /\ WF_validationVars(ReturnPool)
    /\ WF_validationVars(Walks)
    /\ \A w \in Workers : WF_validationVars(Pooled(w))
    /\ \A w \in Goroutines : WF_validationVars(Inspects(w))

ValidationSpec == ValidationInit /\ [][ValidationNext]_validationVars /\ Fairness

-----------------------------------------------------------------------------
(* Properties                                                              *)

\* What an operation learns about a bundle is true of one object: the recipients
\* it returns are those of the ciphertext with the ETag it returns, that object
\* existed while the operation ran, it is the one the caller recorded, and for a
\* resumed push it carries the push's tip.  A cache file, which outlives the
\* object, says nothing else either.  bundleValidation.inspect and inspectPush,
\* with an administrator replacing objects between the requests.
ChecksAreTrue ==
    /\ \A k \in Keys, v \in Versions : cache[<<k, v>>] \in {None, Envelope[v]}
    /\ \A i \in DOMAIN checked : checked[i] # None =>
        /\ <<checked[i].key, checked[i].etag>> \in seen
        /\ checked[i].recipients = Envelope[checked[i].etag]
        /\ Agrees(refs[i], checked[i])
        /\ tip # None => PushTip[checked[i].etag] = tip

\* An operation that succeeds returns the whole list and hides no failure; one that
\* fails names a failure that happened, and no goroutine outlives it.  The pool
\* reports a reference that failed by itself or its caller's cancellation, never
\* the cancellation that the first error caused in the other requests.  chain
\* reports the one reference that failed, or, when none did, that it was cancelled
\* or that Git did not run.  inspectPushPrefix and chain.
FirstErrorReported ==
    (phase = "idle" /\ result # None) =>
        /\ \A w \in Goroutines : at[w] = "none"
        /\ \/ /\ result = Success
              /\ failures = {} /\ \A i \in 1..Len(refs) : checked[i] # None
           \/ result \in failures /\ (tip = None => failures = {result})
           \/ tip # None /\ result = Parent
           \/ /\ tip = None /\ failures = {}
              /\ result = GitFailed \/ (result = Canceled /\ cause = Parent)

\* Every operation returns: no goroutine waits for a job that is not fed, and the
\* feeder waits for no goroutine that has ended.  inspectPushPrefix's select.
OperationsReturn == phase # "idle" ~> phase = "idle"
=============================================================================
