---------------------------- MODULE HelperProofs ----------------------------
(***************************************************************************)
(* For any number of helpers and lines: only its makers configure a        *)
(* bucket, only they can leave it half made, and no line that came with or *)
(* after a signal is acted upon.                                           *)
(***************************************************************************)
EXTENDS HelperLoop, TLAPS

Steps == {"bucket", "create", "configure", "table", "createTable", "waitTable",
          "ready", "failed"}

(***************************************************************************)
(* A creator never probes again, nothing is ever unset, and the requests   *)
(* that succeeded have left their settings, whatever other helpers did in  *)
(* between.                                                                *)
(***************************************************************************)
SetupOf(h) ==
    /\ setup[h] \in {"bucket", "create"} => h \notin creators /\ put[h] = 0 /\ maker # h
    /\ setup[h] \notin {"bucket", "create", "failed"} => Exists
    /\ setup[h] = "configure" =>
        h \in creators /\ put[h] < 6 /\ \A i \in 1..put[h] : SetupOrder[i] \in settings
    /\ (h \in creators /\ setup[h] \notin {"configure", "failed"}) => settings = Settings
    /\ (maker = h /\ setup[h] \notin {"configure", "failed"}) => h \in creators

\* A bucket that no helper made is configured by a helper only when the region told
\* that helper that it had made it; one that was there is never asked for.
MakerInv ==
    /\ maker = Nobody => settings = {}
    /\ creators = {} \/ maker \in Helpers \/ (maker = Others /\ repeats)
    /\ maker = Found => \A h \in Helpers : setup[h] # "create"
    /\ (creators = {} /\ maker \in {Found, Others}) => settings \subseteq given \union {"versioning"}

SetupType ==
    /\ maker \in Helpers \union {Nobody, Found, Others}
    /\ settings \subseteq Settings
    /\ setup \in [Helpers -> Steps]
    /\ put \in [Helpers -> 0..6]
    /\ creators \subseteq Helpers

SetupInv == SetupType /\ MakerInv /\ \A h \in Helpers : SetupOf(h)

Places == Exits \union {"setup", "select", "received", "alias", "versioning", "run"}

\* The main goroutine's progress follows the setup, and whoever received late had
\* been cancelled.
LoopInv ==
    /\ loop \in [Helpers -> Places]
    /\ got \in [Helpers -> Lines] /\ line \in [Helpers -> Lines]
    /\ reader \in [Helpers -> {"off", "reading", "offering", "ended"}]
    /\ late \subseteq signalled /\ late \subseteq Helpers
    /\ \A h \in Helpers :
        /\ reader[h] # "off" => setup[h] = "ready"
        /\ loop[h] \notin {"setup", "panic", "killed"} => setup[h] = "ready"
        /\ (loop[h] = "run" /\ got[h] = "push") => "versioning" \in settings

HelperInv == SetupInv /\ LoopInv /\ LateLinesAreRefused

LEMMA Order ==
    /\ Len(SetupOrder) = 6
    /\ Settings = {SetupOrder[i] : i \in 1..6}
    /\ "versioning" \in Settings
<1>1. /\ SetupOrder[1] = "exists" /\ SetupOrder[2] = "access" /\ SetupOrder[3] = "encryption"
      /\ SetupOrder[4] = "policy" /\ SetupOrder[5] = "tagging" /\ SetupOrder[6] = "versioning"
      /\ Len(SetupOrder) = 6 /\ DOMAIN SetupOrder = 1..6
  BY DEF SetupOrder
<1>2. Settings = {SetupOrder[i] : i \in 1..6}
  BY <1>1 DEF Settings, ToSet
<1>3. 6 \in 1..6
  OBVIOUS
<1> QED
  BY <1>1, <1>2, <1>3

LEMMA InitHolds == LoopInit => HelperInv
<1> SUFFICES ASSUME LoopInit PROVE HelperInv
  OBVIOUS
<1>1. SetupInv
  <2>1. /\ maker \in {Nobody, Found} /\ settings \in {{}, Settings} /\ given = settings
        /\ maker = Nobody => settings = {}
        /\ creators = {}
    BY DEF LoopInit, SetupInit, Inherited, Exists
  <2>2. SetupType
    BY <2>1 DEF LoopInit, SetupInit, SetupType, Steps
  <2>3. \A h \in Helpers : setup[h] = "bucket" /\ put[h] = 0 /\ h \notin creators /\ maker # h
    BY <2>1, MakersAssumption DEF LoopInit, SetupInit
  <2>4. MakerInv
    BY <2>1, <2>3 DEF MakerInv
  <2> QED
    BY <2>2, <2>3, <2>4 DEF SetupInv, SetupOf
<1>2. LoopInv /\ LateLinesAreRefused
  BY DEF LoopInit, LoopInv, LateLinesAreRefused, Places, Lines
<1> QED
  BY <1>1, <1>2 DEF HelperInv

\* What another's step leaves of a helper's part.
LEMMA OthersKept ==
    ASSUME SetupInv, NEW g \in Helpers, SetupType',
           setup'[g] = setup[g], put'[g] = put[g], g \in creators' <=> g \in creators,
           settings \subseteq settings', Exists => Exists', maker' = g <=> maker = g
    PROVE  SetupOf(g)'
BY DEF SetupInv, SetupOf, SetupType

\* A step that sets nothing up and creates nothing.
LEMMA PlainStep ==
    ASSUME SetupInv, NEW h \in Helpers, NEW s \in Steps, SetsUp(h, s),
           UNCHANGED <<maker, settings, regionVars, put, creators>>,
           \/ s = "failed"
           \/ s = "create" /\ setup[h] = "bucket" /\ ~Exists
           \/ s = "table" /\ setup[h] = "bucket" /\ Exists
           \/ s \in {"ready", "createTable", "waitTable"} /\
                  setup[h] \in {"table", "createTable", "waitTable"}
    PROVE  SetupInv'
<1>1. SetupType' /\ setup'[h] = s /\ \A g \in Helpers \ {h} : setup'[g] = setup[g]
  BY DEF SetupInv, SetupType, SetsUp
<1>2. SetupOf(h) /\ UNCHANGED Exists
  BY DEF SetupInv, Exists
<1>3. SetupOf(h)'
  BY <1>1, <1>2 DEF SetupOf
<1>4. \A g \in Helpers \ {h} : SetupOf(g)'
  BY <1>1, <1>2, OthersKept
<1>5. maker = Found => Exists
  BY MakersAssumption DEF Exists
<1>6. MakerInv'
  <2>1. MakerInv /\ UNCHANGED <<maker, settings, repeats, given, creators>>
    BY DEF SetupInv, regionVars
  <2>2. maker = Found => \A g \in Helpers : setup'[g] # "create"
    BY <1>1, <1>5, <2>1 DEF MakerInv
  <2> QED
    BY <2>1, <2>2 DEF MakerInv
<1> QED
  BY <1>1, <1>3, <1>4, <1>6 DEF SetupInv

(***************************************************************************)
(* The bucket's creation, by whoever it is.                                *)
(***************************************************************************)
LEMMA CreationKeeps ==
    ASSUME SetupInv, NEW h \in Helpers, CreateBucket(h) \/ CreateUnknown(h)
    PROVE  SetupInv' /\ settings \subseteq settings'
<1>0. SetupType /\ MakerInv /\ SetupOf(h)
  BY DEF SetupInv
<1>1. /\ setup[h] = "create" /\ UNCHANGED <<settings, put>>
      /\ repeats' = repeats /\ given' = given
      /\ \/ Exists /\ maker' = maker
         \/ ~Exists /\ maker' = h
         \/ ~Exists /\ maker' = maker /\ SetsUp(h, "failed") /\ creators' = creators
  BY DEF CreateBucket, CreateUnknown, regionVars
<1>2. \/ SetsUp(h, "configure") /\ creators' = creators \union {h} /\ (~Exists => maker' = h)
         /\ (~Exists \/ repeats)
      \/ Exists /\ maker' = maker /\ SetsUp(h, "table") /\ creators' = creators
      \/ SetsUp(h, "failed") /\ creators' = creators
  BY Zenon DEF CreateBucket, CreateUnknown
<1>3. /\ h # Nobody /\ h # Found /\ h # Others /\ maker # h /\ maker # Found
      /\ \A g \in Helpers : g # Nobody
  BY <1>0, <1>1, MakersAssumption DEF SetupOf, MakerInv
<1>4. SetupType' /\ \A g \in Helpers \ {h} : setup'[g] = setup[g]
  BY <1>0, <1>1, <1>2 DEF SetupType, SetsUp, Steps
<1>5. Exists => Exists'
  BY <1>1, <1>3 DEF Exists
<1>6. \/ setup'[h] = "configure" /\ h \in creators' /\ Exists'
      \/ setup'[h] = "table" /\ Exists' /\ creators' = creators /\ maker' = maker
      \/ setup'[h] = "failed"
  <2>1. SetsUp(h, "configure") => setup'[h] = "configure"
    BY <1>0 DEF SetupType, SetsUp
  <2>2. SetsUp(h, "table") => setup'[h] = "table"
    BY <1>0 DEF SetupType, SetsUp
  <2>3. SetsUp(h, "failed") => setup'[h] = "failed"
    BY <1>0 DEF SetupType, SetsUp
  <2>4. ~Exists /\ maker' = h => Exists'
    BY <1>3 DEF Exists
  <2> QED
    BY <1>2, <1>5, <2>1, <2>2, <2>3, <2>4
<1>7. SetupOf(h)'
  <2>1. h \notin creators /\ put'[h] = 0 /\ maker # h
    BY <1>0, <1>1 DEF SetupOf
  <2>2. \A i \in 1..put'[h] : FALSE
    BY <2>1
  <2>3. CASE setup'[h] = "configure" /\ h \in creators' /\ Exists'
    BY <2>1, <2>2, <2>3 DEF SetupOf
  <2>4. CASE setup'[h] = "table" /\ Exists' /\ creators' = creators /\ maker' = maker
    BY <2>1, <2>4 DEF SetupOf
  <2>5. CASE setup'[h] = "failed"
    BY <2>5 DEF SetupOf
  <2> QED
    BY <1>6, <2>3, <2>4, <2>5
<1>8. ASSUME NEW g \in Helpers \ {h} PROVE SetupOf(g)'
  <2>1. g \in creators' <=> g \in creators
    BY <1>2
  <2>2. maker' = g <=> maker = g
    BY <1>1, <1>3 DEF Exists
  <2>3. setup'[g] = setup[g] /\ put'[g] = put[g] /\ settings \subseteq settings'
    BY <1>1, <1>4
  <2> QED
    BY <1>4, <1>5, <2>1, <2>2, <2>3, OthersKept
<1>9. MakerInv'
  <2>1. maker' = Nobody => settings' = {}
    BY <1>0, <1>1, <1>3 DEF MakerInv
  <2>2. maker' # Found
    BY <1>1, <1>3
  <2>3. creators' = {} \/ maker' \in Helpers \/ (maker' = Others /\ repeats')
    <3>1. CASE maker' = h
      BY <3>1
    <3>2. CASE creators' = creators /\ maker' = maker
      BY <1>0, <1>1, <3>2 DEF MakerInv
    <3>3. CASE Exists /\ maker' = maker /\ repeats
      BY <1>0, <1>1, <1>3, <3>3 DEF Exists, SetupType
    <3> QED
      BY <1>1, <1>2, <3>1, <3>2, <3>3
  <2>4. (creators' = {} /\ maker' \in {Found, Others}) =>
            settings' \subseteq given' \union {"versioning"}
    <3> SUFFICES ASSUME creators' = {}, maker' = Others
                 PROVE  settings' \subseteq given' \union {"versioning"}
      BY <2>2
    <3>1. creators = {} /\ maker = Others
      BY <1>1, <1>2, <1>3
    <3> QED
      BY <1>0, <1>1, <3>1 DEF MakerInv
  <2> QED
    BY <2>1, <2>2, <2>3, <2>4 DEF MakerInv
<1> QED
  BY <1>1, <1>4, <1>7, <1>8, <1>9 DEF SetupInv

\* Somebody else makes the bucket, where there is none.
LEMMA OthersMakeKeeps ==
    ASSUME SetupInv, OthersMakeBucket
    PROVE  SetupInv' /\ settings \subseteq settings' /\ UNCHANGED setup
<1>1. /\ maker = Nobody /\ maker' = Others /\ settings = {}
      /\ settings' \subseteq Settings /\ given' = settings'
      /\ UNCHANGED <<setup, put, creators>> /\ creators = {}
  BY MakersAssumption DEF SetupInv, MakerInv, OthersMakeBucket, Exists, Inherited
<1>2. SetupType'
  BY <1>1 DEF SetupInv, SetupType
<1>3. MakerInv'
  BY <1>1, MakersAssumption DEF MakerInv
<1>4. ASSUME NEW g \in Helpers PROVE SetupOf(g)'
  <2>1. maker' # g /\ maker # g /\ ~Exists
    BY <1>1, MakersAssumption DEF Exists
  <2> QED
    BY <1>1, <1>2, <2>1, OthersKept
<1> QED
  BY <1>1, <1>2, <1>3, <1>4 DEF SetupInv

(***************************************************************************)
(* One step of one helper's setup.                                         *)
(***************************************************************************)
LEMMA SetupStepKeeps ==
    ASSUME SetupInv, NEW h \in Helpers, SetupStep(h)
    PROVE  SetupInv' /\ settings \subseteq settings'
           /\ \A g \in Helpers : setup[g] = "ready" => setup'[g] = "ready"
<1>0. /\ put[h] \in 0..6 /\ setup[h] \in Steps
      /\ settings \subseteq Settings /\ SetupOf(h) /\ MakerInv
  BY DEF SetupInv, SetupType
<1>1. /\ setup[h] # "ready" /\ settings \subseteq settings'
      /\ \E s \in Steps : SetsUp(h, s)
  BY DEF SetupStep, Steps, ProbeBucket, CreateBucket, CreateUnknown, ConfigureNewBucket,
         ConfigureFails, DescribeTable, CreateTable, WaitForTable, SetupFails
<1>2. \A g \in Helpers : setup[g] = "ready" => setup'[g] = "ready"
  BY <1>1 DEF SetsUp, SetupInv, SetupType
<1>3. CASE CreateBucket(h) \/ CreateUnknown(h)
  BY <1>2, <1>3, CreationKeeps
<1>4. CASE ConfigureNewBucket(h)
  <2>1. /\ setup[h] = "configure" /\ put[h] < 6
        /\ settings' = settings \union {SetupOrder[put[h] + 1]}
        /\ put' = [put EXCEPT ![h] = put[h] + 1]
        /\ SetsUp(h, IF put[h] + 1 = 6 THEN "table" ELSE "configure")
        /\ UNCHANGED <<maker, regionVars, creators>> /\ UNCHANGED Exists
    BY <1>0, <1>4, Order DEF SetupOf, ConfigureNewBucket, Exists
  <2>2. put[h] + 1 \in 1..6 /\ put[h] + 1 \in 0..6
    BY <1>0, <2>1
  <2>3. settings' \subseteq Settings
    BY <1>0, <2>1, <2>2, Order
  <2>4. SetupType' /\ put'[h] = put[h] + 1
        /\ setup'[h] = (IF put[h] + 1 = 6 THEN "table" ELSE "configure")
        /\ \A g \in Helpers \ {h} : setup'[g] = setup[g] /\ put'[g] = put[g]
    BY <2>1, <2>2, <2>3 DEF SetupInv, SetupType, SetsUp, Steps
  <2>5. \A i \in 1..put'[h] : SetupOrder[i] \in settings'
    <3>1. \A i \in 1..put[h] : SetupOrder[i] \in settings
      BY <1>0, <2>1 DEF SetupOf
    <3>2. \A i \in 1..(put[h] + 1) : i \in 1..put[h] \/ i = put[h] + 1
      BY <1>0
    <3> QED
      BY <2>1, <2>4, <3>1, <3>2
  <2>6. put[h] + 1 = 6 => settings' = Settings
    BY <2>3, <2>4, <2>5, Order
  <2>7. Exists /\ Exists' /\ h \in creators /\ h \in creators'
    BY <1>0, <2>1 DEF SetupOf
  <2>8. SetupOf(h)'
    BY <1>0, <2>2, <2>4, <2>5, <2>6, <2>7 DEF SetupOf
  <2>9. \A g \in Helpers \ {h} : SetupOf(g)'
    BY <1>1, <2>1, <2>4, OthersKept
  <2>10. MakerInv'
    BY <1>0, <2>1, <2>4, <2>7, MakersAssumption DEF MakerInv, Exists, regionVars
  <2> QED
    BY <1>1, <1>2, <2>4, <2>8, <2>9, <2>10 DEF SetupInv
<1>5. CASE ConfigureFails(h)
  <2>1. put[h] + 1 \in 1..6 /\ setup[h] = "configure" /\ h \in creators
    BY <1>0, <1>5 DEF SetupOf, ConfigureFails
  <2>2. /\ SetsUp(h, "failed") /\ UNCHANGED <<maker, regionVars, put, creators>>
        /\ settings' \subseteq Settings /\ UNCHANGED Exists
    BY <1>0, <1>5, <2>1, Order DEF ConfigureFails, Exists
  <2>3. SetupType' /\ setup'[h] = "failed" /\ \A g \in Helpers \ {h} : setup'[g] = setup[g]
    BY <2>2 DEF SetupInv, SetupType, SetsUp, Steps
  <2>4. SetupOf(h)'
    BY <2>3 DEF SetupOf
  <2>5. \A g \in Helpers \ {h} : SetupOf(g)'
    BY <1>1, <2>2, <2>3, OthersKept
  <2>6. maker # Nobody
    BY <1>0, <2>1 DEF SetupOf, Exists
  <2>7. MakerInv'
    BY <1>0, <2>1, <2>2, <2>3, <2>6 DEF MakerInv, regionVars
  <2> QED
    BY <1>1, <1>2, <2>3, <2>4, <2>5, <2>7 DEF SetupInv
<1>6. CASE ProbeBucket(h) \/ DescribeTable(h) \/ CreateTable(h) \/ WaitForTable(h) \/ SetupFails(h)
  <2>1. UNCHANGED <<maker, settings, regionVars, put, creators>>
    BY <1>6 DEF ProbeBucket, DescribeTable, CreateTable, WaitForTable, SetupFails
  <2>2. \E s \in Steps : SetsUp(h, s) /\
           \/ s = "failed"
           \/ s = "create" /\ setup[h] = "bucket" /\ ~Exists
           \/ s = "table" /\ setup[h] = "bucket" /\ Exists
           \/ s \in {"ready", "createTable", "waitTable"} /\
                  setup[h] \in {"table", "createTable", "waitTable"}
    <3>1. CASE ProbeBucket(h)
      <4>1. setup[h] = "bucket"
        BY <3>1 DEF ProbeBucket
      <4>2. \/ Exists /\ SetsUp(h, "table")
            \/ ~Exists /\ SetsUp(h, "create")
            \/ SetsUp(h, "failed")
        BY <3>1 DEF ProbeBucket, Authorizes
      <4> QED
        BY <4>1, <4>2 DEF Steps
    <3>2. CASE DescribeTable(h) \/ CreateTable(h) \/ WaitForTable(h) \/ SetupFails(h)
      BY <3>2 DEF DescribeTable, CreateTable, WaitForTable, SetupFails, Steps
    <3> QED
      BY <1>6, <3>1, <3>2
  <2> QED
    BY <1>1, <1>2, <2>1, <2>2, PlainStep
<1> QED
  BY <1>3, <1>4, <1>5, <1>6 DEF SetupStep

-----------------------------------------------------------------------------
(* The main loop.                                                          *)

\* What a step of one helper has to show for the others and for itself.
LEMMA LoopKept ==
    ASSUME HelperInv, SetupInv', NEW h \in Helpers,
           settings \subseteq settings',
           \A g \in Helpers : setup[g] = "ready" => setup'[g] = "ready",
           NEW l \in Places, loop' = [loop EXCEPT ![h] = l],
           NEW w \in Lines, got' = [got EXCEPT ![h] = w],
           line' \in [Helpers -> Lines],
           NEW r \in {"off", "reading", "offering", "ended"}, reader' = [reader EXCEPT ![h] = r],
           signalled \subseteq signalled', late' \in {late, late \union {h}},
           h \in late' => h \in signalled' /\ l \in {"received", "panic", "killed"},
           (r # "off" \/ l \notin {"setup", "panic", "killed"}) => setup'[h] = "ready",
           (l = "run" /\ w = "push") => "versioning" \in settings'
    PROVE  HelperInv'
<1>1. LoopInv /\ LateLinesAreRefused
  BY DEF HelperInv
<1>2. /\ loop' \in [Helpers -> Places] /\ got' \in [Helpers -> Lines]
      /\ reader' \in [Helpers -> {"off", "reading", "offering", "ended"}]
      /\ loop'[h] = l /\ got'[h] = w /\ reader'[h] = r
      /\ \A g \in Helpers \ {h} :
            loop'[g] = loop[g] /\ got'[g] = got[g] /\ reader'[g] = reader[g]
  BY <1>1 DEF LoopInv
<1>3. late' \subseteq signalled' /\ late' \subseteq Helpers
  BY <1>1 DEF LoopInv
<1>4. ASSUME NEW g \in Helpers
      PROVE  /\ reader'[g] # "off" => setup'[g] = "ready"
             /\ loop'[g] \notin {"setup", "panic", "killed"} => setup'[g] = "ready"
             /\ (loop'[g] = "run" /\ got'[g] = "push") => "versioning" \in settings'
  BY <1>1, <1>2 DEF LoopInv
<1>5. LateLinesAreRefused'
  BY <1>1, <1>2, <1>3 DEF LateLinesAreRefused
<1> QED
  BY <1>2, <1>3, <1>4, <1>5 DEF HelperInv, LoopInv

\* Every step keeps the invariant.
LEMMA StepKeeps == HelperInv /\ [HelperNext]_helperVars => HelperInv'
<1> SUFFICES ASSUME HelperInv, [HelperNext]_helperVars PROVE HelperInv'
  OBVIOUS
<1>0. SetupInv /\ LoopInv /\ LateLinesAreRefused
  BY DEF HelperInv
<1>1. ASSUME NEW h \in Helpers, SetsUpHelper(h) PROVE HelperInv'
  <2>1. SetupInv' /\ settings \subseteq settings'
        /\ \A g \in Helpers : setup[g] = "ready" => setup'[g] = "ready"
    BY <1>0, <1>1, SetupStepKeeps DEF SetsUpHelper
  <2>2. UNCHANGED loopVars
    BY <1>1 DEF SetsUpHelper
  <2> QED
    BY <1>0, <2>1, <2>2 DEF HelperInv, LoopInv, LateLinesAreRefused, loopVars
<1>2. ASSUME UNCHANGED <<maker, settings, regionVars, setup, put, creators>>
      PROVE  SetupInv' /\ settings \subseteq settings'
             /\ \A g \in Helpers : setup[g] = "ready" => setup'[g] = "ready"
  BY <1>0, <1>2 DEF SetupInv, SetupType, SetupOf, MakerInv, Exists, regionVars
<1>3. CASE (TableBecomesActive /\ UNCHANGED loopVars) \/ UNCHANGED helperVars
  <2>1. UNCHANGED <<maker, settings, regionVars, setup, put, creators>> /\ UNCHANGED loopVars
    BY <1>3 DEF TableBecomesActive, helperVars, setupVars, regionVars
  <2> QED
    BY <1>0, <1>2, <2>1 DEF HelperInv, LoopInv, LateLinesAreRefused, loopVars
<1>4. ASSUME NEW h \in Helpers, UNCHANGED setupVars PROVE
        /\ SetupInv' /\ settings \subseteq settings'
        /\ \A g \in Helpers : setup[g] = "ready" => setup'[g] = "ready"
  BY <1>2, <1>4 DEF setupVars, regionVars
<1>5. ASSUME NEW h \in Helpers
      PROVE  /\ loop = [loop EXCEPT ![h] = loop[h]] /\ loop[h] \in Places
             /\ got = [got EXCEPT ![h] = got[h]] /\ got[h] \in Lines
             /\ reader = [reader EXCEPT ![h] = reader[h]]
             /\ reader[h] \in {"off", "reading", "offering", "ended"}
             /\ line \in [Helpers -> Lines] /\ line[h] \in Lines
             /\ reader[h] # "off" => setup[h] = "ready"
             /\ loop[h] \notin {"setup", "panic", "killed"} => setup[h] = "ready"
             /\ (loop[h] = "run" /\ got[h] = "push") => "versioning" \in settings
             /\ h \in late => h \in signalled /\ loop[h] \in {"received", "panic", "killed"}
  BY <1>0, <1>5 DEF LoopInv, LateLinesAreRefused
<1>6. "blank" \in Lines /\ Exits \subseteq Places
  BY DEF Lines, Places
<1>7. ASSUME NEW h \in Helpers, Signal(h) PROVE HelperInv'
  <2>1. /\ signalled \subseteq signalled' /\ UNCHANGED setupVars
        /\ UNCHANGED <<reader, line, loop, got, late>>
    BY <1>7 DEF Signal
  <2> QED
    BY <1>0, <1>4, <2>1 DEF HelperInv, LoopInv, LateLinesAreRefused, setupVars
<1>8. ASSUME NEW h \in Helpers, SetupReturns(h) PROVE HelperInv'
  <2>1. /\ UNCHANGED setupVars /\ loop[h] = "setup" /\ UNCHANGED <<signalled, line, late>>
        /\ got' = [got EXCEPT ![h] = "blank"]
        /\ \/ /\ setup[h] = "ready" /\ loop' = [loop EXCEPT ![h] = "select"]
              /\ reader' = [reader EXCEPT ![h] = "reading"]
           \/ loop' = [loop EXCEPT ![h] = "panic"] /\ reader' = reader
    BY <1>8 DEF SetupReturns, Goes, Exits
  <2>2. h \notin late
    BY <1>5, <2>1
  <2>3. "select" \in Places /\ "panic" \in Places
    BY DEF Places, Exits
  <2>4. CASE setup[h] = "ready" /\ loop' = [loop EXCEPT ![h] = "select"]
             /\ reader' = [reader EXCEPT ![h] = "reading"]
    <3>1. setup'[h] = "ready"
      BY <2>1, <2>4 DEF setupVars
    <3> QED
      BY <1>4, <1>5, <1>6, <2>1, <2>2, <2>3, <2>4, <3>1, LoopKept
  <2>5. CASE loop' = [loop EXCEPT ![h] = "panic"] /\ reader' = reader
    <3>1. reader[h] # "off" => setup'[h] = "ready"
      BY <1>5, <2>1 DEF setupVars
    <3>2. /\ reader' = [reader EXCEPT ![h] = reader[h]]
          /\ reader[h] \in {"off", "reading", "offering", "ended"}
          /\ line' \in [Helpers -> Lines]
      BY <1>5, <2>1, <2>5
    <3>3. h \notin late' /\ late' \in {late, late \union {h}} /\ signalled \subseteq signalled'
      BY <2>1, <2>2
    <3> QED
      BY <1>4, <1>6, <2>1, <2>3, <2>5, <3>1, <3>2, <3>3, LoopKept
  <2> QED
    BY <2>1, <2>4, <2>5
<1>9. ASSUME NEW h \in Helpers, GitWrites(h) \/ ReaderQuits(h) PROVE HelperInv'
  <2>1. /\ UNCHANGED setupVars /\ UNCHANGED <<signalled, late, loop, got>>
        /\ line' \in [Helpers -> Lines] /\ reader[h] # "off"
        /\ \/ reader' = [reader EXCEPT ![h] = "offering"]
           \/ reader' = [reader EXCEPT ![h] = "ended"]
    BY <1>5, <1>6, <1>9 DEF GitWrites, ReaderQuits
  <2> QED
    BY <1>4, <1>5, <2>1, LoopKept DEF setupVars
<1>10. ASSUME NEW h \in Helpers, Receive(h) PROVE HelperInv'
  <2>1. /\ UNCHANGED setupVars /\ loop[h] = "select" /\ signalled' = signalled
        /\ got' = [got EXCEPT ![h] = line[h]] /\ loop' = [loop EXCEPT ![h] = "received"]
        /\ line' \in [Helpers -> Lines]
        /\ \E r \in {"reading", "ended"} : reader' = [reader EXCEPT ![h] = r]
        /\ late' = IF h \in signalled THEN late \union {h} ELSE late
    BY <1>5, <1>6, <1>10 DEF Receive
  <2>2. "received" \in Places /\ setup[h] = "ready"
    BY <1>5, <2>1 DEF Places
  <2>3. h \in late' => h \in signalled'
    BY <1>5, <2>1
  <2> QED
    BY <1>4, <1>5, <2>1, <2>2, <2>3, LoopKept DEF setupVars
<1>11. ASSUME NEW h \in Helpers,
              SelectDone(h) \/ Dispatch(h) \/ CheckAlias(h) \/ CommandReturns(h)
       PROVE  HelperInv'
  <2>1. /\ UNCHANGED setupVars /\ UNCHANGED <<signalled, reader, line, late>>
        /\ loop[h] \in {"select", "received", "alias", "run"}
    BY <1>11 DEF SelectDone, Dispatch, CheckAlias, CommandReturns
  <2>2. \E l \in Places :
          /\ Goes(h, l) /\ l # "setup"
          /\ h \in late => l = "panic"
          /\ l = "run" => got[h] # "push"
    <3>1. {"panic", "select", "versioning", "run", "alias", "exit 0", "exit 1"} \subseteq Places
      BY DEF Places, Exits
    <3>2. h \in late => h \in signalled /\ loop[h] \in {"received", "panic", "killed"}
      BY <1>5
    <3>3. CASE SelectDone(h)
      BY <3>1, <3>2, <3>3 DEF SelectDone
    <3>4. CASE CheckAlias(h)
      <4>1. h \notin late
        BY <3>2, <3>4 DEF CheckAlias
      <4>2. \/ Goes(h, "panic")
            \/ Goes(h, "versioning")
            \/ got[h] # "push" /\ Goes(h, "run")
        BY <3>4 DEF CheckAlias
      <4> QED
        BY <3>1, <4>1, <4>2
    <3>5. CASE CommandReturns(h)
      <4>1. h \notin late
        BY <3>2, <3>5 DEF CommandReturns
      <4>2. Goes(h, "panic") \/ Goes(h, "select")
        BY <3>5 DEF CommandReturns
      <4> QED
        BY <3>1, <4>1, <4>2
    <3>6. CASE Dispatch(h)
      <4>1. CASE h \in signalled
        BY <3>1, <3>6, <4>1 DEF Dispatch, Rechecked
      <4>2. CASE h \notin signalled
        <5>1. h \notin late
          BY <3>2, <4>2
        <5>2. \/ Goes(h, "exit 1") \/ Goes(h, "exit 0") \/ Goes(h, "alias")
              \/ got[h] = "capabilities" /\ Goes(h, "run")
          BY <3>6, <4>2 DEF Dispatch, Rechecked
        <5> QED
          BY <3>1, <5>1, <5>2
      <4> QED
        BY <4>1, <4>2
    <3> QED
      BY <1>11, <3>3, <3>4, <3>5, <3>6
  <2>3. PICK l \in Places :
          /\ Goes(h, l) /\ l # "setup"
          /\ h \in late => l = "panic"
          /\ l = "run" => got[h] # "push"
    BY <2>2
  <2>4. PICK w \in {"blank", got[h]} :
            /\ loop' = [loop EXCEPT ![h] = l] /\ got' = [got EXCEPT ![h] = w]
            /\ l = "run" => w # "push"
    BY <2>3 DEF Goes
  <2>5. setup'[h] = "ready" /\ w \in Lines
    BY <1>5, <1>6, <2>1 DEF setupVars
  <2>6. h \in late' => h \in signalled' /\ l \in {"received", "panic", "killed"}
    BY <1>5, <2>1, <2>3
  <2>7. /\ reader' = [reader EXCEPT ![h] = reader[h]]
        /\ reader[h] \in {"off", "reading", "offering", "ended"}
        /\ line' \in [Helpers -> Lines]
    BY <1>5, <2>1
  <2>8. (l = "run" /\ w = "push") => "versioning" \in settings'
    BY <2>4
  <2>9. signalled \subseteq signalled' /\ late' \in {late, late \union {h}}
    BY <2>1
  <2>10. /\ SetupInv' /\ settings \subseteq settings'
         /\ \A g \in Helpers : setup[g] = "ready" => setup'[g] = "ready"
    BY <1>4, <2>1
  <2> QED
    BY <2>4, <2>5, <2>6, <2>7, <2>8, <2>9, <2>10, LoopKept
<1>12. ASSUME NEW h \in Helpers, CheckVersioning(h) PROVE HelperInv'
  <2>1. /\ loop[h] = "versioning" /\ UNCHANGED <<signalled, reader, line, late>>
        /\ settings' \in {settings, settings \union {"versioning"}}
        /\ UNCHANGED <<maker, regionVars, setup, put, creators>>
        /\ \/ Goes(h, "run") /\ "versioning" \in settings'
           \/ Goes(h, "panic")
    BY <1>12 DEF CheckVersioning, Preflight, EnableVersioning, setupVars, regionVars
  <2>2. h \notin late /\ setup[h] = "ready"
    BY <1>5, <2>1
  <2>3. SetupInv'
    <3>1. SetupType'
      BY <1>0, <2>1, Order DEF SetupInv, SetupType
    <3>2. SetupOf(h) /\ UNCHANGED Exists
      BY <1>0, <2>1 DEF SetupInv, Exists
    <3>3. \A g \in Helpers : SetupOf(g)'
      BY <1>0, <2>1, <3>1, <3>2, OthersKept
    <3>4. maker # Nobody
      BY <2>2, <3>2 DEF SetupOf, Exists
    <3>5. MakerInv'
      BY <1>0, <2>1, <3>4 DEF SetupInv, MakerInv, regionVars
    <3> QED
      BY <3>1, <3>3, <3>5 DEF SetupInv
  <2>4. PICK l \in {"run", "panic"}, w \in {"blank", got[h]} :
          /\ loop' = [loop EXCEPT ![h] = l] /\ got' = [got EXCEPT ![h] = w]
          /\ l = "run" => "versioning" \in settings'
    BY <2>1 DEF Goes
  <2>5. l \in Places /\ w \in Lines /\ setup'[h] = "ready"
    BY <1>5, <1>6, <2>1, <2>2 DEF Places, Exits
  <2> QED
    BY <1>5, <2>1, <2>2, <2>3, <2>4, <2>5, LoopKept
<1>13. ASSUME NEW h \in Helpers, Kill(h) PROVE HelperInv'
  <2>1. /\ UNCHANGED setupVars /\ UNCHANGED <<signalled, late>>
        /\ loop' = [loop EXCEPT ![h] = "killed"] /\ got' = [got EXCEPT ![h] = "blank"]
        /\ reader' = [reader EXCEPT ![h] = "off"] /\ line' \in [Helpers -> Lines]
    BY <1>5, <1>6, <1>13 DEF Kill, Goes, Exits
  <2>2. "killed" \in Places
    BY DEF Places, Exits
  <2> QED
    BY <1>4, <1>5, <1>6, <2>1, <2>2, LoopKept
<1>14. CASE OthersMakeBucket /\ UNCHANGED loopVars
  <2>1. SetupInv' /\ settings \subseteq settings' /\ setup' = setup
    BY <1>0, <1>14, OthersMakeKeeps
  <2> QED
    BY <1>0, <1>14, <2>1 DEF HelperInv, LoopInv, LateLinesAreRefused, loopVars
<1> QED
  BY <1>1, <1>3, <1>7, <1>8, <1>9, <1>10, <1>11, <1>12, <1>13, <1>14 DEF HelperNext

LEMMA Invariance == HelperSpec => []HelperInv
<1> QED
  BY InitHolds, StepKeeps, PTL DEF HelperSpec

(***************************************************************************)
(* A bucket that somebody else made gets nothing but versioning from the   *)
(* helpers, unless the region told one of them that it had made it; one of *)
(* their own is half made only beside the maker that is at it, ended with  *)
(* an error or was killed; and a push runs only with versioning, for any   *)
(* number of helpers in any order (ensureBucket, configureNewBucket,       *)
(* ensureBucketVersioning).                                                *)
(***************************************************************************)
THEOREM MakersConfigure == HelperSpec => []OnlyMakersConfigure
<1>1. ASSUME HelperInv PROVE OnlyMakersConfigure
  <2>1. MakerInv /\ LoopInv /\ \A h \in Helpers : SetupOf(h)
    BY <1>1 DEF HelperInv, SetupInv
  <2>2. maker \in {Found, Others} =>
            \/ settings \subseteq given \union {"versioning"}
            \/ maker = Others /\ repeats /\ creators # {}
    BY <2>1, MakersAssumption DEF MakerInv
  <2>3. ASSUME NEW h \in Helpers, maker = h \/ h \in creators
        PROVE  \/ settings = Settings
               \/ setup[h] \in {"configure", "failed"} /\ loop[h] \in {"setup", "panic", "killed"}
    BY <2>1, <2>3 DEF SetupOf, LoopInv
  <2>4. ASSUME NEW h \in Helpers, loop[h] = "run" /\ got[h] = "push"
        PROVE  Exists /\ "versioning" \in settings
    BY <2>1, <2>4 DEF SetupOf, LoopInv
  <2> QED
    BY <2>2, <2>3, <2>4 DEF OnlyMakersConfigure
<1> QED
  BY <1>1, Invariance, PTL

(***************************************************************************)
(* gitHelper never acts on what its select received together with, or      *)
(* because of, a signal.                                                   *)
(***************************************************************************)
THEOREM LateLinesRefused == HelperSpec => []LateLinesAreRefused
<1>1. HelperInv => LateLinesAreRefused
  BY DEF HelperInv
<1> QED
  BY <1>1, Invariance, PTL
=============================================================================
