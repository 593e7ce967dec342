----------------------------- MODULE HelperLoop -----------------------------
(***************************************************************************)
(* gitHelper and helperCommand: the remote helper that Git starts.  After  *)
(* the setup of BucketSetup a goroutine reads Git's command lines and      *)
(* hands them over an unbuffered channel to the main loop, so that a       *)
(* signal can end the helper while Git is silent.  What push does after    *)
(* its versioning preflight is module Push, list and fetch are Fetch.      *)
(***************************************************************************)
EXTENDS BucketSetup

CONSTANT MaxLines   \* bound: [Helpers -> the lines that Git writes to it]

VARIABLES
    signalled,  \* the helpers whose context a signal has cancelled
    reader,     \* [Helpers -> "reading", "offering" or "ended"]
    line,       \* [Helpers -> the line that the reader offers]
    loop,       \* [Helpers -> where the main goroutine is, or how it exited]
    got,        \* [Helpers -> the line the main goroutine is about]
    lines,      \* [Helpers -> how many lines Git has written]
    late        \* history: the helpers that received after their cancellation

loopVars == <<signalled, reader, line, loop, got, lines, late>>
helperVars == <<setupVars, loopVars>>

\* list, list for-push and fetch are one here: they read, or panic; an unknown
\* command panics after the alias check, as one of these may.
Commands == {"capabilities", "read", "push"}
\* EOF, which is an error of ReadString, and the empty line.
Lines == Commands \union {"eof", "blank"}
Exits == {"exit 0", "exit 1", "panic", "killed"}

LoopInit ==
    /\ SetupInit
    /\ signalled = {}
    /\ reader = [h \in Helpers |-> "off"]
    /\ line = [h \in Helpers |-> "blank"]
    /\ loop = [h \in Helpers |-> "setup"]
    /\ got = [h \in Helpers |-> "blank"]
    /\ lines = [h \in Helpers |-> 0]
    /\ late = {}

\* The line a helper is done with is forgotten.
Goes(h, step) ==
    /\ loop' = [loop EXCEPT ![h] = step]
    /\ got' = [got EXCEPT ![h] = IF step \in Exits \union {"select"} THEN "blank" ELSE @]
Alive(h) == loop[h] \notin Exits

\* signal.NotifyContext: SIGINT or SIGTERM.
Signal(h) ==
    /\ h \notin signalled /\ Alive(h)
    /\ signalled' = signalled \union {h}
    /\ UNCHANGED <<setupVars, reader, line, loop, got, lines, late>>

\* SIGKILL, or the machine stops: the reader is gone too.
Kill(h) ==
    /\ Alive(h)
    /\ Goes(h, "killed")
    /\ reader' = [reader EXCEPT ![h] = "off"]
    /\ line' = [line EXCEPT ![h] = "blank"]
    /\ lines' = [lines EXCEPT ![h] = 0]
    /\ UNCHANGED <<setupVars, signalled, late>>

\* ensureResources has returned: start the reader, or panic.
SetupReturns(h) ==
    /\ loop[h] = "setup"
    /\ setup[h] \in {"ready", "failed"}
    /\ IF setup[h] = "ready"
       THEN Goes(h, "select") /\ reader' = [reader EXCEPT ![h] = "reading"]
       ELSE Goes(h, "panic") /\ UNCHANGED reader
    /\ UNCHANGED <<setupVars, signalled, line, lines, late>>

-----------------------------------------------------------------------------
(* The reader                                                              *)

\* Git writes a line, or closes the pipe: whenever it likes, if ever.
GitWrites(h) ==
    /\ Alive(h)
    /\ reader[h] = "reading" /\ lines[h] < MaxLines[h]
    /\ \E l \in Lines : line' = [line EXCEPT ![h] = l]
    /\ lines' = [lines EXCEPT ![h] = @ + 1]
    /\ reader' = [reader EXCEPT ![h] = "offering"]
    /\ UNCHANGED <<setupVars, signalled, loop, got, late>>

\* The other branch of its select: the reader closes the channel.
ReaderQuits(h) ==
    /\ Alive(h)
    /\ reader[h] = "offering" /\ h \in signalled
    /\ reader' = [reader EXCEPT ![h] = "ended"]
    /\ line' = [line EXCEPT ![h] = "blank"]
    /\ UNCHANGED <<setupVars, signalled, loop, got, lines, late>>

-----------------------------------------------------------------------------
(* The main loop                                                           *)

\* Mutant: the loop waits for a line only.
SignalWakesNot(h) == h \in signalled /\ reader[h] = "ended"
SignalWakes(h) == h \in signalled

SelectDone(h) ==
    /\ loop[h] = "select"
    /\ SignalWakes(h)
    /\ Goes(h, "panic")
    /\ UNCHANGED <<setupVars, signalled, reader, line, lines, late>>

\* A closed channel delivers the zero value, which looks like an empty line.
Receive(h) ==
    /\ loop[h] = "select"
    /\ reader[h] \in {"offering", "ended"}
    /\ got' = [got EXCEPT ![h] = line[h]]
    /\ reader' = [reader EXCEPT ![h] = IF line[h] = "eof" THEN "ended"
                                       ELSE IF @ = "offering" THEN "reading" ELSE @]
    /\ line' = [line EXCEPT ![h] = "blank"]
    /\ late' = IF h \in signalled THEN late \union {h} ELSE late
    /\ loop' = [loop EXCEPT ![h] = "received"]
    /\ UNCHANGED <<setupVars, signalled, lines>>

\* Mutant: select is trusted to prefer the signal.
RecheckedNever(h) == FALSE
Rechecked(h) == h \in signalled

\* What the loop makes of a line: ctx.Err(), EOF, the empty line, a command.
Dispatch(h) ==
    /\ loop[h] = "received"
    /\ Goes(h, IF Rechecked(h) THEN "panic"
               ELSE CASE got[h] = "eof" -> "exit 1"
                      [] got[h] = "blank" -> "exit 0"
                      [] got[h] = "capabilities" -> "run"
                      [] OTHER -> "alias")
    /\ UNCHANGED <<setupVars, signalled, reader, line, lines, late>>

\* checkRepositoryAlias reads the canonical item of an implicit /1 repository,
\* and refuses one that holds another repository's metadata.
CheckAlias(h) ==
    /\ loop[h] = "alias"
    /\ \/ Goes(h, "panic")
       \/ Goes(h, IF got[h] = "push" THEN "versioning" ELSE "run")
    /\ UNCHANGED <<setupVars, signalled, reader, line, lines, late>>

\* The preflight of push: nothing to do, versioning enabled now, or a panic.
Preflight(h) ==
    IF "versioning" \in settings
    THEN Goes(h, "run") /\ UNCHANGED setupVars
    ELSE Goes(h, "run") /\ EnableVersioning

CheckVersioning(h) ==
    /\ loop[h] = "versioning"
    /\ \/ Preflight(h)
       \/ Goes(h, "panic") /\ (EnableVersioning \/ UNCHANGED setupVars)
    /\ UNCHANGED <<signalled, reader, line, lines, late>>

\* The command has run, or panics; ctx.Err() is asked for once more.
CommandReturns(h) ==
    /\ loop[h] = "run"
    /\ \/ Goes(h, "panic")
       \/ Goes(h, IF h \in signalled THEN "panic" ELSE "select")
    /\ UNCHANGED <<setupVars, signalled, reader, line, lines, late>>

-----------------------------------------------------------------------------
Runs(h) ==
    \/ SetupReturns(h) \/ SelectDone(h) \/ Receive(h) \/ Dispatch(h)
    \/ CheckAlias(h) \/ CheckVersioning(h) \/ CommandReturns(h)

\* A setup that is under way; nothing of it happens after the helper's end.
SetsUpHelper(h) == loop[h] = "setup" /\ SetupStep(h) /\ UNCHANGED loopVars

HelperNext ==
    \/ \E h \in Helpers :
        \/ SetsUpHelper(h)
        \/ SetupReturns(h) \/ SelectDone(h) \/ Receive(h) \/ Dispatch(h)
        \/ CheckAlias(h) \/ CheckVersioning(h) \/ CommandReturns(h)
        \/ GitWrites(h) \/ ReaderQuits(h) \/ Signal(h) \/ Kill(h)
    \/ (TableBecomesActive \/ OthersMakeBucket) /\ UNCHANGED loopVars

\* A goroutine that can run is run, and every request and wait ends: the SDK
\* bounds attempts, the waiters have deadlines.  Git may be silent for ever.
HelperSpec ==
    /\ LoopInit /\ [][HelperNext]_helperVars
    /\ \A h \in Helpers : WF_helperVars(Runs(h)) /\ WF_helperVars(SetsUpHelper(h))

-----------------------------------------------------------------------------
(* Properties                                                              *)

\* A bucket keeps the configuration its maker gives it.  One that was there, or that
\* somebody else made first, changes only by the versioning a push enables; the
\* exception is a region that tells a helper, which had found nothing, that it made
\* the bucket of another.  One that a helper made, or was told it made, lacks a
\* setting only while that helper is configuring it, or because it ended with an
\* error or was killed before it served a command: every other helper takes a
\* half-made bucket as it is, so its maker must not be the one to go on with it.
\* And whoever made the bucket, a push publishes only under versioning.
\* ensureBucket, configureNewBucket and ensureBucketVersioning.
OnlyMakersConfigure ==
    /\ maker \in {Found, Others} =>
        \/ settings \subseteq given \union {"versioning"}
        \/ maker = Others /\ repeats /\ creators # {}
    /\ \A h \in Helpers : (maker = h \/ h \in creators) =>
        \/ settings = Settings
        \/ setup[h] \in {"configure", "failed"} /\ loop[h] \in {"setup", "panic", "killed"}
    /\ \A h \in Helpers : (loop[h] = "run" /\ got[h] = "push") =>
        Exists /\ "versioning" \in settings

\* A line that arrives together with the signal, or the channel that the reader
\* closes because of it, is neither run as a command nor taken for Git's regular
\* end of the conversation.  The check after gitHelper's select, whose choice
\* between two ready cases is random.
LateLinesAreRefused ==
    \A h \in late : loop[h] \in {"received", "panic", "killed"}

\* A signal ends the helper, even while Git sends nothing and keeps the pipe open.
SignalEndsHelper ==
    \A h \in Helpers : h \in signalled ~> loop[h] \in Exits
=============================================================================
