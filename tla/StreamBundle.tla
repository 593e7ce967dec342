---------------------------- MODULE StreamBundle ----------------------------
(***************************************************************************)
(* streamBundle in bundle_crypto.go: one encryption or decryption between  *)
(* two files or sockets.  A cancellation closes both streams from a        *)
(* context.AfterFunc callback, which is the only thing that can wake a     *)
(* read or write that waits for the other side.                            *)
(***************************************************************************)
CONSTANT Jobs       \* invocations of streamBundle, one per caller

VARIABLES
    canceled,       \* the jobs whose context is canceled
    codec,          \* [Jobs -> what the codec is doing, or what streamBundle makes of it]
    callback,       \* [Jobs -> the AfterFunc callback]
    closed,         \* the jobs whose streams the callback has closed
    whole           \* history: the jobs whose codec wrote all of its output

streamVars == <<canceled, codec, callback, closed, whole>>

\* "ok" and "error" are the codec's own results; "returned" and "refused" are
\* what streamBundle decided to return.
Codec == {"none", "running", "blocked", "ok", "error", "returned", "refused"}

StreamTypeOK ==
    /\ canceled \subseteq Jobs
    /\ codec \in [Jobs -> Codec]
    /\ callback \in [Jobs -> {"none", "armed", "running", "done", "stopped"}]
    /\ closed \subseteq Jobs
    /\ whole \subseteq Jobs

StreamInit ==
    /\ canceled = {}
    /\ codec = [j \in Jobs |-> "none"]
    /\ callback = [j \in Jobs |-> "none"]
    /\ closed = {}
    /\ whole = {}

Codes(j, s) == codec' = [codec EXCEPT ![j] = s]

\* Nothing is started under a context that is canceled already.
StreamBegin(j) ==
    /\ codec[j] = "none"
    /\ IF j \in canceled
       THEN Codes(j, "refused") /\ UNCHANGED callback
       ELSE Codes(j, "running") /\ callback' = [callback EXCEPT ![j] = "armed"]
    /\ UNCHANGED <<canceled, closed, whole>>

\* A read or a write waits for the other side.
StreamBlocks(j) ==
    /\ codec[j] = "running"
    /\ Codes(j, "blocked")
    /\ UNCHANGED <<canceled, callback, closed, whole>>

StreamUnblocks(j) ==
    /\ codec[j] = "blocked"
    /\ Codes(j, "running")
    /\ UNCHANGED <<canceled, callback, closed, whole>>

\* bundleReader and bundleWriter ask for the cancellation before every chunk;
\* a closed stream is an error, whoever waited on it.
CodecEnds(j) ==
    /\ \/ /\ codec[j] = "running" /\ j \notin canceled
          /\ Codes(j, "ok")
          /\ whole' = whole \cup {j}
       \/ /\ codec[j] = "running" \/ (codec[j] = "blocked" /\ j \in closed)
          /\ Codes(j, "error")
          /\ UNCHANGED whole
    /\ UNCHANGED <<canceled, callback, closed>>

\* Mutant: the callback only notes the cancellation.
CallbackRunsIdle(j) ==
    /\ callback[j] = "running"
    /\ callback' = [callback EXCEPT ![j] = "done"]
    /\ UNCHANGED <<canceled, codec, closed, whole>>

\* The callback runs in a goroutine of its own.
CallbackStarts(j) ==
    /\ callback[j] = "armed" /\ j \in canceled
    /\ callback' = [callback EXCEPT ![j] = "running"]
    /\ UNCHANGED <<canceled, codec, closed, whole>>
CallbackRuns(j) ==
    /\ callback[j] = "running"
    /\ callback' = [callback EXCEPT ![j] = "done"]
    /\ closed' = closed \cup {j}
    /\ UNCHANGED <<canceled, codec, whole>>

\* The cancellation's cause wins over the codec's result.
StreamJudges(j) ==
    /\ codec[j] \in {"ok", "error"}
    /\ Codes(j, IF j \in canceled \/ codec[j] = "error" THEN "refused" ELSE "returned")
    /\ UNCHANGED <<canceled, callback, closed, whole>>

\* Mutant: nobody waits for a callback that has started.
StreamJoinsNothing(j) ==
    /\ codec[j] \in {"returned", "refused"}
    /\ callback' = [callback EXCEPT ![j] = IF @ = "armed" THEN "stopped" ELSE @]

\* The deferred stop(): a callback that has started is waited for.
StreamJoins(j) ==
    /\ codec[j] \in {"returned", "refused"}
    /\ callback[j] # "running"
    /\ callback' = [callback EXCEPT ![j] = IF @ = "armed" THEN "stopped" ELSE @]

Cancel(j) ==
    /\ j \notin canceled
    /\ canceled' = canceled \cup {j}
    /\ UNCHANGED <<codec, callback, closed, whole>>
=============================================================================
