---------------------------- MODULE StoredBundle ----------------------------
(***************************************************************************)
(* What encryptAndUploadBundle promises the pushes that call it for one    *)
(* key: the first complete ciphertext to be stored stays for good, and a   *)
(* caller is told of success only when the stored ciphertext belongs to a  *)
(* push of its own tip.                                                    *)
(***************************************************************************)
CONSTANTS Callers, Tips, Nothing

VARIABLES
    tip,            \* [Callers -> the tip of the caller's push]
    stored,         \* the ciphertext under the key, or Nothing
    acknowledged    \* the callers that were told of success

Ciphertexts == [by : Callers, tip : Tips]

Init ==
    /\ tip \in [Callers -> Tips]
    /\ stored = Nothing
    /\ acknowledged = {}

Next ==
    /\ UNCHANGED tip
    /\ \/ UNCHANGED stored
       \/ stored = Nothing /\ stored' \in {c \in Ciphertexts : c.tip = tip[c.by]}
    /\ acknowledged \subseteq acknowledged'
    /\ \A c \in acknowledged' \ acknowledged : stored' # Nothing /\ stored'.tip = tip[c]

Spec == Init /\ [][Next]_<<tip, stored, acknowledged>>
=============================================================================
