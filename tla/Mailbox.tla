------------------------------ MODULE Mailbox ------------------------------
(***************************************************************************)
(* What the request/reply core promises, without its threads and locks:    *)
(* every call posts one request; the reply to it is delivered at most once *)
(* and kept until a call for the artifact that it is about takes it.  A     *)
(* call returns a reply it has taken.  Nothing here says which of two      *)
(* calls for one artifact gets which of the two replies.                   *)
(***************************************************************************)
CONSTANTS Calls, Artifact, Asked, None

VARIABLES
    status,   \* [Calls -> "idle", "open" or "returned"]
    pending,  \* calls whose request or reply is under way
    mailbox,  \* replies delivered and not taken
    got       \* [Calls -> the reply last taken, or None]

vars == <<status, pending, mailbox, got>>

Init ==
    /\ status = [c \in Calls |-> "idle"]
    /\ pending = {}
    /\ mailbox = {}
    /\ got = [c \in Calls |-> None]

Ask(c) ==
    /\ status[c] = "idle"
    /\ status' = [status EXCEPT ![c] = "open"]
    /\ pending' = pending \cup {c}
    /\ UNCHANGED <<mailbox, got>>

Deliver(d) ==
    /\ d \in pending
    /\ pending' = pending \ {d}
    /\ mailbox' = mailbox \cup {d}
    /\ UNCHANGED <<status, got>>

Take(c, d) ==
    /\ status[c] = "open"
    /\ d \in mailbox
    /\ Asked[d] = Artifact[c]
    /\ mailbox' = mailbox \ {d}
    /\ got' = [got EXCEPT ![c] = d]
    /\ UNCHANGED <<status, pending>>

Return(c) ==
    /\ status[c] = "open"
    /\ got[c] # None
    /\ status' = [status EXCEPT ![c] = "returned"]
    /\ UNCHANGED <<pending, mailbox, got>>

Next ==
    \E c \in Calls :
        \/ Ask(c)
        \/ Deliver(c)
        \/ \E d \in Calls : Take(c, d)
        \/ Return(c)

Spec == Init /\ [][Next]_vars
=============================================================================
