----------------------------- MODULE HttpServer -----------------------------
(***************************************************************************)
(* The registry client's web server: a listening thread that starts one    *)
(* thread per connection and keeps their handles in threadPool, and kill,  *)
(* run by the thread of RaceRegistry::stop, which asks it to reap them.    *)
(*                                                                         *)
(* A connection stands for the thread that serves it: pool and keys hold   *)
(* connections.  What a handler does with the database is RegistryDb.      *)
(***************************************************************************)
EXTENDS Naturals, FiniteSets

CONSTANTS
    Connections,   \* the connections the server is offered
    JoinOutcomes,  \* what pthread_join may do with a handle cut to an int
    Listener,      \* the listening thread, as the owner of threadPoolLock
    None

\* run copies pthread_t handles into a std::vector<int>.  Where a handle fits the
\* join is the intended one ("joins"); where it does not, as on LP64 systems, the
\* join reads memory that is no thread ("crashes").  A join of such a handle that
\* comes back with an error, and leaves the thread running, is not among them.
ASSUME ConstantsAssumption ==
    /\ JoinOutcomes \subseteq {"joins", "crashes"}
    /\ Listener \notin Connections
    /\ None \notin Connections \cup {Listener}

VARIABLES
    mpc,         \* the statement of run
    current,     \* the connection run has just accepted, or None
    child,       \* [Connections -> state of the connection's thread]
    pool,        \* threadPool
    plock,       \* owner of threadPoolLock: Listener or None; a child's critical
                 \* section is one step
    keys,        \* the handles still to be joined
    kpc,         \* the statement of kill
    shouldStop,
    reapedLock,  \* allChildThreadsReaped is locked
    listening,   \* the listening socket is open
    crashed

vars == <<mpc, current, child, pool, plock, keys, kpc, shouldStop, reapedLock,
          listening, crashed>>

Init ==
    /\ mpc = "check"
    /\ current = None
    /\ child = [c \in Connections |-> "none"]
    /\ pool = {}
    /\ plock = None
    /\ keys = {}
    /\ kpc = "idle"
    /\ shouldStop = FALSE
    /\ reapedLock = FALSE
    /\ listening = TRUE
    /\ crashed = FALSE

(***************************************************************************)
(* run: the accept loop.                                                   *)
(***************************************************************************)
Main(from, to) == ~crashed /\ mpc = from /\ mpc' = to

CheckStop ==
    /\ Main("check", IF shouldStop THEN "reap" ELSE "accept")
    /\ UNCHANGED <<current, child, pool, plock, keys, kpc, shouldStop, reapedLock,
                   listening, crashed>>

Accept(c) ==
    /\ Main("accept", "create")
    /\ listening
    /\ child[c] = "none"
    /\ current' = c
    /\ UNCHANGED <<child, pool, plock, keys, kpc, shouldStop, reapedLock, listening, crashed>>

\* accept returns -1, for a moment or because kill has shut the socket down.
AcceptFails ==
    /\ Main("accept", "check")
    /\ UNCHANGED <<current, child, pool, plock, keys, kpc, shouldStop, reapedLock,
                   listening, crashed>>

CreateThread ==
    /\ Main("create", "insert")
    /\ child' = [child EXCEPT ![current] = "handshake"]
    /\ UNCHANGED <<current, pool, plock, keys, kpc, shouldStop, reapedLock, listening, crashed>>

\* The failure is printed, and the handle is put into the pool all the same.
CreateThreadFails ==
    /\ Main("create", "insert")
    /\ child' = [child EXCEPT ![current] = "failed"]
    /\ UNCHANGED <<current, pool, plock, keys, kpc, shouldStop, reapedLock, listening, crashed>>

\* What pthread_create leaves in threadHandle: the new thread, or, if it failed,
\* either nothing of use or the handle of an earlier round of the loop.
Handles(c) ==
    IF child[c] = "failed" THEN {d \in Connections : child[d] # "none"} ELSE {c}

\* Faulty variants: the handle is put into the pool only if its thread has just
\* begun; the loop's variable is cleared before the handle is put into the pool.
InsertIfHandshaking ==
    /\ Main("insert", "check")
    /\ plock = None
    /\ pool' = IF child[current] = "handshake" THEN pool \cup {current} ELSE pool
    /\ current' = None
    /\ UNCHANGED <<child, plock, keys, kpc, shouldStop, reapedLock, listening, crashed>>

InsertCleared ==
    /\ Main("insert", "check")
    /\ plock = None
    /\ current' = None
    /\ pool' = pool \cup {current'}
    /\ UNCHANGED <<child, plock, keys, kpc, shouldStop, reapedLock, listening, crashed>>

\* The child may have run closeServerThread before this.
InsertHandle ==
    /\ Main("insert", "check")
    /\ plock = None
    /\ \E h \in Handles(current) : pool' = pool \cup {h}
    /\ current' = None
    /\ UNCHANGED <<child, plock, keys, kpc, shouldStop, reapedLock, listening, crashed>>

(***************************************************************************)
(* run: shutting down.                                                     *)
(***************************************************************************)
BeginReap ==
    /\ Main("reap", "join")
    /\ plock = None
    /\ plock' = Listener
    /\ keys' = pool
    /\ UNCHANGED <<current, child, pool, kpc, shouldStop, reapedLock, listening, crashed>>

\* Each key is joined and then erased.  They are joined in turn, so one whose
\* thread does not end holds up the shutdown wherever it stands.  A handle that
\* was never written is an error to pthread_join, or worse.
Join(c) ==
    /\ ~crashed
    /\ mpc = "join"
    /\ c \in keys
    /\ \/ /\ child[c] = "failed" \/ ("joins" \in JoinOutcomes /\ child[c] = "exited")
          /\ keys' = keys \ {c}
          /\ pool' = pool \ {c}
          /\ crashed' = FALSE
       \/ /\ child[c] = "failed" \/ "crashes" \in JoinOutcomes
          /\ crashed' = TRUE
          /\ UNCHANGED <<keys, pool>>
    /\ UNCHANGED <<mpc, current, child, plock, kpc, shouldStop, reapedLock, listening>>

\* Faulty variant: the mutex kill waits for is left locked.
EndReapKeepsLock ==
    /\ Main("join", "exited")
    /\ keys = {}
    /\ plock' = None
    /\ UNCHANGED <<current, child, pool, keys, kpc, shouldStop, reapedLock, listening, crashed>>

EndReap ==
    /\ Main("join", "exited")
    /\ keys = {}
    /\ plock' = None
    /\ reapedLock' = FALSE
    /\ UNCHANGED <<current, child, pool, keys, kpc, shouldStop, listening, crashed>>

(***************************************************************************)
(* kill.  It locks allChildThreadsReaped twice; run unlocks it in between. *)
(***************************************************************************)
Kill(from, to) == ~crashed /\ kpc = from /\ kpc' = to

BeginKill ==
    /\ Kill("idle", "stop")
    /\ reapedLock' = TRUE
    /\ UNCHANGED <<mpc, current, child, pool, plock, keys, shouldStop, listening, crashed>>

SetShouldStop ==
    /\ Kill("stop", "close")
    /\ shouldStop' = TRUE
    /\ UNCHANGED <<mpc, current, child, pool, plock, keys, reapedLock, listening, crashed>>

CloseListeningSocket ==
    /\ Kill("close", "await")
    /\ listening' = FALSE
    /\ UNCHANGED <<mpc, current, child, pool, plock, keys, shouldStop, reapedLock, crashed>>

AwaitReaped ==
    /\ Kill("await", "join")
    /\ ~reapedLock
    /\ reapedLock' = TRUE
    /\ UNCHANGED <<mpc, current, child, pool, plock, keys, shouldStop, listening, crashed>>

JoinListener ==
    /\ Kill("join", "done")
    /\ mpc = "exited"
    /\ UNCHANGED <<mpc, current, child, pool, plock, keys, shouldStop, reapedLock, listening, crashed>>

(***************************************************************************)
(* handleClient.                                                           *)
(***************************************************************************)
Child(c, from, to) == ~crashed /\ child[c] = from /\ child' = [child EXCEPT ![c] = to]

Handshake(c) ==
    /\ Child(c, "handshake", "serving")
    /\ UNCHANGED <<mpc, current, pool, plock, keys, kpc, shouldStop, reapedLock, listening, crashed>>

\* The certificate or the key cannot be loaded, or SSL_accept fails: the thread
\* returns without closeServerThread and without closing the connection.
HandshakeFails(c) ==
    /\ Child(c, "handshake", "exited")
    /\ UNCHANGED <<mpc, current, pool, plock, keys, kpc, shouldStop, reapedLock, listening, crashed>>

\* The request is answered, with whatever the database says.
Serve(c) ==
    /\ Child(c, "serving", "deregister")
    /\ UNCHANGED <<mpc, current, pool, plock, keys, kpc, shouldStop, reapedLock, listening, crashed>>

\* Nothing catches what json::parse throws at a body that is not JSON.
ServeThrows(c) ==
    /\ ~crashed
    /\ child[c] = "serving"
    /\ crashed' = TRUE
    /\ UNCHANGED <<mpc, current, child, pool, plock, keys, kpc, shouldStop, reapedLock, listening>>

\* closeServerThread.  The connection is closed after it, which is nobody else's
\* business, and the thread ends.
Deregister(c) ==
    /\ Child(c, "deregister", "exited")
    /\ plock = None
    /\ pool' = pool \ {c}
    /\ UNCHANGED <<mpc, current, plock, keys, kpc, shouldStop, reapedLock, listening, crashed>>

MainStep ==
    \/ CheckStop
    \/ AcceptFails
    \/ CreateThread
    \/ CreateThreadFails
    \/ InsertHandle
    \/ BeginReap
    \/ \E c \in Connections : Join(c)
    \/ EndReap

KillStep == SetShouldStop \/ CloseListeningSocket \/ AwaitReaped \/ JoinListener

\* The steps that wait for the client, which may fall silent: neither SSL_accept
\* nor SSL_read has a timeout.
ClientStep(c) == Handshake(c) \/ HandshakeFails(c) \/ Serve(c)

ChildStep(c) == ClientStep(c) \/ Deregister(c)

Next ==
    \/ MainStep
    \/ BeginKill
    \/ KillStep
    \/ \E c \in Connections : Accept(c) \/ ChildStep(c) \/ ServeThrows(c)

Spec == Init /\ [][Next]_vars

\* Every thread keeps running, and threadPoolLock goes to a thread that keeps
\* asking for it; accept is only sure to return once the socket is shut down.
\* Clients come when they like and need not say anything, and whether the server is
\* killed is up to its user.
FairSpec ==
    /\ Spec
    /\ SF_vars(MainStep /\ (mpc = "accept" => ~listening))
    /\ WF_vars(KillStep)
    /\ \A c \in Connections : SF_vars(Deregister(c))

\* Beyond what the code can count on: no client is silent for ever.
AnsweringClientsSpec == FairSpec /\ \A c \in Connections : WF_vars(ClientStep(c))

(***************************************************************************)
(* Properties.                                                             *)
(***************************************************************************)

Live == {c \in Connections : child[c] \in {"handshake", "serving", "deregister"}}

\* The statics of HttpServer and the two program counters.
TypeOK ==
    /\ mpc \in {"check", "accept", "create", "insert", "reap", "join", "exited"}
    /\ current \in Connections \cup {None}
    /\ child \in [Connections ->
                  {"none", "handshake", "serving", "deregister", "exited", "failed"}]
    /\ pool \subseteq Connections
    /\ plock \in {Listener, None}
    /\ keys \subseteq Connections
    /\ kpc \in {"idle", "stop", "close", "await", "join", "done"}
    /\ shouldStop \in BOOLEAN
    /\ reapedLock \in BOOLEAN
    /\ listening \in BOOLEAN
    /\ crashed \in BOOLEAN

\* However a connection ends, and whether its thread runs before or after run has
\* put its handle into the pool: a thread that still serves a client is in the
\* pool, so that a shutdown finds it.
PoolHasEveryLiveThread == Live \subseteq pool \cup {current}

\* "we can procede with the rest of the shutdown": once kill has returned no
\* thread handles a request any more, and the listener is gone.
KilledIsQuiet == kpc = "done" => Live = {} /\ mpc = "exited" /\ pool = {}

\* "by setting shouldStop, the listen thread will begin shutdown and reap all
\* children, after which it will unlock the mutex": kill returns.  It does not even
\* where every client answers.
KillReturns == (kpc = "await") ~> (kpc = "done" \/ crashed)
=============================================================================
