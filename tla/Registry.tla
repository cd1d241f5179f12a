------------------------------ MODULE Registry ------------------------------
(***************************************************************************)
(* The life of the registry client's process: main, start, run and stop of  *)
(* RaceRegistry, and the handler of SIGINT, composed with the web server    *)
(* that start creates and whose kill is called by stop.  The process ends   *)
(* when main returns, whatever its threads are at.                          *)
(***************************************************************************)
EXTENDS HttpServer

CONSTANT UseRace    \* what the arguments may say: FALSE is "norace"

ASSUME UseRaceAssumption == UseRace \subseteq BOOLEAN

VARIABLES
    useRACE,
    stage,      \* where main's thread is
    isRunning,  \* the member; the loop of run has an isRunning of its own
    process     \* "up", "exited" or "aborted"

lifeVars == <<useRACE, stage, isRunning, process>>
registryVars == <<useRACE, stage, isRunning, process, mpc, current, child, pool, plock, keys, kpc,
                  shouldStop, reapedLock, listening, crashed>>

RegistryInit ==
    /\ Init
    /\ useRACE \in UseRace
    /\ stage = "begin"
    /\ isRunning = FALSE
    /\ process = "up"

Alive == process = "up" /\ ~crashed

\* main's thread goes from one stage to another.
Goes(from, to) ==
    /\ Alive
    /\ stage = from
    /\ stage' = to
    /\ UNCHANGED <<useRACE>>

\* main's thread leaves the process by a way that does not stop the server.
Leaves(from, to) ==
    /\ Goes(from, to)
    /\ process' = "exited"
    /\ UNCHANGED <<isRunning, vars>>

\* The web server's constructor has opened the listening socket; the database's
\* looks at no result and always returns.
Start ==
    /\ Goes("begin", "run")
    /\ ~isRunning
    /\ isRunning' = TRUE
    /\ UNCHANGED <<process, vars>>

\* The web server's constructor exits the process if it cannot.
StartFails == Leaves("begin", "begin")

\* run comes back with -1, which start drops.
PidFileFails == useRACE /\ Leaves("run", "no pid file")

SetUpRace ==
    /\ useRACE
    /\ Goes("run", "loop")
    /\ UNCHANGED <<isRunning, process, vars>>

\* Nothing catches what a status thread throws.
StatusThrows ==
    /\ Alive
    /\ stage = "loop"
    /\ process' = "aborted"
    /\ UNCHANGED <<useRACE, stage, isRunning, vars>>

\* Faulty variant: run returns like it does without a pid file.
StopForgotten == Leaves("run", "stopping")

\* Without RACE there is no loop; what the set-up of RACE throws is caught.  Either
\* way the next thing that run does is to stop the server.
Stop ==
    /\ Goes("run", "stopping")
    /\ BeginKill
    /\ UNCHANGED <<isRunning, process>>

\* kill has returned, and so do stop, run, start and main.
Return ==
    /\ Goes("stopping", "stopped")
    /\ kpc = "done"
    /\ process' = "exited"
    /\ UNCHANGED <<isRunning, vars>>

\* SIGINT, at any time.
Interrupt ==
    /\ Alive
    /\ isRunning' = FALSE
    /\ UNCHANGED <<useRACE, stage, process, vars>>

Served(step) == Alive /\ stage # "begin" /\ step /\ UNCHANGED lifeVars

LifeStep == Start \/ Stop \/ Return

RegistryNext ==
    \/ LifeStep
    \/ StartFails
    \/ PidFileFails
    \/ SetUpRace
    \/ StatusThrows
    \/ Interrupt
    \/ Served(MainStep)
    \/ Served(KillStep)
    \/ \E c \in Connections : Served(Accept(c)) \/ Served(ChildStep(c)) \/ Served(ServeThrows(c))

RegistrySpec == RegistryInit /\ [][RegistryNext]_registryVars

\* As in HttpServer; and main's thread runs.
RegistryFairSpec ==
    /\ RegistrySpec
    /\ SF_registryVars(Served(MainStep) /\ (mpc = "accept" => ~listening))
    /\ WF_registryVars(Served(KillStep))
    /\ \A c \in Connections : SF_registryVars(Served(Deregister(c)))
    /\ WF_registryVars(LifeStep)

(***************************************************************************)
(* Properties.                                                             *)
(***************************************************************************)

\* When main returns after the server was told to stop, no thread of it is cut off
\* in the middle of a request, and no listener uses what is destroyed on the way
\* out of main.
ExitIsQuiet ==
    process = "exited" /\ stage \notin {"begin", "no pid file"} => Live = {} /\ mpc = "exited"

\* The listener joins a handler that waits for the lock the listener holds.
Stuck == mpc = "join" /\ \E c \in keys : child[c] = "deregister"

\* The listener joins a handler that waits for its client.
Silenced == mpc = "join" /\ \E c \in keys : child[c] \in {"handshake", "serving"}

\* A process that has begun to stop ends, unless from some point on the listener is
\* held up in its joins for good, by a handler that is stuck behind its lock or one
\* whose client has fallen silent: nothing else in the hand-over from main's thread
\* to the listener and back can stop it.
StopsUnlessHeldUp ==
    (stage = "stopping") ~> (process = "exited" \/ crashed \/ [](Stuck \/ Silenced))
=============================================================================
