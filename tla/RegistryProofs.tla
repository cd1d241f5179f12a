--------------------------- MODULE RegistryProofs ---------------------------
(***************************************************************************)
(* Proofs about Registry: the process does nothing to the web server that   *)
(* its specification does not say, so what is proved of the server holds    *)
(* in the process; and main returns behind a server that is at rest.        *)
(***************************************************************************)
EXTENDS Registry, HttpServerProofs

\* main comes to its end by one of the ways around stop, or behind kill.
ExitIsBehindKill ==
    process = "exited" =>
        stage \in {"begin", "no pid file"} \/ (stage = "stopped" /\ kpc = "done")

LEMMA StepIsServers == [RegistryNext]_registryVars => [Next]_vars
<1>1. SUFFICES ASSUME [RegistryNext]_registryVars PROVE [Next]_vars
  OBVIOUS
<1>2. CASE UNCHANGED registryVars
  BY <1>2 DEF registryVars, vars
<1>3. CASE LifeStep \/ StartFails \/ PidFileFails \/ SetUpRace \/ StatusThrows \/ Interrupt
  BY <1>3 DEF LifeStep, Start, Stop, Return, StartFails, PidFileFails, SetUpRace, StatusThrows,
              Interrupt, Leaves, Next
<1>4. CASE Served(MainStep) \/ Served(KillStep)
  BY <1>4 DEF Served, Next
<1>5. CASE \E c \in Connections : Served(Accept(c)) \/ Served(ChildStep(c)) \/ Served(ServeThrows(c))
  BY <1>5 DEF Served, Next
<1>6. QED
  BY <1>1, <1>2, <1>3, <1>4, <1>5 DEF RegistryNext

LEMMA ExitIsBehindKillStep ==
    ExitIsBehindKill /\ [RegistryNext]_registryVars => ExitIsBehindKill'
<1>1. SUFFICES ASSUME ExitIsBehindKill, [RegistryNext]_registryVars PROVE ExitIsBehindKill'
  OBVIOUS
<1> USE DEF ExitIsBehindKill
<1>2. CASE UNCHANGED registryVars
  BY <1>1, <1>2 DEF registryVars
<1>3. CASE StartFails \/ PidFileFails
  BY <1>3 DEF StartFails, PidFileFails, Leaves, Goes
<1>4. CASE Start \/ SetUpRace \/ Stop \/ StatusThrows \/ Interrupt
  BY <1>4 DEF Start, SetUpRace, Stop, StatusThrows, Interrupt, Goes, Alive
<1>5. CASE Return
  BY <1>5 DEF Return, Goes, vars
<1>6. CASE Alive /\ UNCHANGED lifeVars
  BY <1>6 DEF Alive, lifeVars
<1>7. QED
  BY <1>1, <1>2, <1>3, <1>4, <1>5, <1>6 DEF RegistryNext, LifeStep, Served

-----------------------------------------------------------------------------

\* Whatever main and the signals do, the server behaves as HttpServer says.
THEOREM ProcessRunsServer == RegistrySpec => Spec
<1>1. RegistryInit => Init
  BY DEF RegistryInit
<1>2. QED
  BY <1>1, StepIsServers, PTL DEF RegistrySpec, Spec

\* If main returns from stop, the listener and every handler are gone.
THEOREM ExitLeavesNoHandler == RegistrySpec => []ExitIsQuiet
<1>1. RegistryInit => ExitIsBehindKill
  BY DEF RegistryInit, ExitIsBehindKill
<1>2. ExitIsBehindKill /\ KilledIsQuiet => ExitIsQuiet
  BY DEF ExitIsBehindKill, KilledIsQuiet, ExitIsQuiet
<1>3. RegistrySpec => []KilledIsQuiet
  BY ProcessRunsServer, KillLeavesNoHandler, PTL
<1>4. QED
  BY <1>1, <1>2, <1>3, ExitIsBehindKillStep, PTL DEF RegistrySpec
=============================================================================
