-------------------------- MODULE HttpServerProofs --------------------------
(***************************************************************************)
(* Proofs of HttpServer's invariants, for any number of connections and     *)
(* whatever pthread_join does with a handle cut to an int.                  *)
(***************************************************************************)
EXTENDS HttpServer, TLAPS

\* The connection run works on is remembered just between accept and the insertion.
CurrentIsWorkedOn ==
    IF mpc \in {"create", "insert"} THEN current \in Connections ELSE current = None

\* While run joins it holds threadPoolLock, so the pool is what it has left to
\* join; after that there is nothing in the pool, and kill has the listener's word.
ReapingLocksPool ==
    /\ plock = Listener <=> mpc = "join"
    /\ mpc = "join" => keys = pool
    /\ mpc = "exited" => pool = {}
    /\ kpc = "done" => mpc = "exited"

IInv == TypeOK /\ CurrentIsWorkedOn /\ ReapingLocksPool /\ PoolHasEveryLiveThread

-----------------------------------------------------------------------------

LEMMA InitIInv == Init => IInv
<1>1. SUFFICES ASSUME Init PROVE IInv
  OBVIOUS
<1>2. child = [c \in Connections |-> "none"] /\ Live = {}
  BY <1>1 DEF Init, Live
<1>3. TypeOK
  BY <1>1, <1>2 DEF Init, TypeOK
<1>4. CurrentIsWorkedOn /\ ReapingLocksPool /\ PoolHasEveryLiveThread
  BY <1>1, <1>2, ConstantsAssumption
     DEF Init, CurrentIsWorkedOn, ReapingLocksPool, PoolHasEveryLiveThread
<1>5. QED
  BY <1>3, <1>4 DEF IInv

\* The steps of run.
LEMMA MainStepIInv == IInv /\ MainStep => IInv'
<1>1. SUFFICES ASSUME IInv, MainStep PROVE IInv'
  OBVIOUS
<1> USE <1>1, ConstantsAssumption
    DEF IInv, TypeOK, CurrentIsWorkedOn, ReapingLocksPool, PoolHasEveryLiveThread, Live, Main
<1>2. CASE CheckStop
  BY <1>2 DEF CheckStop
<1>3. CASE AcceptFails
  BY <1>3 DEF AcceptFails
<1>4. CASE CreateThread
  BY <1>4 DEF CreateThread
<1>5. CASE CreateThreadFails
  BY <1>5 DEF CreateThreadFails
<1>6. CASE InsertHandle
  <2>1. PICK h \in Handles(current) : pool' = pool \cup {h}
    BY <1>6 DEF InsertHandle
  <2>2. h \in Connections
    BY <1>6, <2>1 DEF InsertHandle, Handles
  <2>3. current \in pool' \/ child[current] = "failed"
    BY <1>6, <2>1 DEF InsertHandle, Handles
  <2>4. TypeOK' /\ CurrentIsWorkedOn' /\ ReapingLocksPool'
    BY <1>6, <2>1, <2>2 DEF InsertHandle
  <2>5. PoolHasEveryLiveThread'
    BY <1>6, <2>1, <2>3 DEF InsertHandle
  <2>6. QED
    BY <2>4, <2>5
<1>7. CASE BeginReap
  BY <1>7 DEF BeginReap
<1>8. ASSUME NEW c \in Connections, Join(c) PROVE IInv'
  BY <1>8 DEF Join
<1>9. CASE EndReap
  BY <1>9 DEF EndReap
<1>10. QED
  BY <1>2, <1>3, <1>4, <1>5, <1>6, <1>7, <1>8, <1>9 DEF MainStep

\* The steps of kill touch none of what run and the handlers share.
LEMMA KillStepIInv == IInv /\ (BeginKill \/ KillStep) => IInv'
<1>1. SUFFICES ASSUME IInv, BeginKill \/ KillStep PROVE IInv'
  OBVIOUS
<1> USE <1>1 DEF IInv, TypeOK, CurrentIsWorkedOn, ReapingLocksPool,
                 PoolHasEveryLiveThread, Live, Kill
<1>2. CASE BeginKill
  BY <1>2 DEF BeginKill
<1>3. CASE SetShouldStop
  BY <1>3 DEF SetShouldStop
<1>4. CASE CloseListeningSocket
  BY <1>4 DEF CloseListeningSocket
<1>5. CASE AwaitReaped
  BY <1>5 DEF AwaitReaped
<1>6. CASE JoinListener
  BY <1>6 DEF JoinListener
<1>7. QED
  BY <1>2, <1>3, <1>4, <1>5, <1>6 DEF KillStep

\* A connection comes in, or its thread takes a step.
LEMMA ConnectionStepIInv ==
    ASSUME NEW c \in Connections, IInv, Accept(c) \/ ChildStep(c) \/ ServeThrows(c)
    PROVE  IInv'
<1> USE ConstantsAssumption
    DEF IInv, TypeOK, CurrentIsWorkedOn, ReapingLocksPool, PoolHasEveryLiveThread,
        Live, Main, Child
<1>1. CASE Accept(c)
  BY <1>1 DEF Accept
<1>2. CASE Handshake(c)
  BY <1>2 DEF Handshake
<1>3. CASE HandshakeFails(c)
  BY <1>3 DEF HandshakeFails
<1>4. CASE Serve(c)
  BY <1>4 DEF Serve
<1>5. CASE ServeThrows(c)
  BY <1>5 DEF ServeThrows
<1>6. CASE Deregister(c)
  BY <1>6 DEF Deregister
<1>7. QED
  BY <1>1, <1>2, <1>3, <1>4, <1>5, <1>6 DEF ChildStep, ClientStep

LEMMA NextIInv == IInv /\ [Next]_vars => IInv'
<1>1. CASE UNCHANGED vars
  BY <1>1 DEF vars, IInv, TypeOK, CurrentIsWorkedOn, ReapingLocksPool,
              PoolHasEveryLiveThread, Live
<1>2. QED
  BY <1>1, MainStepIInv, KillStepIInv, ConnectionStepIInv DEF Next

\* Nothing that runs, kills or serves leaves the types; in particular an accept
\* that fails puts no handle into the pool.
THEOREM TypeCorrect == Spec => []TypeOK
<1>1. IInv => TypeOK
  BY DEF IInv
<1>2. QED
  BY <1>1, InitIInv, NextIInv, PTL DEF Spec

\* Every thread that serves a client is in the pool, or is the one run is about to
\* put there: a shutdown misses none.
THEOREM PoolIsComplete == Spec => []PoolHasEveryLiveThread
<1>1. IInv => PoolHasEveryLiveThread
  BY DEF IInv
<1>2. QED
  BY <1>1, InitIInv, NextIInv, PTL DEF Spec

\* When kill has returned no thread handles a request any more.
THEOREM KillLeavesNoHandler == Spec => []KilledIsQuiet
<1>1. IInv => KilledIsQuiet
  BY ConstantsAssumption
     DEF IInv, KilledIsQuiet, CurrentIsWorkedOn, ReapingLocksPool, PoolHasEveryLiveThread, Live
<1>2. QED
  BY <1>1, InitIInv, NextIInv, PTL DEF Spec
=============================================================================
