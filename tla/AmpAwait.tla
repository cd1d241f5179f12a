------------------------------ MODULE AmpAwait ------------------------------
(***************************************************************************)
(* The request/reply core of the artifact manager plugin: every call of    *)
(* acquireArtifact asks the registry for one artifact and blocks on a      *)
(* condition variable until receiveAmpMessage has queued the reply.        *)
(* RaceInterface::awaitMessageWithHeader and handleReceivedMessage are the *)
(* same code for the stand-alone downloader.  The registry's answer        *)
(* (handleRegistryMessage of the registry client) closes the loop.         *)
(*                                                                         *)
(* A call sends one request and the registry sends one answer to it, so a  *)
(* reply is identified by the call it answers; kind[d] says what its text  *)
(* is.  The network neither orders the replies nor promises to bring them. *)
(***************************************************************************)
EXTENDS Naturals, SequencesExt

CONSTANTS
    Calls,        \* invocations of get_artifact_registry_info, one thread each
    Receivers,    \* SDK threads that run receiveAmpMessage
    Names,        \* artifact names
    Artifact,     \* Artifact[c]: the name call c asks for
    Asked,        \* Asked[c]: the name that the registry reads in c's request, or None
    AnswerKinds,  \* AnswerKinds[n]: what the registry may answer about n
    None          \* no call

Kinds == {"complete",  \* a record with the five fields the loop requires
          "partial",   \* JSON under that name, some of the five fields missing
          "text"}      \* not JSON: "Shard does not exist in database"

\* The registry drops the first eight characters of a request.  That is "default ",
\* which createMessage puts before the name, if the downloader asks; the plugin sends
\* the bare name, and one that is shorter makes substr throw: there is no answer.
ASSUME ConstantsAssumption ==
    /\ Artifact \in [Calls -> Names]
    /\ Asked \in [Calls -> Names \cup {None}]
    /\ AnswerKinds \in [Names -> SUBSET Kinds]
    /\ None \notin Calls \cup Names

VARIABLES
    pc,        \* [Calls -> the statement the call is about to execute]
    requests,  \* requests the registry has not handled yet
    replies,   \* replies under way to the plugin
    kind,      \* what each reply is, "none" before the registry answers
    rpc,       \* [Receivers -> "idle" or "notify"]
    queue,     \* return_queue
    qlock,     \* the call that holds return_queue_lock, or None
    await,     \* the call that holds await_mtx, or None
    i,         \* the index of each call's scan, counted from 0 as in the code
    response,  \* responseString: the reply taken, None while ~requestFilled
    crashed    \* the process is gone

vars == <<pc, requests, replies, kind, rpc, queue, qlock, await, i, response, crashed>>

Init ==
    /\ pc = [c \in Calls |-> "ask"]
    /\ requests = {}
    /\ replies = {}
    /\ kind = [c \in Calls |-> "none"]
    /\ rpc = [r \in Receivers |-> "idle"]
    /\ queue = <<>>
    /\ qlock = None
    /\ await = None
    /\ i = [c \in Calls |-> 0]
    /\ response = [c \in Calls |-> None]
    /\ crashed = FALSE

At(c, label) == ~crashed /\ pc[c] = label

Goto(c, label) == pc' = [pc EXCEPT ![c] = label]

(***************************************************************************)
(* The registry answers a request.  It uses the name through a pointer to a *)
(* string that is gone by then, so that "text" may come for any name.       *)
(***************************************************************************)
Answer(c) ==
    /\ c \in requests
    /\ Asked[c] # None
    /\ \E k \in AnswerKinds[Asked[c]] : kind' = [kind EXCEPT ![c] = k]
    /\ requests' = requests \ {c}
    /\ replies' = replies \cup {c}
    /\ UNCHANGED <<pc, rpc, queue, qlock, await, i, response, crashed>>

(***************************************************************************)
(* receiveAmpMessage: the push is one critical section of                  *)
(* return_queue_lock, the notify_all comes after it and takes no lock.     *)
(***************************************************************************)
Push(r, d) ==
    /\ ~crashed
    /\ rpc[r] = "idle"
    /\ d \in replies
    /\ qlock = None
    /\ queue' = Append(queue, d)
    /\ replies' = replies \ {d}
    /\ rpc' = [rpc EXCEPT ![r] = "notify"]
    /\ UNCHANGED <<pc, requests, kind, qlock, await, i, response, crashed>>

\* Faulty variant: notify_one in place of notify_all.
NotifyOne(r) ==
    /\ ~crashed
    /\ rpc[r] = "notify"
    /\ rpc' = [rpc EXCEPT ![r] = "idle"]
    /\ IF \E c \in Calls : pc[c] = "waiting"
       THEN \E c \in Calls : pc[c] = "waiting" /\ Goto(c, "woken")
       ELSE pc' = pc
    /\ UNCHANGED <<requests, replies, kind, queue, qlock, await, i, response, crashed>>

NotifyAll(r) ==
    /\ ~crashed
    /\ rpc[r] = "notify"
    /\ rpc' = [rpc EXCEPT ![r] = "idle"]
    /\ pc' = [c \in Calls |-> IF pc[c] = "waiting" THEN "woken" ELSE pc[c]]
    /\ UNCHANGED <<requests, replies, kind, queue, qlock, await, i, response, crashed>>

(***************************************************************************)
(* get_artifact_registry_info.  The request is sent before await_mtx is    *)
(* taken; await_blocker.wait has no predicate.                             *)
(***************************************************************************)
Ask(c) ==
    /\ At(c, "ask")
    /\ requests' = requests \cup {c}
    /\ Goto(c, "lock")
    /\ UNCHANGED <<replies, kind, rpc, queue, qlock, await, i, response, crashed>>

LockAwait(c) ==
    /\ At(c, "lock")
    /\ await = None
    /\ await' = c
    /\ Goto(c, "wait")
    /\ UNCHANGED <<requests, replies, kind, rpc, queue, qlock, i, response, crashed>>

Wait(c) ==
    /\ At(c, "wait")
    /\ await' = None
    /\ Goto(c, "waiting")
    /\ UNCHANGED <<requests, replies, kind, rpc, queue, qlock, i, response, crashed>>

\* A condition variable may wake without a notification.
SpuriousWakeup(c) ==
    /\ At(c, "waiting")
    /\ Goto(c, "woken")
    /\ UNCHANGED <<requests, replies, kind, rpc, queue, qlock, await, i, response, crashed>>

Reacquire(c) ==
    /\ At(c, "woken")
    /\ await = None
    /\ await' = c
    /\ Goto(c, "lockQueue")
    /\ UNCHANGED <<requests, replies, kind, rpc, queue, qlock, i, response, crashed>>

LockQueue(c) ==
    /\ At(c, "lockQueue")
    /\ qlock = None
    /\ qlock' = c
    /\ i' = [i EXCEPT ![c] = 0]
    /\ Goto(c, "scan")
    /\ UNCHANGED <<requests, replies, kind, rpc, queue, await, response, crashed>>

\* The entry the scan of call c looks at.
InScan(c) == At(c, "scan") /\ i[c] < Len(queue)
Entry(c) == queue[i[c] + 1]

\* Text that is not JSON stays in the queue for good, and so does the answer
\* to another name, which is left for the call that asked for it.
SkipEntry(c) ==
    /\ InScan(c)
    /\ \/ kind[Entry(c)] = "text"
       \/ kind[Entry(c)] = "complete" /\ Asked[Entry(c)] # Artifact[c]
    /\ i' = [i EXCEPT ![c] = @ + 1]
    /\ UNCHANGED <<pc, requests, replies, kind, rpc, queue, qlock, await, response, crashed>>

\* Faulty variant: the i-- is not made up for by the i++ of a for loop.
EraseBrokenStepsBack(c) ==
    /\ InScan(c)
    /\ kind[Entry(c)] = "partial"
    /\ queue' = RemoveAt(queue, i[c] + 1)
    /\ i' = [i EXCEPT ![c] = @ - 1]
    /\ UNCHANGED <<pc, requests, replies, kind, rpc, qlock, await, response, crashed>>

\* "deleting broken entry": i-- comes before erase(begin() + i), and the loop's
\* i++ follows.  At i = 0 this is erase(begin() - 1), which is undefined: the
\* elements move down by one, dropping the first, over a string that is not
\* there, and the process may not survive that.
EraseBroken(c) ==
    /\ InScan(c)
    /\ kind[Entry(c)] = "partial"
    /\ IF i[c] = 0
       THEN \/ queue' = Tail(queue) /\ crashed' = FALSE
            \/ queue' = queue /\ crashed' = TRUE
       ELSE queue' = RemoveAt(queue, i[c]) /\ crashed' = FALSE
    /\ UNCHANGED <<pc, requests, replies, kind, rpc, qlock, await, i, response>>

\* Faulty variants: the name is not compared; the entry is not erased; the
\* entry before it is erased.
TakeAnyName(c) ==
    /\ InScan(c)
    /\ kind[Entry(c)] = "complete"
    /\ response' = [response EXCEPT ![c] = Entry(c)]
    /\ queue' = RemoveAt(queue, i[c] + 1)
    /\ i' = [i EXCEPT ![c] = @ + 1]
    /\ UNCHANGED <<pc, requests, replies, kind, rpc, qlock, await, crashed>>

TakeAndKeep(c) ==
    /\ InScan(c)
    /\ kind[Entry(c)] = "complete"
    /\ Asked[Entry(c)] = Artifact[c]
    /\ response' = [response EXCEPT ![c] = Entry(c)]
    /\ i' = [i EXCEPT ![c] = @ + 1]
    /\ UNCHANGED <<pc, requests, replies, kind, rpc, queue, qlock, await, crashed>>

TakeErasePrevious(c) ==
    /\ InScan(c)
    /\ kind[Entry(c)] = "complete"
    /\ Asked[Entry(c)] = Artifact[c]
    /\ response' = [response EXCEPT ![c] = Entry(c)]
    /\ queue' = IF i[c] = 0 THEN queue ELSE RemoveAt(queue, i[c])
    /\ i' = [i EXCEPT ![c] = @ + 1]
    /\ UNCHANGED <<pc, requests, replies, kind, rpc, qlock, await, crashed>>

\* Neither a break nor an i-- follows the erase: the entry behind the one taken
\* is not looked at, and a later one for the same name replaces the response.
TakeEntry(c) ==
    /\ InScan(c)
    /\ kind[Entry(c)] = "complete"
    /\ Asked[Entry(c)] = Artifact[c]
    /\ response' = [response EXCEPT ![c] = Entry(c)]
    /\ queue' = RemoveAt(queue, i[c] + 1)
    /\ i' = [i EXCEPT ![c] = @ + 1]
    /\ UNCHANGED <<pc, requests, replies, kind, rpc, qlock, await, crashed>>

\* Faulty variant: the path that found its record leaves without unlock().
EndScanLeavesLocked(c) ==
    /\ At(c, "scan")
    /\ i[c] >= Len(queue)
    /\ qlock' = IF response[c] # None THEN qlock ELSE None
    /\ Goto(c, IF response[c] # None THEN "return" ELSE "wait")
    /\ UNCHANGED <<requests, replies, kind, rpc, queue, await, i, response, crashed>>

EndScan(c) ==
    /\ At(c, "scan")
    /\ i[c] >= Len(queue)
    /\ qlock' = None
    /\ Goto(c, IF response[c] # None THEN "return" ELSE "wait")
    /\ UNCHANGED <<requests, replies, kind, rpc, queue, await, i, response, crashed>>

Return(c) ==
    /\ At(c, "return")
    /\ await' = None
    /\ Goto(c, "done")
    /\ UNCHANGED <<requests, replies, kind, rpc, queue, qlock, i, response, crashed>>

Scan(c) == SkipEntry(c) \/ EraseBroken(c) \/ TakeEntry(c) \/ EndScan(c)

\* The steps the thread of call c takes by itself once it has asked.
Proceed(c) ==
    LockAwait(c) \/ Wait(c) \/ Reacquire(c) \/ LockQueue(c) \/ Scan(c) \/ Return(c)

Next ==
    \/ \E c \in Calls : Answer(c) \/ Ask(c) \/ SpuriousWakeup(c) \/ Proceed(c)
    \/ \E r \in Receivers : NotifyAll(r) \/ \E d \in Calls : Push(r, d)

Spec == Init /\ [][Next]_vars

(***************************************************************************)
(* Fairness: the threads of the plugin run, and a mutex that is free again *)
(* and again is granted (strong fairness: other threads take it between).  *)
(* Nothing is assumed of spurious wakeups, of the registry or the network. *)
(***************************************************************************)
FairSpec ==
    /\ Spec
    /\ \A c \in Calls : SF_vars(Proceed(c))
    /\ \A r \in Receivers : WF_vars(NotifyAll(r))

\* The registry answers and the network delivers every reply as well.
DeliveringSpec ==
    /\ FairSpec
    /\ \A c \in Calls :
          /\ WF_vars(Ask(c) \/ Answer(c))
          /\ SF_vars(\E r \in Receivers : Push(r, c))

(***************************************************************************)
(* Properties.                                                             *)
(***************************************************************************)

\* The variables of one instance of the two classes that hold this code.
TypeOK ==
    /\ pc \in [Calls -> {"ask", "lock", "wait", "waiting", "woken",
                         "lockQueue", "scan", "return", "done"}]
    /\ requests \subseteq Calls
    /\ replies \subseteq Calls
    /\ kind \in [Calls -> Kinds \cup {"none"}]
    /\ rpc \in [Receivers -> {"idle", "notify"}]
    /\ queue \in Seq(Calls)
    /\ qlock \in Calls \cup {None}
    /\ await \in Calls \cup {None}
    /\ i \in [Calls -> Nat]
    /\ response \in [Calls -> Calls \cup {None}]
    /\ crashed \in BOOLEAN

\* The two mutexes are held exactly while the code is between lock and unlock,
\* so at most one call scans the queue and no push comes in between: on no path
\* out of get_artifact_registry_info does either lock stay taken.
LockDiscipline ==
    \A c \in Calls :
        /\ await = c <=> pc[c] \in {"wait", "lockQueue", "scan", "return"}
        /\ qlock = c <=> pc[c] = "scan"

\* What a call returns to download_artifact is a complete record for the artifact
\* it was asked for, whatever else was in the queue while it scanned.
OwnReply ==
    \A c \in Calls :
        /\ pc[c] \in {"return", "done"} => response[c] # None
        /\ response[c] # None =>
              /\ kind[response[c]] = "complete"
              /\ Asked[response[c]] = Artifact[c]

\* A reply is in one place at a time: not asked for yet, under way, in the queue
\* at one index, or taken by one call.  Two calls never work on the same reply.
ReplyInOnePlace ==
    /\ requests \cap replies = {}
    /\ \A d \in Calls :
          /\ d \in requests \cup replies \cup ToSet(queue) => pc[d] # "ask"
          /\ d \in ToSet(queue) => d \notin requests \cup replies
    /\ \A j, k \in 1 .. Len(queue) : queue[j] = queue[k] => j = k
    /\ \A c \in Calls : response[c] # None =>
          /\ response[c] \notin requests \cup replies \cup ToSet(queue)
          /\ pc[response[c]] # "ask"
          /\ \A d \in Calls : response[d] = response[c] => d = c

\* The calls whose answer, in the queue, is a usable record of c's artifact.
Usable(c) ==
    {d \in ToSet(queue) : kind[d] = "complete" /\ Asked[d] = Artifact[c]}

\* A call that is in the wait set when a notify_all is about to be issued gets
\* its answer if it is in the queue, unless another call for the same artifact
\* empties the queue of it first; however many calls compete for the two locks.
WokenIsServed ==
    \A c \in Calls :
        (/\ pc[c] = "waiting"
         /\ \E r \in Receivers : rpc[r] = "notify"
         /\ Usable(c) # {})
            ~> (pc[c] = "done" \/ Usable(c) = {})

\* "Await the returned message, blocking until we get it": the answer to a call
\* that is in the queue ends the wait of that call.
AnsweredReturns ==
    \A c \in Calls : Usable(c) # {} ~> pc[c] = "done"

\* Scanning the queue removes, of the usable records, only the one that the
\* scanning call takes: "deleting broken entry" deletes the broken entry.
OnlyTakenRecordsLeave ==
    [][\A d \in ToSet(queue) :
          kind[d] = "complete" /\ d \notin ToSet(queue')
              => \E c \in Calls : response'[c] = d]_vars

\* The core implements Mailbox as long as no broken entry comes in.
Box == INSTANCE Mailbox WITH
    status <- [c \in Calls |->
                 CASE pc[c] = "ask" -> "idle"
                   [] pc[c] = "done" -> "returned"
                   [] OTHER -> "open"],
    pending <- requests \cup replies,
    mailbox <- ToSet(queue),
    got <- response

ImplementsMailbox == Box!Spec
=============================================================================
