------------------------------- MODULE Deploy -------------------------------
(***************************************************************************)
(* The sharding server: the pages that upload a dependency, edit a          *)
(* configuration and deploy, each request in a thread of the web server,    *)
(* over four JSON columns that are read, changed and written back as a      *)
(* whole.  A deployment holds deploy_lock, a global that is tested and then *)
(* set; it lets optim.py place the pieces of new instances, pushes them to  *)
(* the server nodes, a thread for each, and registers them.                 *)
(*                                                                         *)
(* Composed with the shard hosts it pushes to (ShardHost), the rules of the *)
(* optimiser (Placement) and what a registry does with a POST: the first    *)
(* entry of a name stays.  Every dependency has a deptype, its name there,  *)
(* of its own; entries of the race nodes do not expire within a behaviour.  *)
(***************************************************************************)
EXTENDS Placement

CONSTANTS
    Deployers,    \* requests of deploy/, deploy/simple and randomize/
    Uploaders,    \* requests of upload/
    Editors,      \* requests of config/...: a page is shown, and posted back
    Kinds,        \* the kinds of deployment asked for
    EditColumns,  \* the columns editors work on
    DefaultDeps,  \* configs/deps.json
    NumRegs,      \* registries
    HttpsRegs,    \* the registries whose method is "https"
    Registry,     \* [RNodes -> the registry named, 0 for one that is not listed]
    Method,       \* [SNodes -> "https" or "ipfs"]
    Draws,        \* random_order: [RNodes \X Names -> the server node tried first]
    MaxDeploys,   \* bound: deployments begun
    MaxFaults     \* bound: restarts of the server and requests that fail

ASSUME DeployAssumption ==
    /\ EditColumns \subseteq {"regs", "deps", "rnodes", "snodes"}
    /\ DefaultDeps \subseteq Deps
    /\ NumRegs \in Nat \ {0} /\ HttpsRegs \subseteq 1 .. NumRegs /\ Registry \in [RNodes -> Nat]
    /\ Method \in [SNodes -> {"https", "ipfs"}]
    /\ Draws \subseteq [RNodes \X Names -> SNodes]
    /\ MaxDeploys \in Nat /\ MaxFaults \in Nat

Regs == 1 .. NumRegs
Requests == Deployers \cup Uploaders \cup Editors
Tasks == Deployers \X SNodes

\* Connection 0 of a task is the one it has open.  The thread that serves it at
\* the host does not end with the task: after failure f it goes on as number f.
Connections == Deployers \X SNodes \X (0 .. MaxFaults)

VARIABLES
    lock,      \* deploy_lock
    db,        \* the four columns
    tmp,       \* /tmp/regs.json, deps.json, ...
    out,       \* /tmp/regs_updated.json, ...
    req,       \* [Requests -> a request's stage and its local variables]
    thread,    \* [Tasks -> state of a task of push_to_snodes]
    made,      \* [Deps -> instances created so far; each has a new UUID]
    held,      \* [Regs -> [Deps -> the locations a registry holds]]
    file, post, severed,   \* the shard hosts
    raced,     \* two requests have passed the test of deploy_lock
    uploaded,  \* dependencies whose upload has been answered
    beside,    \* of these, those uploaded while another request held a copy
    stale,     \* an upload or a page has put a column back that had changed
    deploys, faults   \* counters of the bounds

SH == INSTANCE ShardHost WITH Hosts <- SNodes

local == <<req, thread>>
hosts == <<file, post, severed>>
history == <<raced, uploaded, beside, stale, deploys, faults>>
vars == <<lock, db, tmp, out, req, thread, made, held, file, post, severed,
          raced, uploaded, beside, stale, deploys, faults>>

None == "none"
Column == <<"regs", "deps", "rnodes", "snodes">>

RShard == [piece : Names, at : SNodes, registered : BOOLEAN, cid : BOOLEAN]
SShard == [piece : Names, pushed : BOOLEAN]

Columns == [regs : [Regs -> SUBSET Instances],
            deps : [known : SUBSET Deps, instances : SUBSET Instances],
            rnodes : [RNodes -> SUBSET RShard],
            snodes : [SNodes -> SUBSET SShard]]

EmptyColumns == [regs |-> [g \in Regs |-> {}],
                 deps |-> [known |-> {}, instances |-> {}],
                 rnodes |-> [r \in RNodes |-> {}],
                 snodes |-> [s \in SNodes |-> {}]]

Idle == [pc |-> "idle", kind |-> None, col |-> 1, mine |-> EmptyColumns,
         node |-> 1, left |-> {}, round |-> 0]

Init ==
    /\ lock = FALSE
    /\ db = [EmptyColumns EXCEPT !.deps.known = DefaultDeps]
    /\ tmp = EmptyColumns /\ out = EmptyColumns
    /\ req = [q \in Requests |-> Idle]
    /\ thread = [c \in Tasks |-> None]
    /\ made = [d \in Deps |-> 0]
    /\ held = [g \in Regs |-> [d \in Deps |-> {}]]
    /\ SH!HostInit
    /\ raced = FALSE /\ stale = FALSE
    /\ uploaded = {} /\ beside = {}
    /\ deploys = 0 /\ faults = 0

At(q, stage) == req[q].pc = stage

Goto(q, stage) == req' = [req EXCEPT ![q].pc = stage]

\* One round of a loop over the four columns in a stage; sets req[q] otherwise.
NextColumn(q, following, mine) ==
    req' = [req EXCEPT ![q].mine = mine,
                       ![q].col = IF @ < 4 THEN @ + 1 ELSE 1,
                       ![q].pc = IF req[q].col < 4 THEN @ ELSE following]

Here(q) == Column[req[q].col]

\* A column copied from one set of them into another.
Copied(to, from, c) == [to EXCEPT ![c] = from[c]]

(***************************************************************************)
(* upload, and the configuration pages.                                    *)
(***************************************************************************)

\* Requests that have read the dependencies and will write them back.
HoldsDeps(q) ==
    \/ At(q, "upload") \/ (At(q, "edit") /\ req[q].kind = "deps")
    \/ At(q, "read") /\ req[q].col > 2
    \/ At(q, "load") \/ At(q, "solve") \/ At(q, "emit")
    \/ At(q, "take") /\ req[q].col <= 2

ReadForUpload(q) ==
    /\ At(q, "idle")
    /\ uploaded # Deps \ DefaultDeps
    /\ req' = [req EXCEPT ![q].pc = "upload", ![q].mine = Copied(EmptyColumns, db, "deps")]
    /\ UNCHANGED <<lock, db, tmp, out, thread, made, held, hosts, history>>

WriteUpload(q, d) ==
    /\ At(q, "upload")
    /\ d \notin uploaded \cup DefaultDeps
    /\ db' = [db EXCEPT !.deps = [req[q].mine.deps EXCEPT !.known = @ \cup {d}]]
    /\ uploaded' = uploaded \cup {d}
    /\ beside' = IF \E p \in Requests \ {q} : HoldsDeps(p) THEN beside \cup {d} ELSE beside
    /\ stale' = (stale \/ db.deps # req[q].mine.deps)
    /\ req' = [req EXCEPT ![q] = Idle]
    /\ UNCHANGED <<lock, tmp, out, thread, made, held, hosts, raced, deploys, faults>>

\* A page of one column is shown, and later posted back as it was shown.  A POST
\* to deploy/, randomize/ or index/ that has a field json puts that one text into
\* all four columns: no page has a form for it, and it is left out like every text
\* that an administrator should not enter.
ShowPage(q, c) ==
    /\ At(q, "idle")
    /\ req' = [req EXCEPT ![q].pc = "edit", ![q].kind = c,
                          ![q].mine = Copied(EmptyColumns, db, c)]
    /\ UNCHANGED <<lock, db, tmp, out, thread, made, held, hosts, history>>

PostPage(q) ==
    /\ At(q, "edit")
    /\ db' = Copied(db, req[q].mine, req[q].kind)
    /\ stale' = (stale \/ db' # db)
    /\ req' = [req EXCEPT ![q] = Idle]
    /\ UNCHANGED <<lock, tmp, out, thread, made, held, hosts, raced, uploaded, beside,
                   deploys, faults>>

(***************************************************************************)
(* deploy and randomize: the lock and the columns.                          *)
(***************************************************************************)

\* Faulty variant: the lock is set, and nobody looks at it.
TestNothing(q, k) ==
    /\ At(q, "idle")
    /\ deploys < MaxDeploys
    /\ deploys' = deploys + 1
    /\ req' = [req EXCEPT ![q].pc = "lock", ![q].kind = k]
    /\ raced' = (raced \/ \E p \in Deployers : At(p, "lock"))
    /\ UNCHANGED <<lock, db, tmp, out, thread, made, held, hosts, uploaded, beside, stale, faults>>

\* A request that finds the lock set answers and changes nothing.  One that finds
\* it free while another is about to set it has come through the gap.
TestLock(q, k) ==
    /\ At(q, "idle")
    /\ ~lock
    /\ deploys < MaxDeploys
    /\ deploys' = deploys + 1
    /\ req' = [req EXCEPT ![q].pc = "lock", ![q].kind = k]
    /\ raced' = (raced \/ \E p \in Deployers : At(p, "lock"))
    /\ UNCHANGED <<lock, db, tmp, out, thread, made, held, hosts, uploaded, beside, stale, faults>>

SetLock(q) ==
    /\ At(q, "lock")
    /\ lock' = TRUE
    /\ Goto(q, "read")
    /\ UNCHANGED <<db, tmp, out, thread, made, held, hosts, history>>

\* optimize dumps the columns into files, randomize takes them as they are.
ReadColumn(q) ==
    /\ At(q, "read")
    /\ IF req[q].kind = "randomize"
       THEN /\ NextColumn(q, "solve", Copied(req[q].mine, db, Here(q)))
            /\ UNCHANGED tmp
       ELSE /\ NextColumn(q, "load", req[q].mine)
            /\ tmp' = Copied(tmp, db, Here(q))
    /\ UNCHANGED <<lock, db, out, thread, made, held, hosts, history>>

\* Faulty variant: optim.py is given the names of the updated files.
LoadUpdated(q) ==
    /\ At(q, "load")
    /\ NextColumn(q, "solve", Copied(req[q].mine, out, Here(q)))
    /\ UNCHANGED <<lock, db, tmp, out, thread, made, held, hosts, history>>

\* optim.py is started and reads the files.
LoadFile(q) ==
    /\ At(q, "load")
    /\ NextColumn(q, "solve", Copied(req[q].mine, tmp, Here(q)))
    /\ UNCHANGED <<lock, db, tmp, out, thread, made, held, hosts, history>>

(***************************************************************************)
(* optim.py: optimize and random_spread; the middle of randomize.           *)
(***************************************************************************)

\* k new instances of every known dependency, as far as the bound goes.
Fresh(known, k) ==
    {i \in Instances : i[1] \in known /\ i[2] > made[i[1]] /\ i[2] <= made[i[1]] + k}

Count(known, k) ==
    made' = [d \in Deps |-> IF d \notin known THEN made[d]
                            ELSE IF made[d] + k <= MaxInstances THEN made[d] + k
                            ELSE MaxInstances]

\* update_rnodes and update_snodes leave out what a node has already.
NewTold(shards, told, r, draw, holders) ==
    shards \cup
    {[piece |-> n, registered |-> FALSE, cid |-> FALSE,
      at |-> IF draw[<<r, n>>] \in holders[n] THEN draw[<<r, n>>]
             ELSE CHOOSE s \in SNodes : s \in holders[n]]
        : n \in {m \in told : \A e \in shards : e.piece # m}}

NewHeld(shards, pieces) ==
    shards \cup {[piece |-> n, pushed |-> FALSE]
                    : n \in {m \in pieces : \A e \in shards : e.piece # m}}

\* Everything everywhere: create_instance, then update_rnodes and update_snodes
\* with simple.
Spread(q, k, following) ==
    LET mine == req[q].mine
        new == Fresh(mine.deps.known, k)
        pieces == (mine.deps.instances \cup new) \X Pieces
        anywhere == [n \in Names |-> SNodes]
    IN /\ \A d \in mine.deps.known : made[d] + k <= MaxInstances
       /\ Count(mine.deps.known, k)
       /\ \E draw \in Draws :
             req' = [req EXCEPT
                ![q].pc = following,
                ![q].mine.deps.instances = @ \cup new,
                ![q].mine.rnodes = [r \in RNodes |-> NewTold(@[r], pieces, r, draw, anywhere)],
                ![q].mine.snodes = [s \in SNodes |-> NewHeld(@[s], pieces)]]

SolveSimple(q) ==
    /\ At(q, "solve")
    /\ \/ req[q].kind = "simple" /\ Spread(q, NumRNodes, "emit")
       \/ req[q].kind = "randomize" /\ Spread(q, 1, "take")
    /\ UNCHANGED <<lock, db, tmp, out, thread, held, hosts, history>>

\* "if shard already exists, set to true": add(var is True) adds Python's False.
Refuted(m) ==
    \/ \E r \in RNodes : InstancesOf({e.piece : e \in m.rnodes[r]}) \cap m.deps.instances # {}
    \/ \E s \in SNodes :
          InstancesOf({e.piece : e \in {x \in m.snodes[s] : x.pushed}}) \cap m.deps.instances # {}

\* A model without variables is false for Python, like no model.
Solvable(m) ==
    /\ m.deps.instances # {}
    /\ ~Refuted(m)
    /\ \E told \in Told(m.deps.known, m.deps.instances) :
          \E holding \in Held(told, m.deps.instances) : TRUE

\* Any model of the rules may be found; what the nodes lack of it is added.
Solve(q) ==
    LET mine == req[q].mine
    IN /\ At(q, "solve") /\ req[q].kind = "deploy"
       /\ Solvable(mine)
       /\ \E p \in Placements(mine.deps.known, mine.deps.instances), draw \in Draws :
             LET holders == [n \in Names |-> {s \in SNodes : n \in HeldPieces(p, s)}]
             IN req' = [req EXCEPT
                   ![q].pc = "emit",
                   ![q].mine.rnodes =
                       [r \in RNodes |-> NewTold(@[r], ToldPieces(p, r), r, draw, holders)],
                   ![q].mine.snodes = [s \in SNodes |-> NewHeld(@[s], HeldPieces(p, s))]]
       /\ UNCHANGED <<lock, db, tmp, out, thread, made, held, hosts, history>>

\* while not (m.check() and m.model()): an instance of every dependency for every
\* race node, and again.  Past the bound, rounds differ in their parity alone.
CreateMore(q) ==
    LET mine == req[q].mine
    IN /\ At(q, "solve") /\ req[q].kind = "deploy"
       /\ ~Solvable(mine)
       /\ Count(mine.deps.known, NumRNodes)
       /\ req' = [req EXCEPT
             ![q].mine.deps.instances = @ \cup Fresh(mine.deps.known, NumRNodes),
             ![q].round = 1 - @]
       /\ UNCHANGED <<lock, db, tmp, out, thread, held, hosts, history>>

EmitFile(q) ==
    /\ At(q, "emit")
    /\ out' = Copied(out, req[q].mine, Here(q))
    /\ NextColumn(q, "take", req[q].mine)
    /\ UNCHANGED <<lock, db, tmp, thread, made, held, hosts, history>>

\* Faulty variant: the files and the columns are listed in different orders.
TakeOtherColumn(q) ==
    /\ At(q, "take")
    /\ db' = [db EXCEPT ![Here(q)] = out[Column[5 - req[q].col]]]
    /\ NextColumn(q, "push", IF req[q].col < 4 THEN req[q].mine ELSE EmptyColumns)
    /\ UNCHANGED <<lock, tmp, out, thread, made, held, hosts, history>>

\* The updated columns replace those in the data base, whatever these are now.
TakeColumn(q) ==
    /\ At(q, "take")
    /\ db' = Copied(db, IF req[q].kind = "randomize" THEN req[q].mine ELSE out, Here(q))
    /\ NextColumn(q, "push", IF req[q].col < 4 THEN req[q].mine ELSE EmptyColumns)
    /\ UNCHANGED <<lock, tmp, out, thread, made, held, hosts, history>>

(***************************************************************************)
(* push_to_snodes.                                                          *)
(***************************************************************************)

Unpushed(shards) == {e \in shards : ~e.pushed}

Flagged(shards, pieces) ==
    {IF e.piece \in pieces THEN [e EXCEPT !.pushed = TRUE] ELSE e : e \in shards}

StartThreads(q) ==
    /\ At(q, "push")
    /\ req' = [req EXCEPT ![q].pc = "pushing", ![q].mine = Copied(EmptyColumns, db, "snodes")]
    /\ thread' = [c \in Tasks |-> IF c[1] = q THEN "running" ELSE thread[c]]
    /\ UNCHANGED <<lock, db, tmp, out, made, held, hosts, history>>

\* A task goes on when another one has failed and the request is gone.
Running(q, s, method) ==
    /\ thread[<<q, s>>] = "running"
    /\ Method[s] = method

\* The first shard that is not pushed, in the order of the list.
NextPiece(q, s) == (CHOOSE e \in Unpushed(req[q].mine.snodes[s]) : TRUE).piece

Live(q, s) == <<q, s, 0>>

\* The request waits for the host, without a timeout.
PostShard(q, s) ==
    /\ Running(q, s, "https")
    /\ Unpushed(req[q].mine.snodes[s]) # {}
    /\ SH!Receive(Live(q, s), s, NextPiece(q, s))
    /\ thread' = [thread EXCEPT ![<<q, s>>] = "posting"]
    /\ UNCHANGED <<lock, db, tmp, out, req, made, held, history>>

\* The task takes its piece for pushed, whatever the answer.
Posted(q, s) ==
    /\ thread[<<q, s>>] = "posting"
    /\ thread' = [thread EXCEPT ![<<q, s>>] = "running"]
    /\ req' = [req EXCEPT ![q].mine.snodes[s] = Flagged(@, {post[Live(q, s)].name})]

\* Faulty variant: a shard that was not created is posted again.
ShardAnsweredOrAgain(q, s) ==
    /\ \/ SH!Write(Live(q, s)) /\ Posted(q, s)
       \/ /\ SH!Conflict(Live(q, s))
          /\ thread' = [thread EXCEPT ![<<q, s>>] = "running"]
          /\ UNCHANGED req
    /\ UNCHANGED <<lock, db, tmp, out, made, held, history>>

ShardAnswered(q, s) ==
    /\ SH!Write(Live(q, s)) \/ SH!Conflict(Live(q, s))
    /\ Posted(q, s)
    /\ UNCHANGED <<lock, db, tmp, out, made, held, history>>

\* Steps of the host that the task does not see.  The host also works off the
\* requests of tasks that are no more, beside new ones for the same file.
HostStep(q, s) ==
    /\ \/ SH!Check(Live(q, s))
       \/ SH!Open(Live(q, s))
       \/ \E f \in 1 .. MaxFaults :
             \/ SH!Check(<<q, s, f>>)
             \/ SH!Open(<<q, s, f>>)
             \/ SH!Write(<<q, s, f>>)
             \/ SH!Conflict(<<q, s, f>>)
    /\ UNCHANGED <<lock, db, tmp, out, req, thread, made, held, history>>

Fault == faults < MaxFaults /\ faults' = faults + 1

\* The failure at hand takes the clients of tasks away from the host's threads.
SetAdrift(tasks) ==
    post' = [c \in Connections |->
                IF <<c[1], c[2]>> \notin tasks THEN post[c]
                ELSE IF c[3] = 0 THEN SH!NoPost
                ELSE IF c[3] = faults + 1 THEN post[Live(c[1], c[2])]
                ELSE post[c]]

\* Faulty variant: the exception is caught and logged.
ShardFailsUnseen(q, s) ==
    /\ Fault
    /\ Posted(q, s)
    /\ post' = [post EXCEPT ![Live(q, s)] = SH!NoPost]
    /\ UNCHANGED <<lock, db, tmp, out, made, held, file, severed, raced, uploaded, beside, stale, deploys>>

\* requests.post raises: the request has not reached the host, or the host works
\* on it all the same.
ShardFails(q, s) ==
    /\ Fault
    /\ thread[<<q, s>>] = "posting"
    /\ thread' = [thread EXCEPT ![<<q, s>>] = "failed"]
    /\ \/ SetAdrift({<<q, s>>})
       \/ post[Live(q, s)].pc = "check" /\ post' = [post EXCEPT ![Live(q, s)] = SH!NoPost]
    /\ UNCHANGED <<lock, db, tmp, out, req, made, held, file, severed, raced, uploaded, beside, stale, deploys>>

\* push_to_snode_ipfs adds the pieces in one go; every piece gets its CID.
PushIpfs(q, s) ==
    LET pieces == {e.piece : e \in Unpushed(req[q].mine.snodes[s])}
    IN /\ Running(q, s, "ipfs")
       /\ file' = [file EXCEPT ![s] = [n \in Names |-> IF n \in pieces THEN "whole" ELSE @[n]]]
       /\ req' = [req EXCEPT ![q].mine.snodes[s] = Flagged(@, pieces)]
       /\ thread' = [thread EXCEPT ![<<q, s>>] = "done"]
       /\ UNCHANGED <<lock, db, tmp, out, made, held, post, severed, history>>

IpfsFails(q, s) ==
    /\ Fault
    /\ Running(q, s, "ipfs")
    /\ Unpushed(req[q].mine.snodes[s]) # {}
    /\ thread' = [thread EXCEPT ![<<q, s>>] = "failed"]
    /\ UNCHANGED <<lock, db, tmp, out, req, made, held, hosts, raced, uploaded, beside, stale, deploys>>

ThreadEnds(q, s) ==
    /\ Running(q, s, "https")
    /\ Unpushed(req[q].mine.snodes[s]) = {}
    /\ thread' = [thread EXCEPT ![<<q, s>>] = "done"]
    /\ UNCHANGED <<lock, db, tmp, out, req, made, held, hosts, history>>

\* The results are in, of every node.
CollectResults(q) ==
    /\ At(q, "pushing")
    /\ \A s \in SNodes : thread[<<q, s>>] = "done"
    /\ db' = Copied(db, req[q].mine, "snodes")
    /\ thread' = [c \in Tasks |-> IF c[1] = q THEN None ELSE thread[c]]
    /\ req' = [req EXCEPT ![q].mine = EmptyColumns,
                          ![q].pc = IF req[q].kind = "randomize" THEN "register" ELSE "merge"]
    /\ UNCHANGED <<lock, tmp, out, made, held, hosts, history>>

\* Faulty variant: a failed task is passed over.
PushRaisesUnseen(q) ==
    /\ At(q, "pushing")
    /\ \E s \in SNodes : thread[<<q, s>>] = "failed"
    /\ db' = Copied(db, req[q].mine, "snodes")
    /\ req' = [req EXCEPT ![q].mine = EmptyColumns,
                          ![q].pc = IF req[q].kind = "randomize" THEN "register" ELSE "merge"]
    /\ UNCHANGED <<lock, tmp, out, thread, made, held, hosts, history>>

\* results[n].get() raises in the request, which has the lock: all pushed flags
\* are lost, and the lock stays set.
PushRaises(q) ==
    /\ At(q, "pushing")
    /\ \E s \in SNodes :
          /\ thread[<<q, s>>] = "failed"
          /\ \A n \in 1 .. (s - 1) : thread[<<q, n>>] = "done"
    /\ Goto(q, "dead")
    /\ UNCHANGED <<lock, db, tmp, out, thread, made, held, hosts, history>>

(***************************************************************************)
(* "Ugly, but gets the job done": the CIDs are copied to the race nodes.    *)
(***************************************************************************)

\* The shards of the server nodes that an entry of a race node is compared with.
Matches(e, s, m) == {x \in m.snodes[s] : x.piece = e.piece}

\* A match without a CID, at a node that is not IPFS: KeyError.
NoCid(m) ==
    \E r \in RNodes : \E e \in m.rnodes[r] :
        /\ Method[e.at] = "ipfs"
        /\ \E s \in SNodes : \E x \in Matches(e, s, m) : Method[s] # "ipfs" \/ ~x.pushed

WithCids(m) ==
    [r \in RNodes |->
        {[e EXCEPT !.cid = @ \/ (Method[e.at] = "ipfs" /\ \E s \in SNodes : Matches(e, s, m) # {})]
            : e \in m.rnodes[r]}]

ReadForMerge(q) ==
    \/ /\ At(q, "merge")
       /\ req' = [req EXCEPT ![q].pc = "mergeSnodes",
                             ![q].mine = Copied(EmptyColumns, db, "rnodes")]
    \/ /\ At(q, "mergeSnodes")
       /\ LET read == Copied(req[q].mine, db, "snodes")
          IN req' = IF NoCid(read)
                    THEN [req EXCEPT ![q] = [Idle EXCEPT !.pc = "dead"]]
                    ELSE [req EXCEPT ![q].pc = "mergeWrite",
                                     ![q].mine = [read EXCEPT !.rnodes = WithCids(read)]]

Merge(q) ==
    /\ ReadForMerge(q)
    /\ UNCHANGED <<lock, db, tmp, out, thread, made, held, hosts, history>>

WriteMerged(q) ==
    /\ \/ /\ At(q, "mergeWrite")
          /\ db' = Copied(db, req[q].mine, "rnodes")
          /\ Goto(q, "mergeWriteSnodes")
       \/ /\ At(q, "mergeWriteSnodes")
          /\ db' = Copied(db, req[q].mine, "snodes")
          /\ req' = [req EXCEPT ![q].pc = "register", ![q].mine = EmptyColumns]
    /\ UNCHANGED <<lock, tmp, out, thread, made, held, hosts, history>>

(***************************************************************************)
(* push_to_registries, and what a registry does with an entry.              *)
(***************************************************************************)

\* The continue for a race node whose registry is not listed is that of the inner
\* loop: r is left at the last one.
Target(r) == IF Registry[r] \in Regs THEN Registry[r] ELSE NumRegs

\* What there is to register: a registry with another method gets nothing.
InstancesAt(m, r) ==
    IF Target(r) \in HttpsRegs THEN InstancesOf({e.piece : e \in m.rnodes[r]}) ELSE {}

ReadForRegister(q) ==
    /\ \/ /\ At(q, "register")
          /\ req' = [req EXCEPT ![q].pc = "registerRegs", ![q].mine = Copied(EmptyColumns, db, "rnodes")]
       \/ /\ At(q, "registerRegs")
          /\ req' = [req EXCEPT ![q].pc = "registering",
                                ![q].mine = Copied(@, db, "regs"),
                                ![q].node = 1,
                                ![q].left = InstancesAt(req[q].mine, 1)]
    /\ UNCHANGED <<lock, db, tmp, out, thread, made, held, hosts, history>>

\* Faulty variant: the shards of other instances are registered along.
DueOfAny(q, i) ==
    {e \in req[q].mine.rnodes[req[q].node] : ~e.registered \/ req[q].kind = "randomize"}

Due(q, i) ==
    {e \in req[q].mine.rnodes[req[q].node] :
        e.piece[1] = i /\ (~e.registered \/ req[q].kind = "randomize")}

Known(q, i) ==
    i \in req[q].mine.regs[Target(req[q].node)] /\ req[q].kind # "randomize"

SkipKnown(q, i) ==
    /\ At(q, "registering")
    /\ i \in req[q].left /\ Known(q, i)
    /\ req' = [req EXCEPT ![q].left = @ \ {i}]
    /\ UNCHANGED <<lock, db, tmp, out, thread, made, held, hosts, history>>

\* An IPFS location needs the CID, which randomize never copies: KeyError.
NoCidToRegister(q, i) ==
    /\ At(q, "registering")
    /\ i \in req[q].left /\ ~Known(q, i)
    /\ \E e \in Due(q, i) : Method[e.at] = "ipfs" /\ ~e.cid
    /\ req' = [req EXCEPT ![q] = [Idle EXCEPT !.pc = "dead"]]
    /\ UNCHANGED <<lock, db, tmp, out, thread, made, held, hosts, history>>

\* The registry inserts under a primary key: the first entry of a name stays.  An
\* entry without locations has the empty name.
Stowed(g, i, due) ==
    [held EXCEPT ![g][i[1]] =
        IF @ # {} \/ due = {} THEN @ ELSE {<<e.at, e.piece>> : e \in due}]

PostEntry(q, i) ==
    LET due == Due(q, i)
        g == Target(req[q].node)
    IN /\ At(q, "registering")
       /\ i \in req[q].left /\ ~Known(q, i)
       /\ \A e \in due : Method[e.at] = "ipfs" => e.cid
       /\ held' = Stowed(g, i, due)
       /\ req' = [req EXCEPT
             ![q].left = @ \ {i},
             ![q].mine.regs[g] = @ \cup {i},
             ![q].mine.rnodes[req[q].node] =
                 (@ \ due) \cup {[e EXCEPT !.registered = TRUE] : e \in due}]
       /\ UNCHANGED <<lock, db, tmp, out, thread, made, hosts, history>>

\* requests.post raises, before or after the registry has the entry.
EntryFails(q, i) ==
    /\ Fault
    /\ At(q, "registering")
    /\ i \in req[q].left /\ ~Known(q, i)
    /\ \A e \in Due(q, i) : Method[e.at] = "ipfs" => e.cid
    /\ held' \in {held, Stowed(Target(req[q].node), i, Due(q, i))}
    /\ req' = [req EXCEPT ![q] = [Idle EXCEPT !.pc = "dead"]]
    /\ UNCHANGED <<lock, db, tmp, out, thread, made, hosts, raced, uploaded, beside, stale, deploys>>

NextNode(q) ==
    /\ At(q, "registering")
    /\ req[q].left = {}
    /\ IF req[q].node < NumRNodes
       THEN req' = [req EXCEPT ![q].node = @ + 1,
                               ![q].left = InstancesAt(req[q].mine, req[q].node + 1)]
       ELSE Goto(q, "registered")
    /\ UNCHANGED <<lock, db, tmp, out, thread, made, held, hosts, history>>

WriteRegistered(q) ==
    /\ \/ /\ At(q, "registered")
          /\ db' = Copied(db, req[q].mine, "rnodes")
          /\ Goto(q, "registeredRegs")
       \/ /\ At(q, "registeredRegs")
          /\ db' = Copied(db, req[q].mine, "regs")
          /\ Goto(q, "unlock")
    /\ UNCHANGED <<lock, tmp, out, thread, made, held, hosts, history>>

Unlock(q) ==
    /\ At(q, "unlock")
    /\ lock' = FALSE
    /\ req' = [req EXCEPT ![q] = Idle]
    /\ UNCHANGED <<db, tmp, out, thread, made, held, hosts, history>>

(***************************************************************************)
(* Failures.                                                                *)
(***************************************************************************)

\* optim.py exits with an error: check_output raises in the request.  So does
\* create_instance in randomize.
OptimizeRaises(q) ==
    /\ Fault
    /\ At(q, "load") \/ At(q, "solve") \/ At(q, "emit")
    /\ req' = [req EXCEPT ![q] = [Idle EXCEPT !.pc = "dead"]]
    /\ UNCHANGED <<lock, db, tmp, out, thread, made, held, hosts, raced, uploaded, beside, stale, deploys>>

\* The server is started anew; the columns and the files stay, and the hosts find
\* out when they read from their connections.
Restart ==
    /\ Fault
    /\ lock' = FALSE
    /\ req' = [q \in Requests |-> Idle]
    /\ thread' = [c \in Tasks |-> None]
    /\ SetAdrift(Tasks)
    /\ UNCHANGED <<db, tmp, out, made, held, file, severed, raced, uploaded, beside, stale, deploys>>

\* A host that has lost its client.
Orphaned(q, s) ==
    /\ \E f \in 1 .. MaxFaults : SH!Sever(<<q, s, f>>)
    /\ UNCHANGED <<lock, db, tmp, out, req, thread, made, held, history>>

TaskStep(q, s) ==
    \/ PostShard(q, s)
    \/ PushIpfs(q, s)
    \/ ThreadEnds(q, s)

Pushing(q, s) ==
    \/ TaskStep(q, s)
    \/ ShardAnswered(q, s)
    \/ HostStep(q, s)

Deploying(q) ==
    \/ SetLock(q)
    \/ ReadColumn(q)
    \/ LoadFile(q)
    \/ SolveSimple(q)
    \/ Solve(q)
    \/ CreateMore(q)
    \/ EmitFile(q)
    \/ TakeColumn(q)
    \/ StartThreads(q)
    \/ CollectResults(q)
    \/ PushRaises(q)
    \/ Merge(q)
    \/ WriteMerged(q)
    \/ ReadForRegister(q)
    \/ \E i \in Instances : SkipKnown(q, i) \/ NoCidToRegister(q, i) \/ PostEntry(q, i)
    \/ NextNode(q)
    \/ WriteRegistered(q)
    \/ Unlock(q)

Failing(q) ==
    \/ \E s \in SNodes : ShardFails(q, s) \/ IpfsFails(q, s) \/ Orphaned(q, s)
    \/ \E i \in Instances : EntryFails(q, i)
    \/ OptimizeRaises(q)

Next ==
    \/ \E q \in Uploaders : ReadForUpload(q) \/ \E d \in Deps : WriteUpload(q, d)
    \/ \E q \in Editors : PostPage(q) \/ \E c \in EditColumns : ShowPage(q, c)
    \/ \E q \in Deployers, k \in Kinds : TestLock(q, k)
    \/ \E q \in Deployers : Deploying(q) \/ Failing(q)
    \/ \E q \in Deployers, s \in SNodes : Pushing(q, s)
    \/ Restart

Spec == Init /\ [][Next]_vars

\* A task waits for its node, which has the shards of an IPFS node at once.
TaskWaits(q, s) ==
    \/ thread[<<q, s>>] = "posting"
    \/ Running(q, s, "ipfs") /\ Unpushed(req[q].mine.snodes[s]) # {}

\* The request waits for the first task whose result is not in, and that for its
\* node; or it may wait for a registry.
HeldUp(q) ==
    \/ /\ At(q, "pushing")
       /\ \E s \in SNodes :
             TaskWaits(q, s) /\ \A n \in 1 .. (s - 1) : thread[<<q, n>>] = "done"
    \/ /\ At(q, "registering")
       /\ \E i \in req[q].left :
             ~Known(q, i) /\ \A e \in Due(q, i) : Method[e.at] = "ipfs" => e.cid

\* A request's thread runs on, and so do its tasks, as long as they do not wait for
\* another process: no request to a host or a registry has a timeout.
FairSpec ==
    /\ Spec
    /\ \A q \in Deployers : WF_vars(~HeldUp(q) /\ Deploying(q))
    /\ \A q \in Deployers, s \in SNodes : WF_vars(~TaskWaits(q, s) /\ TaskStep(q, s))

\* Where the hosts and the registries answer.
AnsweringPeersSpec ==
    /\ Spec
    /\ \A q \in Deployers : WF_vars(Deploying(q))
    /\ \A q \in Deployers, s \in SNodes : WF_vars(Pushing(q, s))

(***************************************************************************)
(* Properties.                                                             *)
(***************************************************************************)

Stages == {"idle", "upload", "edit", "lock", "read", "load", "solve", "emit", "take",
           "push", "pushing", "merge", "mergeSnodes", "mergeWrite", "mergeWriteSnodes",
           "register", "registerRegs", "registering", "registered", "registeredRegs",
           "unlock", "dead"}

Request == [pc : Stages, kind : Kinds \cup EditColumns \cup {None}, col : 1 .. 4,
            mine : Columns, node : RNodes, left : SUBSET Instances, round : {0, 1}]

\* Every copy of the columns is well formed at every time.
TypeOK ==
    /\ lock \in BOOLEAN
    /\ db \in Columns /\ tmp \in Columns /\ out \in Columns
    /\ req \in [Requests -> Request]
    /\ thread \in [Tasks -> {None, "running", "posting", "failed", "done"}]
    /\ made \in [Deps -> 0 .. MaxInstances]
    /\ held \in [Regs -> [Deps -> SUBSET (SNodes \X Names)]]
    /\ SH!HostTypeOK
    /\ raced \in BOOLEAN /\ stale \in BOOLEAN
    /\ uploaded \subseteq Deps /\ beside \subseteq uploaded
    /\ deploys \in 0 .. MaxDeploys /\ faults \in 0 .. MaxFaults

Inside(q) == req[q].pc \notin {"idle", "upload", "edit", "lock", "dead"}

\* The gap between the test of deploy_lock and its setting is the only way for two
\* deployments to run at once; one that has failed keeps all others out.
LockHeld ==
    ~raced => \A p \in Deployers :
                 /\ Inside(p) \/ At(p, "dead") => lock
                 /\ Inside(p) => \A q \in Deployers \ {p} : ~Inside(q) /\ ~At(q, "dead")

\* A shard counts as pushed only if the host has a file of its name, whatever
\* failed; a host that refuses a POST because it has a part of it counts too.
PushedIsThere ==
    \A s \in SNodes : \A e \in db.snodes[s] : e.pushed => file[s][e.piece] # "absent"

\* What a registry hands out for a dependency are the blob and Need shards or more
\* of one instance, where it says.  Each file is whole there, unless a POST of it
\* broke off: then the part that came first stays, and is handed out.
HandedOutIsThere ==
    ~raced /\ ~stale =>
        \A g \in Regs, d \in Deps : held[g][d] # {} =>
            \E i \in Instances :
                /\ i[1] = d
                /\ {l[2][1] : l \in held[g][d]} = {i}
                /\ <<i, Blob>> \in {l[2] : l \in held[g][d]}
                /\ Cardinality({l \in held[g][d] : l[2][2] # Blob}) >= Need
                /\ \A l \in held[g][d] :
                      \/ file[l[1]][l[2]] = "whole"
                      \/ file[l[1]][l[2]] = "cut" /\ SH!Excused(l[1], l[2])

\* A host keeps a part of a file only of a request that broke off.
CutIsExcused == SH!CutIsExcused

\* An upload is lost to nothing but a request that had read the column before.
UndisturbedUploadStays == ~raced => uploaded \ beside \subseteq db.deps.known

\* The two reasons for the optimiser to go round for ever.
Looping(q) ==
    /\ At(q, "solve") /\ req[q].kind = "deploy"
    /\ req[q].mine.deps.known = {} \/ Refuted(req[q].mine)

AtBound(q) == At(q, "solve") /\ \E d \in req[q].mine.deps.known : made[d] + NumRNodes > MaxInstances

\* A deployment ends, by success or failure, is caught in the loop, or waits for ever
\* for a server node or a registry: it is held up by nothing else.
EndsLoopsOrWaits ==
    \A q \in Deployers :
        Inside(q) ~> (~Inside(q) \/ Looping(q) \/ AtBound(q) \/ []HeldUp(q))

\* "if shard already exists, set to true": a deployment ends, the second one too.
DeployEnds == \A q \in Deployers : Inside(q) ~> ~Inside(q)
=============================================================================
