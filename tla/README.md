# Slothy in TLA+

Slothy distributes RACE artifacts (runtime code). An artifact is encrypted, the
small metadata file that holds its key is encrypted and cut into shards, and all
of it is put on server nodes; a registry says where. This directory models that
program, checks the models with TLC and proves theorems about them with TLAPS.

## The system

| part | where | state it keeps | operations | talks to |
|---|---|---|---|---|
| plugin, request/reply core | `artifact-manager-plugin/src/interfaces/amp`, and the same code in `interfaces/race` | `return_queue` and its lock, `await_mtx`, `await_blocker` | `acquireArtifact`, `receiveAmpMessage` | the registry, by RACE messages through the SDK |
| plugin, download | `slothy.cpp`, `download.cpp`, `shard.cpp`, `util/` | one file per shard, a thread per shard, the destination file | `download_artifact` | shard hosts, over HTTPS |
| registry, web server | `registry-client/src/http` | `threadPool`, `shouldStop`, two locks, listening socket | `run`, `kill`, `handleClient` | the database; the sharding server posts to it |
| registry, database | `registry-client/src/db` | one SQLite file and a connection to it, `dbLock` | `tryCreateTable`, `storeShardEntry`, `shardExists`, `getShardData` | both front ends of the registry |
| registry, RACE side | `registry-client/src/race` | none of its own | `handleReceivedMessage` | the database; answers the plugin |
| registry, life cycle | `registry.cpp`, `main.cpp` | `isRunning`, `useRACE` | `start`, `run`, `stop`, SIGINT | web server, RACE side |
| sharding server, pages | `shard-sharding-server/src/pages/views.py`, `optimize/util.py` | four JSON columns, `deploy_lock`, files in `/tmp` and `media` | `upload`, `deploy`, `deploy/simple`, `randomize`, configuration pages | the optimiser, shard hosts, IPFS, the registry |
| sharding server, optimiser | `scatterlib/optim.py` | none between two calls | `optimize`, `random_spread`, `create_instance` | reads and writes the pages' files |
| shard host | `shard-host-server` | a directory of files | `do_POST`, GET | the sharding server and the plugin |

The path of an artifact: `upload` and `deploy` on the sharding server put shards
on the hosts and POST the list of their URLs to the registry's web server, which
stores it under the artifact's name. A node's `acquireArtifact` sends the name to
the registry; the registry's answer arrives in a callback on another thread and
is handed over through `return_queue`; `download_artifact` fetches the shards by
one thread each, puts the metadata together, fetches the encrypted artifact,
decrypts it and writes it to its destination.

`src/README.md:22` says that "the current shard-pushing logic does not function
properly"; the model has what it does. A push that failed half way can leave a part
of a file on a host, which the host keeps and the sharding server then takes for
the file (see `ShardHost`), and a second optimised deployment never ends
(`deploy_again`).

What is hard, part by part (PROJECT.json lists each hazard at its line):

* **request/reply core**: a condition variable whose `wait` has no predicate, two
  mutexes locked by hand, erasures in an index loop over a queue that several
  calls share, replies that come in any order or not at all. Right if a call
  returns a whole record of its own artifact, no reply is lost or used twice, the
  locks are released on every path, and an answered call returns.
* **download**: n threads that may fail to start, hosts that may serve anything,
  cut at any length, or nothing, results of library calls that are dropped. Right
  if nothing reads a file before its thread has ended, key and ciphertext belong
  together, what is put together is the whole file, it ends unless a host stalls
  (a request has no time limit once connected), k shards of n suffice, and the
  destination gets the artifact.
* **web server and life cycle**: handlers that end before they are registered, or
  never, a shutdown that joins them, signals that nobody sees. Right if the pool
  has every live handler, no handler outlives `kill` or the process's regular
  exit, and a process that begins to stop does, unless a silent client or the lock
  holds it up.
* **database**: statements committed one by one, a crash between any two, a
  connection whose schema in memory is not that of the file, two critical sections
  per lookup. Right if an entry stays as it is and survives restarts, and a start
  leaves a complete schema.
* **sharding server**: JSON columns that concurrent requests read, change and
  write back as a whole, a lock that is a variable, tasks that push to nodes and
  fail half way, a restart at any point, requests without a timeout, a solver loop
  with no bound. Right if no upload is lost, two deployments do not overlap, a shard
  on record as pushed is on its host, what is registered is there and whole, and a
  deployment ends.
* **shard host**: a file that is tested for, created and then written, by threads
  that know nothing of each other. Right if a file that is there is whole.

## Modules

| module | what it is | composes with |
|---|---|---|
| `Mailbox` | what the request/reply core promises, without threads | abstract |
| `AmpAwait` | the request/reply core and the registry's answer | implements `Mailbox` |
| `Sharding` | lengths of what `shard_file` makes, and what can be read from a part of it | used by `Download` |
| `Shamir` | the secret sharing of the key, `hazmat.c` | used by `Download` |
| `Download` | `download_artifact` after the record has come in | extends `Sharding`, `Shamir` |
| `HttpServer` | the web server of the registry | |
| `Registry` | the registry's process: `main`, `start`, `run`, `stop`, SIGINT | extends `HttpServer`, implements its specification |
| `RegistryDb` | the database of the registry | |
| `ShardHost` | `do_POST` of the shard hosts | instantiated by `Deploy` |
| `Placement` | the optimiser's rules as a set of placements | extended by `Deploy` |
| `Deploy` | the sharding server's requests, its pushes and registrations | `ShardHost`, `Placement` |
| `MC*` | instances for TLC | |
| `*Proofs` | theorems and proofs about the module of that name; `HandedOutProofs`: about `Deploy`, too | extends `DeployProofs` |

A definition marked "Faulty variant" is used by no action: it is a plausible bug in
the action next to it, and with it in that action's place TLC refutes a property.

### AmpAwait

Threads: one per call of `get_artifact_registry_info` (`Calls`), one per running
callback (`Receivers`). `pc` is the statement a call is about to execute:

    ask -> lock -> wait -> waiting -> woken -> lockQueue -> scan -> return -> done
                     ^                                        |
                     +------------- not filled ---------------+

`Ask` is `sendAmpMessage`, before the lock is taken. `Wait` releases `await_mtx`
and enters the wait set in one step, as condition variables do; `NotifyAll` moves
the whole wait set to `woken`, `SpuriousWakeup` one call. One step of `Scan` is
one turn of the loop over `return_queue` (`SkipEntry`, `EraseBroken`,
`TakeEntry`), `i` counts from 0 as in the code. A reply is named by the call whose
request it answers; `kind` says whether its text is a whole record, JSON with
fields missing, or plain text. `EraseBroken` at index 0 is `erase(begin() - 1)`,
which is undefined: the model lets it drop the first entry or end the process.
The actions of the callback: `Push` under `return_queue_lock`, then `NotifyAll`
without a lock. The network keeps a reply under way as long as it likes.

`Asked` is the name that the registry makes out of a request. It drops the first
eight characters, which are `"default "` if the stand-alone downloader asks; the
plugin sends the bare name, so that a longer name loses its beginning (`EndOfName`:
the rest is the name of another artifact), and a shorter one makes `substr` throw
and is not answered (`None`). The registry's answer may be text for any name: it
uses the name after the string that held it is gone (`RaceInterface.cpp:80`).

`Mailbox` has four steps (ask, deliver, take, return). The refinement maps the
queue to the set of its elements, and requests and replies under way to `pending`.
The plugin's second front end, `interfaces/race`, waits with the same code.

### Sharding, Shamir and Download

A file that comes from a host is a beginning of a shard of one of two deployments,
of some length, or noise, or nothing. `Sharding` computes, with the code's
constants as parameters, how long the parts of a shard are (`BlockSize` after
padding, `MetaBlock`, the list of hashes) and what a cut file still yields: its
share (`ShareOf`), its header and block (`HasHeader`, `HasBody`), and whether it
can be unmasked at all. `randomize_header` derives the mask from the file's length
as long as the file has fewer than `NUM_HASHES` chunks; so a cut of a short file
turns everything into noise and a cut of a long one only ends it (`Rounds`).

`Download` goes through the stages of `download_artifact` and what it calls:

    record -> spawn -> join -> split -> vote -> check -> meta (-> body) -> combine
           -> decrypt -> artifact -> write -> done

`spawn` and `join` are loops over the threads; `Attempt` is one request of one
thread. Only connecting has a time limit (`download.cpp:29`): `Stall` and
`FetchStalls` are hosts that accept and then say nothing for ever, which holds
the thread, the join and `acquireArtifact`. `Join` has the quirk that a thread
which could not be created leaves the file before it in its slot (`Twins`).
`Split` takes seed and share off a file, `SplitSpoils` and `SplitCrashes` are
what happens to one that is too short or not there. `Vote` compares pointers to
one buffer, so the last file that is long enough decides which list of hashes
counts. `Check` is `validate_shards`, `DecodeMeta` and `DecodeBody` are
`rs_unshard_fd`, whose result nobody looks at, and `Combine` is
`sss_combine_shares` over every share. Exits, failed asserts and uncaught
exceptions are `Crash`.

`Shamir` is the arithmetic behind `Combine`. The code keeps 32 bytes in eight words,
one for every bit; here there is one byte, the set of the bits that are set, so
that exclusive or is the symmetric difference. `Mul` is the loop of shifts and
additions, `Square` with its reduction and the chain of powers in `Inv` are the
code's, `CreateKeyshare` evaluates the polynomial and `CombineKeyshares`
interpolates at zero. `Restored` has the deployments whose shares, as they were
made, give their key back; `Combine` succeeds for these, if all shares are of one.
Erasure coding and hashes appear as the conditions of their success.

### HttpServer and Registry

The listening thread (`mpc`), the thread that runs `kill` (`kpc`) and a thread per
connection (`child`). A handler's `closeServerThread` is one step that needs
`plock`, since it holds the lock for one statement; the listener's joins are
steps in between which it keeps `plock`. What a failed `pthread_create` leaves
in the handle is any earlier handle or nothing. `JoinOutcomes` says what a join
does with a handle that went through `std::vector<int>`: the intended join where
handles fit, a crash where they do not; `http` allows both, and `http_kill` takes
the first. A join that returns an error for a handle cut to 32 bits, and so joins
nothing, is not among the outcomes: `KilledIsQuiet` and `ExitIsQuiet` hold for joins
that join or crash. The order of the joins is left open. Descriptors are not
modelled. `ClientStep` are a handler's steps that wait for its client: the TLS
handshake and the request, neither of which has a timeout.

`Registry` wraps every step of `HttpServer` in "the process is up and the server
was created", and adds main's thread: `Start`, the constructors' exits, the
missing pid file (which ends the process without `stop`), the set-up of RACE and
its loop, exceptions of the status thread, `Stop` (which begins `kill`) and
`Return`. Three things can be seen in it without a run. `raceregistry norace`
stops as soon as it has started, because `run` has nothing to wait for without
RACE, while the README of the registry client describes `norace` as leaving out
the RACE interface. SIGINT clears the member `isRunning`, and no step reads it:
the loop of `run` has a local of that name (`registry.cpp:60`). And the result of
`run` is dropped.

### RegistryDb

`catalog` is the schema on disk, `cache` the one in the connection's memory:
`removeAllTables` empties the first only, and every following CREATE TABLE fails
because of the second. `Open` makes them equal again. Each statement of
`tryCreateTable` is a step; `Die` may come after any of them, and while the
registry is up. The constructor drops the result of `sqlite3_open`
(`registryDatabase.cpp:17`): after `OpenFails` every statement fails, the start
passes them over and the registry is up and `"sick"`, finding and keeping
nothing. `Die` is the end of the process, external to the code. Operations are
one step each, being critical sections of `dbLock`; `reading` is the name found
by `shardExists` of a reader that has not yet called `getShardData`.
`StoreShardEntry` under a name that is taken changes nothing, and the client is
told 200 OK all the same.

### ShardHost, Placement and Deploy

`ShardHost`: a connection's thread is at `check`, `open` or `write`. `Open` makes the
file `"cut"`, also one that another thread has created since the test; `Write` makes
it `"whole"`. `Sever` is a connection that breaks while the thread reads: the part
stays, and as the file now exists, no later POST can replace it: it is answered
409, which `push_to_snode_https` counts as pushed. So a flag of the sharding server
stands for a file that is *there*, not for one that is whole, and a part that one
deployment left is registered by the next. That is a run of `deploy` with two faults
(a restart and a connection that breaks), and why `HandedOutIsThere` has two cases:
the file is whole, or cut and `Excused` (a POST of it broke off there, or is being
served).

`Placement` translates the rules of `optim.py` that `create_opt_model` adds into the
set of records (who is told of which pieces, who holds them) that satisfy them.
The solver may return any of them. Optimisation goals and the rules that nothing
calls are left out.

`Deploy`: every request is a thread with the local variables of its view
(`req[q].mine` is its copy of the columns) and a stage:

    idle -> lock -> read -> load -> solve -> emit -> take -> push -> pushing
         -> merge -> mergeSnodes -> mergeWrite -> mergeWriteSnodes
         -> register -> registerRegs -> registering
         -> registered -> registeredRegs -> unlock -> idle

| code | actions |
|---|---|
| `upload` | `ReadForUpload`, `WriteUpload` |
| configuration pages | `ShowPage`, `PostPage`: the page that is posted back holds the column as it was shown (not a POST with "json" to the pages of a deployment, see "Not modelled") |
| test and setting of `deploy_lock` | `TestLock`, `SetLock`, two steps |
| dump of the columns to `/tmp`, column by column | `ReadColumn` (into `tmp`; `randomize` keeps them in `mine`) |
| `optim.py`, started by `check_output` | `LoadFile`, `Solve`, `CreateMore`, `SolveSimple`, `EmitFile` (into `out`) |
| the updated files back into the columns | `TakeColumn` |
| `push_to_snodes`, a task per server node | `StartThreads`, `PostShard`, `ShardAnswered`, `PushIpfs`, `ThreadEnds`, `CollectResults`, `PushRaises`; `HostStep` for the hosts |
| copying the CIDs to the race nodes | `Merge`, `WriteMerged` |
| `push_to_registries` | `ReadForRegister`, `SkipKnown`, `NoCidToRegister`, `PostEntry`, `NextNode`, `WriteRegistered` |
| failures | `ShardFails`, `IpfsFails`, `EntryFails`, `OptimizeRaises`, `Orphaned`; `Restart` of the server |

A request that raises is `"dead"`; the lock it held stays set until a `Restart`,
which keeps the columns and the files and forgets the requests. Every POST is a
connection with a thread of its own at the host: `Connections` has for every
task the live one, `Live(q, s)`, and one for each failure that can take a client
away (`MaxFaults`), which `SetAdrift` moves the live one's thread to. So a host
may serve a POST of a restarted server while it still works on one from before,
of the same name, in any order. A race node's entries go to the registry it
names, or to the last of the list if it names none that is listed (`Target`),
and nowhere if that one's method is not "https" (`HttpsRegs`). `held` is what a
registry has under a dependency's name: the first entry stays, which
`RegistryDb` shows of the database (`EntriesStandWhileUp`). A shard host's file
is a name and whether it is absent, cut or whole: names hold a UUID, so that one
name never stands for two contents.

History variables: `raced` (two requests have come through the gap between test
and setting of the lock), `uploaded`, `beside` (uploaded while another request
held a copy it will write back), `stale` (an upload or a page has written back a
column that had changed). They are hypotheses of properties, because what they
record really loses data: nothing in the code guards against it.

## Runs

Passing runs:

| run | bounds | what it shows |
|---|---|---|
| `await_safety` | 3 calls, 2 of them for one artifact; 1 receiver; all kinds of answers | locks, ownership and uniqueness of replies hold even where broken records are erased wrongly |
| `await_served` | the same, whole records and "does not exist" | the code implements `Mailbox`; a call that waits when a reply is announced is served, however calls compete |
| `http` | 3 connections, with RACE and without, signals, failing set-ups | a live handler is always in the pool, none outlives `kill` or the regular exit, a process that begins to stop ends unless the listener joins a handler whose client is silent or that waits for the lock |
| `db` | 2 names, 2 entries, 2 readers, any number of crashes and of files that do not open | found rows stay, entries stand, a complete schema survives, three uncut starts complete it |
| `download` | 3 shards, 2 required, 2 attempts, two deployments, files whole or cut, hosts that stall, threads that fail to start | no thread behind the splitting, key and ciphertext agree, what is put together is whole, whole shards suffice, it ends unless it waits for a host that has stalled |
| `deploy` | 2 deployments of any kind one after the other, an upload, 2 faults anywhere; 2 shards of which 1 is needed; an IPFS node and a shard host | pushed shards are there; what registries hand out is complete and where they say, whole unless a POST of it broke off; parts of files have an excuse; uploads stay; a deployment ends, dies, waits for a host or a registry, or loops in the solver for one of two reasons |
| `deploy_lock` | 2 deployers at once, an upload, an edited page, 1 fault; 2 race nodes, 1 host | the lock keeps deployments apart but for the gap, also after one has died with it; uploads stay and entries are complete beside the other requests |

Why these bounds: three calls are two that compete for the same replies and one
that must be left alone, and give a queue of length three, where erasing has a
first, a middle and a last place. Three connections allow one that is being
accepted, one that is served and one that has ended while the listener reaps.
The database's start does not depend on names or entries; two of each give
collisions.

`download` takes the code's lengths (digest 16, share 113, seed 32, 100 hashes) with
a threshold of 2 of 3 and `MetaSize` 256 = 2 * 128, so that a block of metadata has
the length that `validate_shards` expects. That length, 128, is a literal in
`rs_shard.cpp:648`: with 1024 bytes of metadata only a threshold of 8 agrees with
it, whatever threshold the caller asks for (`MetaIsPlain`). The new deployment is
longer than what the mask depends on, the old one is not, and `NewCuts` and
`OldCuts` have a length on either side of every boundary a cut can fall on: in the
seed, in the share, at the last chunk of the mask, in the block, in the hashes.
Three shards with a threshold of two make "enough", "too few" and "all" different.

`deploy`: the second deployment finds instances of the first, registered or half
registered. One race node and two server nodes of different kinds are what the
CID copying and the exceptions need; `deploy_lock` has the second race node. A
fault is a restart, or an exception in the solver, a push or a registration; a
host's connection may then break any time. Two faults let a deployment be cut off,
another one meet what the first left, and fail in its turn; two shards with `Need` 1
make "enough" differ from "all". `deploy_lock` checks states in which two requests have
come through the gap but does not go on from them (`CONSTRAINT Unraced`): all its
properties assume `~raced`, which never comes back once it is gone. `MaxInstances` is
what two deployments create. `Draws` fixes the
order in which a node tries its server nodes: another choice changes which node
is named and nothing else. Counters: `tries` is bounded by the code, `cleanStarts`
saturates at the 3 its property needs, `deploys` and `faults` by `MaxDeploys` and
`MaxFaults`; the rounds of the solver beyond `MaxInstances` repeat (`AtBound`).

Runs in which TLC finds what a comment says to be untrue of the code:

| run | what is said | what happens |
|---|---|---|
| `await_lost_wakeup` | "Await the returned message, blocking until we get it" | the reply is queued and announced between `sendAmpMessage` and `wait`; nobody looks at the queue again |
| `await_broken` | "deleting broken entry" | `i--` precedes the `erase`: the usable entry before it is deleted |
| `http_kill` | "reap all children, after which it will unlock the mutex" | the listener joins a handler that needs the lock the listener holds |
| `download_k_of_n` | "must obtain k of these n shards" | one of n hosts is out of reach, and the process crashes |
| `deploy_again` | "if shard already exists, set to true" | `var is True` is Python's `False`: a deployment over instances that are placed has no model, and the loop that adds instances does not end |

## Fairness

* `AmpAwait!FairSpec`: the plugin's threads run, and a mutex that is free again
  and again is granted to each that asks (strong fairness of a call's own steps).
  Neither spurious wake-ups, nor the registry, nor the network are fair.
  `DeliveringSpec` adds that requests are answered and replies delivered: without
  it, `AnsweredReturns` would be refuted by a network that stands still.
* `HttpServer!FairSpec` and `Registry!RegistryFairSpec`: every thread runs as long as it
  does not wait for a client, and the pool's lock is granted in the end; `accept`
  returns for sure only once the socket is shut down. No client needs to come or to
  say anything, nobody needs to call `kill` or to send a signal: `SSL_accept`
  (`httpServer.cpp:238`) and `SSL_read` (`request.cpp:53`) have no timeout. So
  `StopsUnlessHeldUp` has three cases: the process ends, or the listener waits for
  ever for a handler that needs the lock, or for one whose client is silent. In
  `Registry` main's thread runs as well.
* `Download!FairSpec`: the threads run, and a request that has not stalled ends with
  an answer or an error (retries are counted). A host may stall any request, so
  `EndsUnlessStalled` does not say that a download ends.
* `Deploy!FairSpec`: a request's thread and its tasks run on, but for the steps in which
  they wait for a host or a registry (`TaskWaits`, `HeldUp`): `requests.post`
  (`util.py:188,240`) has no timeout, and the shard host does TLS handshakes in its
  accept loop. `EndsLoopsOrWaits` has waiting for ever as a case of its own;
  deploy_lock stays set then. Hosts, failures, restarts, uploads and pages are not
  fair.
* `AnsweringClientsSpec` and `AnsweringPeersSpec` add that clients, hosts and registries
  answer. They are used in `http_kill` and `deploy_again` only, which show that what
  goes wrong there goes wrong even then.
* `RegistryDb` has safety properties only.

## Proofs

All theorems hold for every value of the constants under the named assumptions of
the modules.

* **AmpAwaitProofs.** `TypeOK`, then `LockDiscipline` from it, `ReplyInOnePlace`
  from it, and `OwnReply` from both. `ReplyInOnePlace` is stated in its inductive
  form: it says of a reply that it is in the queue at one index, under way or
  taken, and that only calls that have asked have replies; without the last part
  `Ask` could put a second copy under way. Lemmas on `Append`, `RemoveAt` and
  `Tail` say how each changes the set of elements and keeps them distinct. The
  refinement theorem assumes that the registry's records are whole
  (`NoBrokenAnswer`); `await_broken` shows that it fails otherwise.
* **HttpServerProofs, RegistryProofs.** `IInv` adds to `TypeOK` and
  `PoolHasEveryLiveThread` two facts about the listener: `current` is set exactly
  between accept and insertion (it is the one live handler that may be missing
  from the pool), and while the listener joins it owns `plock` and `keys` is the
  whole pool, so that the pool is empty when it has exited. `KilledIsQuiet`
  follows, since `kill` joins the listener. `ProcessRunsServer` shows that the
  process refines the server's specification (variables by their own names, every
  step of the life cycle a step of `kill` or a stutter), which carries those
  invariants over; `ExitIsQuiet` adds that main leaves by `Return` only with `kill`
  done.
* **RegistryDbProofs.** `IInv` adds that tables are removed only from a schema that
  is not complete, and that REGISTRY is not on disk before the last statement of a
  rebuild. `SettledForGood` rests on that: a complete schema is validated and left
  alone. That the connection knows every table of the file is part of `TypeOK`.
  `ThirdStartCompletes` counts: `StartsNeeded` says from what is on disk how many
  uncut starts are needed (at most 3), `NeededAfter` says from catalog, cache and
  statement what will be needed after the one that is running, `Shape` what these
  can be at each statement, and `StartsNeeded + cleanStarts <= 3` is inductive.
* **ShamirProofs.** That `Add` and `Mul` are the operations of a field and `Inv`
  its inverse, from the definitions bit by bit: `Mul` is linear in both
  arguments, so commutativity and associativity come down to multiplications by
  x (`MulShifted`, `MulOfTerms`); squaring is linear too and after eight times
  gives every element back (`SquaredEightTimes`), so that x^255 leaves x as it
  is and is its own square, which only zero and one are (`MulInv`).
  `TwoSharesRestore` and `OneShareFitsEverySecret` follow for every secret,
  coefficient and pair of points. More than two shares are a recursion over
  data; TLC computes some.
* **DownloadProofs.** `IInv` says, stage by stage, what the loops have done: threads
  before `next` have ended, shares before `next` are those of the files, a file that
  was spoiled has no share, the list is that of the last file, good shards are of
  the list's deployment. `CombinedSharesFit` and `FileIsRecovered` follow for every
  number of shards, threshold and length, the latter from arithmetic on padding
  (`ShardingAssumption`: `PadTo` is a multiple of the threshold). `TwoShardsCombine`
  ties `Restored` to the secret sharing for two shards of two.
* **DeployProofs.** From `TypeOK`, which covers every copy of the columns:
  `LockInv`, that a request past the test holds the lock and is alone unless two
  came through the gap; `CutIsExcused`, inductive with `Unused`, that the
  connections for failures to come are free, so that a failure loses no thread
  that a host has (`AdriftGoesOn`); `PushInv`, that a pushed flag in *any* copy
  of the columns (the data base, both sets of files, every request's) has its
  file at the host, and that a task's connection is to its own host; and
  `UploadInv`, that what was uploaded undisturbed is in the data base and in
  every copy that a request will write back (`HoldsDeps`), for which a request's
  stage has to say where its copy of the dependencies is (`CopyOf`). The steps
  are grouped by what they do to these (a column passed on, a column read, a
  flag set), so that each of the some forty actions is a few lines.
* **HandedOutProofs.** `HandedOutIsThere` is proved from `HandedOutStored`,
  where a file is just there, and `CutIsExcused` (`StoredIsThere`).
  `HandedOutStored` needs two invariants more, on top of `LockInv`, `PushInv`
  and `UploadInv`. `RowsInv` holds for *any* copy of the race nodes, whoever
  writes it back and when: of every instance a race node has a piece of, it has
  the blob and at least `Need` shards (`Full`; from
  `rule_sum_shards_between_n_and_m` in `ToldIsEnough`, from "everything
  everywhere" in `AllIsEnough`), and an entry counts as registered only if its
  registry hands out the dependency (`OnRecord`). `TracksInv` follows one
  deployment, stage by stage, while no second one is inside and no column was
  put back stale: its entries are of instances that the dependencies list
  (`Covers`; with a model of the solver there were none before, since `Refuted`
  says so), at server nodes that have a shard of that name (`Backed`), and once
  all the tasks are done, at hosts that have the file (`Stored`, by `PushInv`).
  An entry under a name that a registry does not have then lists *all* the
  shards the race node has of the instance: had one been registered, the name
  would be there (`DueIsPlaced`). Without `RowsInv`'s hold on every copy a page
  that puts the race nodes back would break it, and `TracksInv` needs its two
  hypotheses: with a second deployment inside or a stale column the entries and
  the files are of different runs.

Assumptions: `NoneAssumption` and the like keep tags apart from values,
`PlacementAssumption` and `DeployAssumption` give the constants their types (and
`PlacementAssumption` says that an instance has finitely many shards, `ShardIds`,
and that at least one and at most all of them are needed, as the bounds
n <= sum <= m of the rule at `optim.py:310` have it),
`ShardingAssumption` is the padding, `ConstantsAssumption` of `Download` bounds the
number of shards by those that exist.

Model-checked only: liveness (`WokenIsServed`, `StopsUnlessHeldUp`,
`WholeShardsSuffice`, `EndsUnlessStalled`, `EndsLoopsOrWaits`), which is out of the
prover's reach.

## Not modelled

* RACE SDK, its channels and the glue around it (`RaceApp`, publishers, input
  caches, the set-up of the stand-alone downloader): external, or without state
  that matters here.
* Parsing, logging, profiling, base64, TLS set-up; ciphers.
* The arithmetic of erasure coding, which the Jerasure library does: its outcome is
  a condition in `Sharding` (any `Threshold` good blocks decode). `rs_shard_file`,
  `unshard_file` and `download_from_list`, variants that the plugin does not call.
* Optimisation goals and unused rules of the optimiser.
* `scatter.py`, which calls the sharing library; the vendored IPFS client and
  headers; the test bed's resources.
* Descriptor numbers and memory: the second `close` at `httpServer.cpp:119`, the
  descriptor that a failed handshake leaks. Each is one unconditional statement;
  PROJECT.json lists them as hazards.
* Results that one statement drops, with no interleaving behind it: that of
  `download_artifact` in `acquireArtifact`, of the INSERT in `handleClient`.
* A POST with "json" to the pages of a deployment: `deploy/`, `randomize/` and the
  index hand their request to `config` (`views.py:214`), which then writes the same
  text to all four columns. No page of the program sends one, and what follows is a
  server without its columns.
* Expiry of the race nodes' entries, and the lifetime of shards on hosts.

## What is left

* The composition of `Deploy`, `RegistryDb` and `Download` in one module. Today they
  meet at their properties: `HandedOutIsThere` gives what `Download`'s `Serves` may
  be (whole files and cut ones), and `EntriesStandWhileUp` justifies `Stowed`.
* The same core in `interfaces/race` as an instance of its own.
