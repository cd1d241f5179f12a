----------------------------- MODULE ShardHost -----------------------------
(***************************************************************************)
(* The shard hosts: do_POST of shard-host-server.py, which a                *)
(* ThreadingHTTPServer runs in a thread for every connection.  A file is    *)
(* tested for, created empty, and written with what the connection yields:  *)
(* three steps that threads interleave, and the last one writes a part of   *)
(* the file if the connection breaks.                                       *)
(***************************************************************************)
EXTENDS Naturals

CONSTANTS
    Hosts,         \* the hosts
    Names,         \* file names; a name stands for one content, it holds a UUID
    Connections    \* the connections clients may open; each has a thread

VARIABLES
    file,       \* [Hosts -> [Names -> "absent", "cut" or "whole"]]
    post,       \* [Connections -> the request its thread works on, or NoPost]
    severed     \* <<host, name>> of the requests that broke off in the writing

hostVars == <<file, post, severed>>

NoPost == [pc |-> "none"]
Post == [pc : {"check", "open", "write"}, host : Hosts, name : Names]

HostInit ==
    /\ file = [h \in Hosts |-> [n \in Names |-> "absent"]]
    /\ post = [c \in Connections |-> NoPost]
    /\ severed = {}

\* A client's request reaches do_POST.
Receive(c, h, n) ==
    /\ post[c] = NoPost
    /\ post' = [post EXCEPT ![c] = [pc |-> "check", host |-> h, name |-> n]]
    /\ UNCHANGED <<file, severed>>

Serving(c, stage) == post[c] # NoPost /\ post[c].pc = stage

FileOf(c) == file[post[c].host][post[c].name]

Close(c) == post' = [post EXCEPT ![c] = NoPost]

\* "Don't overwrite files": 409 Conflict.
Conflict(c) ==
    /\ Serving(c, "check")
    /\ FileOf(c) # "absent"
    /\ Close(c)
    /\ UNCHANGED <<file, severed>>

Check(c) ==
    /\ Serving(c, "check")
    /\ FileOf(c) = "absent"
    /\ post' = [post EXCEPT ![c].pc = "open"]
    /\ UNCHANGED <<file, severed>>

\* open(filename, 'wb') creates the file, or truncates the one that another
\* thread has created since.
Open(c) ==
    /\ Serving(c, "open")
    /\ file' = [file EXCEPT ![post[c].host][post[c].name] = "cut"]
    /\ post' = [post EXCEPT ![c].pc = "write"]
    /\ UNCHANGED severed

\* Faulty variant: one read of the socket, whatever it yields.
WriteShort(c) ==
    /\ Serving(c, "write")
    /\ Close(c)
    /\ UNCHANGED <<file, severed>>

\* 201 Created.  The bytes are read, and then written from the start of the file:
\* it is whole whoever truncated it in between.
Write(c) ==
    /\ Serving(c, "write")
    /\ file' = [file EXCEPT ![post[c].host][post[c].name] = "whole"]
    /\ Close(c)
    /\ UNCHANGED severed

\* The connection breaks: the thread learns of it from what it reads, which is
\* short, and what it has read stays.
Sever(c) ==
    /\ Serving(c, "write")
    /\ severed' = severed \cup {<<post[c].host, post[c].name>>}
    /\ Close(c)
    /\ UNCHANGED file

HostTypeOK ==
    /\ file \in [Hosts -> [Names -> {"absent", "cut", "whole"}]]
    /\ post \in [Connections -> Post \cup {NoPost}]
    /\ severed \subseteq Hosts \X Names

\* A request for the file broke off, or a thread has truncated it to write it.
Excused(h, n) ==
    \/ <<h, n>> \in severed
    \/ \E c \in Connections :
          Serving(c, "write") /\ post[c].host = h /\ post[c].name = n

\* A file that is there in part is being written, or its writing broke off: a
\* host by itself leaves no part of a file behind.
CutIsExcused == \A h \in Hosts, n \in Names : file[h][n] = "cut" => Excused(h, n)
=============================================================================
