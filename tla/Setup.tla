------------------------------- MODULE Setup -------------------------------
(***************************************************************************)
(* How the JetStream assets come to exist and how clients bind to them:    *)
(* NewClient (src/client.go), PrepareTasks, PrepareConfigurationStore and  *)
(* PrepareQueue (src/storage.go), and POST /v1/queues                      *)
(* (src/httpserver/queues.go), with queues deleted meanwhile.  Each asset  *)
(* is first looked up and then, if missing, created: two requests.         *)
(***************************************************************************)
EXTENDS Integers, FiniteSets

CONSTANTS
  Client,          \* clients that start
  Post,            \* POST /v1/queues requests, whose server is a client already set up
  Layouts,         \* how a client would have the task store and buckets made
  QueueSettings,   \* the queue settings it was given, 0 where unset
  MaxDeletes       \* bound: DeleteQueue calls

ASSUME SetupAssumption ==
  /\ Client \cap Post = {} /\ MaxDeletes \in Nat /\ Layouts \subseteq Nat
  /\ QueueSettings \subseteq [tries : Nat, runTime : Nat, concurrent : Nat, entries : Nat]

VARIABLES
  server,          \* server[o]: whether asset o exists, its configuration, who made it
  proc,            \* proc[c]: a client starting, or a POST /v1/queues
  deletes

setupVars == <<server, proc, deletes>>

Proc == Client \cup Post
Nobody == "nobody"

DefaultMaxTries == 10
DefaultJobRunTime == 3600
DefaultQueueMaxConcurrent == 100

\* The assets in the order NewClient prepares them; PrepareQueue does the last two.
Assets == <<"tasks", "config", "elections", "queue", "consumer">>
Asset == {Assets[i] : i \in 1..5}
QueueAssets == {"queue", "consumer"}

\* What createQueue makes of settings that are not set.
Defaulted(q) ==
  [tries |-> IF q.tries = 0 THEN -1 ELSE q.tries,
   runTime |-> IF q.runTime = 0 THEN DefaultJobRunTime ELSE q.runTime,
   concurrent |-> IF q.concurrent = 0 THEN DefaultQueueMaxConcurrent ELSE q.concurrent,
   entries |-> q.entries]

\* The configuration a process asks of an asset.
Wanted(p, o) ==
  LET q == Defaulted(p.queue)
  IN  CASE o = "queue" -> [entries |-> q.entries]
        [] o = "consumer" -> [tries |-> q.tries, runTime |-> q.runTime, concurrent |-> q.concurrent]
        [] OTHER -> [layout |-> p.layout]

Missing == [there |-> FALSE, cfg |-> [layout |-> 0], by |-> Nobody]
Exists(o) == server[o].there

\* Mutant of MayCreate: NoStorageCreate is not looked at.
MayCreateStorage(p, o) == IF o \in QueueAssets THEN ~p.noCreate ELSE TRUE

\* noCreate of the storage, NoCreate of the queue.
MayCreate(p, o) == IF o \in QueueAssets THEN ~p.noCreate ELSE ~p.noStorageCreate

\* A cluster with nothing, or with the stores an operator made.
SetupInit ==
  /\ server \in {[o \in Asset |-> Missing]} \cup
       {[o \in Asset |-> IF o \in QueueAssets THEN Missing
                         ELSE [there |-> TRUE, cfg |-> [layout |-> l], by |-> Nobody]] : l \in Layouts}
  /\ proc \in [Proc -> [pc : {"idle"}, step : {1}, held : {[o \in Asset |-> [layout |-> 0]]},
                        stale : {FALSE}, layout : Layouts, queue : QueueSettings,
                        noStorageCreate : BOOLEAN, noCreate : BOOLEAN]]
  /\ \A c \in Post : ~proc[c].noCreate /\ ~proc[c].noStorageCreate
  /\ deletes = 0

Become(c, p) == proc' = [proc EXCEPT ![c] = p]
AssetOf(p) == Assets[p.step]

\* The process is bound to asset o with configuration cfg and goes on; after the
\* last one updateQueueSettings copies what it is bound to into its Queue.
Bound(c, p, o, cfg) ==
  [p EXCEPT !.held[o] = cfg,
            !.step = IF p.step = 5 THEN 5 ELSE p.step + 1,
            !.pc = IF p.step < 5 THEN "load" ELSE IF c \in Post THEN "show" ELSE "ready"]

----------------------------------------------------------------------------
\* NewClient starts with the task store.
NewClient(c) ==
  /\ c \in Client /\ proc[c].pc = "idle"
  /\ Become(c, [proc[c] EXCEPT !.pc = "load"])
  /\ UNCHANGED <<server, deletes>>

\* CreateQueue, in a server whose own client has its stores, asks for the queue
\* first: 409 when it is there.
CreateQueue(c) ==
  /\ c \in Post /\ proc[c].pc = "idle"
  /\ \A o \in Asset \ QueueAssets : Exists(o)
  /\ Become(c, IF Exists("queue") /\ Exists("consumer")
               THEN [proc[c] EXCEPT !.pc = "conflict"]
               ELSE [proc[c] EXCEPT !.pc = "load", !.step = 4])
  /\ UNCHANGED <<server, deletes>>

\* The next asset is loaded.  When it is missing a process that may not create
\* it fails (ErrStorageNotReady, ErrQueueNotFound, ErrQueueConsumerNotFound).
Load(c) ==
  LET p == proc[c]
      o == AssetOf(p)
  IN  /\ p.pc = "load"
      /\ Become(c, IF Exists(o) THEN Bound(c, p, o, server[o].cfg)
                   ELSE [p EXCEPT !.pc = IF MayCreate(p, o) THEN "create" ELSE "failed"])
      /\ UNCHANGED <<server, deletes>>

\* Mutant of Create: an asset that appeared meanwhile is taken for the own one.
CreateAnyway(c) ==
  LET p == proc[c]
      o == AssetOf(p)
      cfg == Wanted(p, o)
  IN  /\ p.pc = "create"
      /\ server' = IF Exists(o) THEN server
                   ELSE [server EXCEPT ![o] = [there |-> TRUE, cfg |-> cfg, by |-> c]]
      /\ Become(c, Bound(c, p, o, cfg))
      /\ UNCHANGED deletes

\* The server creates what is missing, accepts the same configuration again,
\* and refuses another one, or a consumer of a queue that is gone.
Create(c) ==
  LET p == proc[c]
      o == AssetOf(p)
      cfg == Wanted(p, o)
  IN  /\ p.pc = "create"
      /\ IF o = "consumer" /\ ~Exists("queue")
         THEN Become(c, [p EXCEPT !.pc = "failed"]) /\ UNCHANGED server
         ELSE IF Exists(o)
         THEN /\ Become(c, IF server[o].cfg = cfg THEN Bound(c, p, o, cfg) ELSE [p EXCEPT !.pc = "failed"])
              /\ UNCHANGED server
         ELSE /\ server' = [server EXCEPT ![o] = [there |-> TRUE, cfg |-> cfg, by |-> c]]
              /\ Become(c, Bound(c, p, o, cfg))
      /\ UNCHANGED deletes

\* CreateQueue shows the queue it finds: 201, or an error when it is gone.
Show(c) ==
  /\ proc[c].pc = "show"
  /\ Become(c, IF Exists("queue") /\ Exists("consumer")
               THEN [proc[c] EXCEPT !.pc = "ready", !.held["queue"] = server["queue"].cfg,
                                    !.held["consumer"] = server["consumer"].cfg]
               ELSE [proc[c] EXCEPT !.pc = "failed"])
  /\ UNCHANGED <<server, deletes>>

\* DeleteQueue removes the stream and its consumer; whoever is bound to them, or
\* under way, now has the old ones.
DeleteQueue ==
  /\ Exists("queue") /\ deletes < MaxDeletes
  /\ deletes' = deletes + 1
  /\ server' = [o \in Asset |-> IF o \in QueueAssets THEN Missing ELSE server[o]]
  /\ proc' = [c \in Proc |-> IF proc[c].pc \in {"idle", "failed"} THEN proc[c]
                             ELSE [proc[c] EXCEPT !.stale = TRUE]]

SetupNext ==
  \/ \E c \in Proc : NewClient(c) \/ CreateQueue(c) \/ Load(c) \/ Create(c) \/ Show(c)
  \/ DeleteQueue

SetupSpec == SetupInit /\ [][SetupNext]_setupVars

----------------------------------------------------------------------------
Ready(c) == proc[c].pc = "ready"

\* However several processes start at once, a client that is ready works with
\* the configuration the server has, its own or another's, unless its queue was
\* deleted since it started: AckWait, MaxDeliver and MaxAckPending of the
\* consumer are what its processor times, retries and polls by.
ReadyAgrees ==
  \A c \in Proc : Ready(c) /\ ~proc[c].stale =>
    \A o \in (IF c \in Post THEN QueueAssets ELSE Asset) : Exists(o) /\ proc[c].held[o] = server[o].cfg

\* What exists was made by an operator or by a process that may make it: "a
\* client with both binds to everything and creates nothing" (client_options.go),
\* whatever appears or disappears while it starts.
BindersCreateNothing ==
  \A o \in Asset : Exists(o) /\ server[o].by /= Nobody =>
    LET p == proc[server[o].by]
    IN  IF o \in QueueAssets THEN ~p.noCreate ELSE ~p.noStorageCreate

\* A queue made without a limit on tries gets DefaultMaxTries ("Default to
\* DefaultMaxTries", queue.go).
UnsetTriesDefault ==
  Exists("consumer") /\ server["consumer"].by /= Nobody =>
    LET q == proc[server["consumer"].by].queue
    IN  q.tries = 0 => server["consumer"].cfg.tries = DefaultMaxTries

\* 201 means the queue was created as asked ("Queue created.", openapi.yaml).
CreatedAsAsked ==
  \A c \in Post : Ready(c) => \A o \in QueueAssets : proc[c].held[o] = Wanted(proc[c], o)
============================================================================
