------------------------------ MODULE Signing ------------------------------
(***************************************************************************)
(* Signed tasks on their way through a deployment (src/client.go,          *)
(* src/task.go): signed by EnqueueTask, stored, saved by workers, retried, *)
(* and verified by every client that loads them, with keys that may be in  *)
(* files.  A signature is what it was computed over; it verifies when that *)
(* is what the task says now.                                              *)
(***************************************************************************)
EXTENDS Integers, FiniteSets

CONSTANTS
  Signer,        \* clients, each bound to one queue
  Queue,
  Key, NoKey,    \* ed25519 key pairs
  BadKey,        \* what a file holds that cannot be read or is no key
  Task,          \* task IDs, given out by NewTask
  Content,       \* type, max tries, creation time, deadline and payload of a task
  Sources,       \* ways tasks are made: "client", "scheduler", "post"
  MaxRetries,    \* bound: retries of a task
  MaxRotations   \* bound: times a key file is written

ASSUME SigningAssumption ==
  /\ NoKey \notin Key /\ BadKey \notin Key /\ NoKey # BadKey
  /\ MaxRetries \in Nat /\ MaxRotations \in Nat

VARIABLES
  config,        \* config[c]: the options of client c
  file,          \* the seed file and the public key file
  rotations,
  task,          \* task[t]: a task in the store
  items          \* the work items: a queue and a task

signingVars == <<config, file, rotations, task, items>>

NoSignature == [key |-> NoKey]
NoTask == [source |-> "none", queue |-> "none", content |-> "none", signature |-> NoSignature,
           runs |-> 0, retries |-> 0, moved |-> FALSE, signer |-> NoKey]

\* A client signs with a key or a seed file, or not; it verifies with a public
\* key or a key file, or not, and may take unsigned tasks.
Options == [queue : Queue, privateKey : Key \cup {NoKey}, seedFile : BOOLEAN,
            publicKey : Key \cup {NoKey}, publicKeyFile : BOOLEAN, optional : BOOLEAN]

\* What NewClient accepts.
validate(o) ==
  /\ ~(o.privateKey # NoKey /\ o.seedFile)
  /\ ~(o.publicKey # NoKey /\ o.publicKeyFile)
  /\ ~(o.seedFile /\ (o.publicKeyFile \/ o.publicKey # NoKey))

SigningInit ==
  /\ config \in [Signer -> {o \in Options : validate(o)}]
  /\ \E k \in Key : file = [seed |-> k, public |-> k]
  /\ rotations = 0
  /\ task = [t \in Task |-> NoTask]
  /\ items = {}

\* Mutant of signatureMessage: the tries are signed too.
signatureMessageTries(t, w) == [id |-> t, queue |-> w.queue, content |-> w.content, tries |-> w.runs]

\* What a signature covers: not the state, the tries or the result.
signatureMessage(t, w) == [id |-> t, queue |-> w.queue, content |-> w.content]

sign(k, msg) == [key |-> k, msg |-> msg]

\* The keys a client has for signing and for verifying: files are read at every
\* use.
SigningKey(c) ==
  IF config[c].privateKey # NoKey THEN config[c].privateKey
  ELSE IF config[c].seedFile THEN file.seed ELSE NoKey
VerificationKey(c) ==
  IF config[c].publicKey # NoKey THEN config[c].publicKey
  ELSE IF config[c].publicKeyFile THEN file.public ELSE NoKey

\* signTask of client c fails on an unusable seed file, and refuses a task that
\* is signed already.
CanSign(c, w) ==
  /\ SigningKey(c) # BadKey
  /\ SigningKey(c) = NoKey \/ w.signature = NoSignature
signTask(c, t, w) ==
  IF SigningKey(c) = NoKey THEN w
  ELSE [w EXCEPT !.signature = sign(SigningKey(c), signatureMessage(t, w)),
                 !.signer = SigningKey(c)]

verifyTaskSignature(c, t) ==
  LET w == task[t]
  IN  CASE VerificationKey(c) = NoKey -> "ok"
        [] w.signature = NoSignature -> IF config[c].optional THEN "ok" ELSE "ErrTaskNotSigned"
        [] VerificationKey(c) = BadKey -> "keyFileError"
        [] OTHER -> IF w.signature = sign(VerificationKey(c), signatureMessage(t, w))
                    THEN "ok" ELSE "ErrTaskSignatureInvalid"

----------------------------------------------------------------------------
\* The storage saves the task and publishes its item, replacing the item that
\* queue has for it.
StoreAndPublish(t, w) ==
  /\ task' = [task EXCEPT ![t] = w]
  /\ items' = items \cup {<<w.queue, t>>}
  /\ UNCHANGED <<config, file, rotations>>

Made(source, q, x) == [NoTask EXCEPT !.source = source, !.queue = q, !.content = x]

\* EnqueueTask of a client.
EnqueueTask(c, t, x) ==
  /\ "client" \in Sources /\ task[t] = NoTask
  /\ CanSign(c, Made("client", config[c].queue, x))
  /\ StoreAndPublish(t, signTask(c, t, Made("client", config[c].queue, x)))

\* The job of a schedule, in a process whose client is c: it makes the task and
\* hands it to the storage, for the queue of the schedule.
ScheduledEnqueue(c, t, x, q) ==
  /\ "scheduler" \in Sources /\ task[t] = NoTask
  /\ StoreAndPublish(t, [Made("scheduler", q, x) EXCEPT !.signer = SigningKey(c)])

\* POST /v1/tasks with a signature the caller computed with key k: NewTask gives
\* the task an ID the caller could not know.
PostTask(c, t, x, k) ==
  LET w == [Made("post", config[c].queue, x) EXCEPT
              !.signature = sign(k, [signatureMessage(t, Made("post", config[c].queue, x)) EXCEPT !.id = "unknown"]),
              !.signer = k]
  IN  /\ "post" \in Sources /\ task[t] = NoTask /\ CanSign(c, w)
      /\ StoreAndPublish(t, signTask(c, t, w))

\* RetryTaskByID: the task, loaded without verification, moves to the queue of
\* the client.
RetryTaskByID(c, t) ==
  /\ task[t] /= NoTask /\ task[t].retries < MaxRetries
  /\ StoreAndPublish(t, [task[t] EXCEPT !.queue = config[c].queue, !.retries = @ + 1,
                              !.moved = @ \/ task[t].queue /= config[c].queue])

\* A worker takes an item of its queue, loads and verifies the task, runs it and
\* saves it; a task it cannot load stays queued.
Process(c, t) ==
  /\ <<config[c].queue, t>> \in items /\ verifyTaskSignature(c, t) = "ok"
  /\ task' = [task EXCEPT ![t].runs = @ + 1]
  /\ items' = items \ {<<config[c].queue, t>>}
  /\ UNCHANGED <<config, file, rotations>>

\* A key file is replaced, or damaged.
WriteFile ==
  /\ rotations < MaxRotations /\ rotations' = rotations + 1
  /\ \E k \in Key \cup {BadKey}, f \in {"seed", "public"} :
       file[f] # k /\ file' = [file EXCEPT ![f] = k]
  /\ UNCHANGED <<config, task, items>>

SigningNext ==
  \/ \E c \in Signer, t \in Task :
       \/ \E x \in Content :
            \/ EnqueueTask(c, t, x)
            \/ \E q \in Queue : ScheduledEnqueue(c, t, x, q)
            \/ \E k \in Key : PostTask(c, t, x, k)
       \/ RetryTaskByID(c, t)
       \/ Process(c, t)
  \/ WriteFile

SigningSpec == SigningInit /\ [][SigningNext]_signingVars

----------------------------------------------------------------------------
\* The clients that verify with the key task t was signed with.
Trusting(t) == {c \in Signer : VerificationKey(c) = task[t].signer}

\* A task a client signed can be loaded wherever its key is trusted, after any
\* number of saves, of retries through its own queue and of replaced key files:
\* nothing a worker or a retry writes is covered by the signature, and the key
\* is the one the file holds by then, whatever it held when it was last used.
SignedStaysLoadable ==
  \A t \in Task : task[t].source = "client" /\ ~task[t].moved /\ task[t].signer /= NoKey =>
    \A c \in Trusting(t) : verifyTaskSignature(c, t) = "ok"

\* A retried task has one work item: "Any work queue items for the task are
\* discarded" (task-lifecycle.md).
OneItemPerTask == \A t \in Task : Cardinality({q \in Queue : <<q, t>> \in items}) <= 1

\* A client with a signing key signs the tasks its scheduler creates: "when
\* tasks are created sign using this ed25519.PrivateKey" (security.md).
SchedulerSigns ==
  \A t \in Task : task[t].source = "scheduler" /\ task[t].signer /= NoKey /\ task[t].retries = 0 =>
    \A c \in Trusting(t) : verifyTaskSignature(c, t) = "ok"

\* A task posted with a signature its caller computed can be loaded: "Callers
\* must supply a pre-computed signature field" (http-api.md).
CallerSignatureVerifies ==
  \A t \in Task : task[t].source = "post" /\ task[t].retries = 0 =>
    \A c \in Trusting(t) : verifyTaskSignature(c, t) = "ok"
============================================================================
