--------------------------- MODULE LibraryProofs ---------------------------
(***************************************************************************)
(* The parts of the library that work for themselves, for every value of   *)
(* their constants.  Around the handler of a task: the lease and the timer *)
(* of a run go in lock-step (HandlerRun), the two seconds the remote       *)
(* handler keeps back are enough to hear a service that is on time         *)
(* (RequestReply), a task gets the longest route and all its middleware    *)
(* (Mux), and the delays between tries are bounded and grow (RetryPolicy). *)
(* Around a client: a signed task stays loadable (Signing), and clients    *)
(* that start together agree with the server on what they are bound to,    *)
(* the bind-only ones creating nothing (Setup).                            *)
(***************************************************************************)
EXTENDS HandlerRun, RequestReply, Mux, RetryPolicy, Setup, Signing, TLAPS, FiniteSetTheorems, SequenceTheorems,
  WellFoundedInduction

----------------------------------------------------------------------------
(***************************************************************************)
(* The clocks of a handler.                                                *)
(***************************************************************************)
\* A delivery starts with a full lease.
LEMMA InitRun == Init => RunInv
<1> SUFFICES ASSUME Init PROVE RunInv
    OBVIOUS
<1>1. cancelled \in BOOLEAN /\ renewed \in BOOLEAN
      BY Zenon DEF Init
<1>2. pc = "prepare" /\ lease = MaxRunTime /\ delay = 0 /\ timer = 0 /\ mark = "none" /\ overdue = 0
      BY Zenon DEF Init
<1>3. QED
      BY <1>1, <1>2, RunAssumption DEF RunInv, TypeOK, LockStep

\* Every step of the worker, the server and time keeps the lease within the
\* delay of the worker of the timer.
LEMMA NextRun == RunInv /\ [Next]_vars => RunInv'
<1> SUFFICES ASSUME RunInv, [Next]_vars PROVE RunInv'
    OBVIOUS
<1> USE RunAssumption DEF RunInv, TypeOK, LockStep
<1>1. CASE Handle
      BY <1>1 DEF Handle
<1>2. CASE MarkInProgress
      BY <1>2, Zenon DEF MarkInProgress
<1>3. CASE ServerRenews
      BY <1>3 DEF ServerRenews
<1>4. CASE Renewed
      BY <1>4 DEF Renewed
<1>5. CASE RenewalFails
      BY <1>5 DEF RenewalFails
<1>6. CASE TimerFires
      BY <1>6 DEF TimerFires
<1>7. CASE HandlerReturns
      BY <1>7 DEF HandlerReturns
<1>8. CASE Pass
      BY <1>8 DEF Pass, Less
<1>9. CASE UNCHANGED vars
      BY <1>9 DEF vars
<1>10. QED
      BY <1>1, <1>2, <1>3, <1>4, <1>5, <1>6, <1>7, <1>8, <1>9, ZenonT(30) DEF Next

\* MarkInProgress and handle never leave the timer running longer past the
\* lease than it took the worker to arm it.
THEOREM ClocksInLockStep == Spec => []LockStep
<1>1. RunInv => LockStep
      BY DEF RunInv
<1>2. QED
      BY InitRun, NextRun, <1>1, PTL DEF Spec

----------------------------------------------------------------------------
(* The remote handler.  An answer has been under way for MaxLatency at     *)
(* most, and the service was told a time two seconds before the deadline.  *)

RequestTypeOK ==
  /\ now \in Int /\ deadline \in Int /\ header \in Int /\ answeredAt \in Int
  /\ stage \in {"start", "waiting", "done"} /\ answer \in Answer \cup {"none"}
  /\ abandoned \in BOOLEAN

RequestInv ==
  /\ RequestTypeOK
  /\ stage = "start" => answer = "none"
  /\ stage = "waiting" => header <= deadline - 4
  /\ stage = "waiting" /\ answer # "none" => now <= answeredAt + 3
  /\ TimelyAnswerCounts

\* Format never tells the service a later time.
LEMMA RFC3339Truncates == \A t \in Int : RFC3339(t) \in Int /\ RFC3339(t) <= t
BY DEF RFC3339

LEMMA InitRequest == RequestInit => RequestInv
<1> SUFFICES ASSUME RequestInit PROVE RequestInv
    OBVIOUS
<1>1. abandoned \in BOOLEAN
      BY Zenon DEF RequestInit
<1>2. /\ now \in Int /\ deadline \in Int /\ header = 0 /\ answeredAt = 0
      /\ stage = "start" /\ answer = "none"
      BY RequestReplyAssumption, SMTT(30) DEF RequestInit
<1>3. QED
      BY <1>1, <1>2 DEF RequestInv, RequestTypeOK, TimelyAnswerCounts

LEMMA NextRequest == RequestInv /\ [RequestNext]_requestVars => RequestInv'
<1> SUFFICES ASSUME RequestInv, [RequestNext]_requestVars PROVE RequestInv'
    OBVIOUS
<1> USE DEF RequestInv, RequestTypeOK, TimelyAnswerCounts
<1>1. CASE Refuse
      BY <1>1 DEF Refuse, Done
<1>2. CASE Request
      BY <1>2, RFC3339Truncates, SMTT(30) DEF Request, Seconds
<1>3. CASE ServiceAnswers
      BY <1>3 DEF ServiceAnswers
<1>4. CASE AnswerArrives
      BY <1>4 DEF AnswerArrives, Done
<1>5. CASE RequestFails
      BY <1>5 DEF RequestFails, Done
<1>6. CASE Cancel
      BY <1>6 DEF Cancel
<1>7. CASE RequestPass
      BY <1>7, RequestReplyAssumption DEF RequestPass
<1>8. CASE UNCHANGED requestVars
      BY <1>8, ZenonT(30) DEF requestVars
<1>9. QED
      BY <1>1, <1>2, <1>3, <1>4, <1>5, <1>6, <1>7, <1>8, ZenonT(30) DEF RequestNext

\* The deadline processTask writes in the header leaves a service that keeps to
\* it the time for its answer to arrive: the request does not time out first.
THEOREM TimelyAnswersCount == RequestSpec => []TimelyAnswerCounts
<1>1. RequestInv => TimelyAnswerCounts
      BY DEF RequestInv
<1>2. QED
      BY InitRequest, NextRequest, <1>1, PTL DEF RequestSpec


----------------------------------------------------------------------------
\* Signatures and tasks as the store holds them.
Message == [id : Task \cup {"unknown"}, queue : Queue, content : Content]
Signature == {NoSignature} \cup [key : Key, msg : Message]
StoredTask ==
  [source : {"none", "client", "scheduler", "post"}, queue : Queue \cup {"none"},
   content : Content \cup {"none"}, signature : Signature, runs : Nat, retries : Nat,
   moved : BOOLEAN, signer : Key \cup {NoKey, BadKey}]

SigningTypeOK ==
  /\ config \in [Signer -> Options]
  /\ file \in [seed : Key \cup {BadKey}, public : Key \cup {BadKey}]
  /\ rotations \in Nat
  /\ task \in [Task -> StoredTask]

\* A task of a client that signs carries the signature of what it says now.
Genuine(t, w) ==
  w.source = "client" /\ ~w.moved /\ w.signer # NoKey =>
    w.signer \in Key /\ w.signature = sign(w.signer, signatureMessage(t, w))

SigningInv == SigningTypeOK /\ \A t \in Task : Genuine(t, task[t])

\* The keys are what the options or the files say.
LEMMA KeyTypes ==
  ASSUME SigningTypeOK, NEW c \in Signer
  PROVE  /\ config[c] \in Options
         /\ SigningKey(c) \in Key \cup {NoKey, BadKey}
<1>1. config[c] \in Options /\ file.seed \in Key \cup {BadKey}
      BY DEF SigningTypeOK
<1>2. config[c].privateKey \in Key \cup {NoKey}
      BY <1>1, ZenonT(30) DEF Options
<1>3. QED
      BY <1>1, <1>2, ZenonT(30) DEF SigningKey

\* A store that gives task t a new record keeps the invariant when the record
\* is genuine.
LEMMA StoreTask ==
  ASSUME SigningInv, NEW t \in Task, NEW w \in StoredTask, Genuine(t, w),
         StoreAndPublish(t, w)
  PROVE  SigningInv'
<1>1. task' = [task EXCEPT ![t] = w] /\ UNCHANGED <<config, file, rotations>>
      BY DEF StoreAndPublish
<1>2. SigningTypeOK'
      BY <1>1 DEF SigningInv, SigningTypeOK
<1>3. \A u \in Task : Genuine(u, task'[u])
      <2> TAKE u \in Task
      <2>1. CASE u = t
            BY <1>1, <2>1, ZenonT(30) DEF SigningInv, SigningTypeOK
      <2>2. CASE u # t
            BY <1>1, <2>2, SMTT(30) DEF SigningInv, SigningTypeOK
      <2>3. QED
            BY <2>1, <2>2
<1>4. QED
      BY <1>2, <1>3, ZenonT(30) DEF SigningInv, Genuine, sign, signatureMessage

\* What NewTask makes is a task without a signature.
LEMMA MadeType ==
  ASSUME NEW s \in {"client", "scheduler", "post"}, NEW q \in Queue, NEW x \in Content
  PROVE  /\ Made(s, q, x) \in StoredTask
         /\ Made(s, q, x).source = s /\ Made(s, q, x).queue = q /\ Made(s, q, x).content = x
         /\ Made(s, q, x).signature = NoSignature /\ Made(s, q, x).signer = NoKey
BY Zenon DEF Made, NoTask, StoredTask, Signature

\* signTask gives a task without a signature a genuine one.
LEMMA SignTask ==
  ASSUME SigningTypeOK, NEW c \in Signer, NEW t \in Task, NEW w \in StoredTask,
         w.queue \in Queue, w.content \in Content, CanSign(c, w),
         SigningKey(c) = NoKey => w.signer = NoKey \/ w.source # "client"
  PROVE  signTask(c, t, w) \in StoredTask /\ Genuine(t, signTask(c, t, w))
<1>1. CASE SigningKey(c) = NoKey
      BY <1>1 DEF signTask, Genuine
<1>2. CASE SigningKey(c) # NoKey
      <2>1. SigningKey(c) \in Key
            BY <1>2, KeyTypes, ZenonT(30) DEF CanSign
      <2> DEFINE msg == signatureMessage(t, w)
                 v == [w EXCEPT !.signature = sign(SigningKey(c), msg), !.signer = SigningKey(c)]
      <2>2. msg \in Message
            BY DEF signatureMessage, Message
      <2>3. sign(SigningKey(c), msg) \in Signature
            BY <2>1, <2>2, SMTT(30) DEF sign, Signature
      <2> HIDE DEF msg
      <2>4. v \in StoredTask
            BY <2>1, <2>3, ZenonT(30) DEF StoredTask
      <2>5. v.signer = SigningKey(c) /\ v.signature = sign(SigningKey(c), msg)
            /\ v.queue = w.queue /\ v.content = w.content
            BY DEF StoredTask
      <2> HIDE DEF v
      <2>6. signatureMessage(t, v) = msg
            BY <2>5 DEF msg, signatureMessage
      <2>7. Genuine(t, v)
            BY <2>1, <2>5, <2>6, ZenonT(30) DEF Genuine
      <2>8. signTask(c, t, w) = v
            BY <1>2 DEF signTask, v, msg
      <2>9. QED
            BY <2>4, <2>7, <2>8, ZenonT(30)
<1>3. QED
      BY <1>1, <1>2, SMTT(30)

\* Every step of the clients keeps signed tasks genuine.
LEMMA SigningStep == SigningInv /\ [SigningNext]_signingVars => SigningInv'
<1> SUFFICES ASSUME SigningInv, [SigningNext]_signingVars PROVE SigningInv'
    OBVIOUS
<1>0. SigningTypeOK /\ \A t \in Task : task[t] \in StoredTask
      BY DEF SigningInv, SigningTypeOK
<1>1. ASSUME NEW c \in Signer, NEW t \in Task, NEW x \in Content, EnqueueTask(c, t, x)
      PROVE  SigningInv'
      <2> DEFINE w == Made("client", config[c].queue, x)
      <2>1. config[c].queue \in Queue
            BY <1>0, KeyTypes, ZenonT(30) DEF Options
      <2>2. w \in StoredTask /\ w.queue \in Queue /\ w.content \in Content /\ w.signer = NoKey
            BY <2>1, MadeType, SMTT(30)
      <2>3. CanSign(c, w) /\ StoreAndPublish(t, signTask(c, t, w))
            BY <1>1 DEF EnqueueTask
      <2> HIDE DEF w
      <2>4. QED
            BY <1>0, <2>2, <2>3, SignTask, StoreTask, ZenonT(30)
<1>2. ASSUME NEW c \in Signer, NEW t \in Task, NEW x \in Content, NEW q \in Queue,
             ScheduledEnqueue(c, t, x, q)
      PROVE  SigningInv'
      <2> DEFINE w == Made("scheduler", q, x)
                 v == [w EXCEPT !.signer = SigningKey(c)]
      <2>1. w \in StoredTask /\ w.source = "scheduler"
            BY MadeType
      <2> HIDE DEF w
      <2>2. v \in StoredTask /\ v.source = "scheduler"
            BY <1>0, <2>1, KeyTypes, ZenonT(30) DEF StoredTask
      <2>3. StoreAndPublish(t, v)
            BY <1>2 DEF ScheduledEnqueue, w
      <2> HIDE DEF v
      <2>4. Genuine(t, v)
            BY <2>2 DEF Genuine
      <2>5. QED
            BY <2>2, <2>3, <2>4, StoreTask, ZenonT(30)
<1>3. ASSUME NEW c \in Signer, NEW t \in Task, NEW x \in Content, NEW k \in Key,
             PostTask(c, t, x, k)
      PROVE  SigningInv'
      <2> DEFINE u == Made("post", config[c].queue, x)
                 msg == [signatureMessage(t, u) EXCEPT !.id = "unknown"]
                 w == [u EXCEPT !.signature = sign(k, msg), !.signer = k]
      <2>1. config[c].queue \in Queue
            BY <1>0, KeyTypes, ZenonT(30) DEF Options
      <2>2. u \in StoredTask /\ u.source = "post" /\ u.queue \in Queue /\ u.content \in Content
            BY <2>1, MadeType, SMTT(30)
      <2>3. CanSign(c, w) /\ StoreAndPublish(t, signTask(c, t, w))
            BY <1>3 DEF PostTask
      <2> HIDE DEF u
      <2>4. sign(k, msg) \in Signature
            BY <2>2 DEF signatureMessage, Message, sign, Signature
      <2> HIDE DEF msg
      <2>5. w \in StoredTask /\ w.source = "post" /\ w.queue \in Queue /\ w.content \in Content
            BY <2>2, <2>4, ZenonT(30) DEF StoredTask
      <2> HIDE DEF w
      <2>6. QED
            BY <1>0, <2>3, <2>5, SignTask, StoreTask, ZenonT(30)
<1>4. ASSUME NEW c \in Signer, NEW t \in Task, RetryTaskByID(c, t)
      PROVE  SigningInv'
      <2> DEFINE w == task[t]
                 n == w.retries + 1
                 b == w.moved \/ w.queue /= config[c].queue
                 v == [w EXCEPT !.queue = config[c].queue, !.retries = n, !.moved = b]
      <2>1. config[c].queue \in Queue /\ w \in StoredTask /\ n \in Nat
            BY <1>0, KeyTypes, SMTT(30) DEF Options, StoredTask
      <2>2. StoreAndPublish(t, v) /\ Genuine(t, w)
            BY <1>4 DEF RetryTaskByID, SigningInv
      <2> HIDE DEF w, n
      <2>3. b \in BOOLEAN /\ (~b => ~w.moved /\ w.queue = config[c].queue)
            BY Zenon DEF b
      <2> HIDE DEF b
      <2>4. v \in StoredTask
            BY <2>1, <2>3, ZenonT(30) DEF StoredTask
      <2>5. /\ v.source = w.source /\ v.content = w.content /\ v.signature = w.signature
            /\ v.signer = w.signer /\ v.queue = config[c].queue /\ (v.moved <=> b)
            BY <2>1, <2>3, ZenonT(30) DEF StoredTask
      <2> HIDE DEF v
      <2>6. Genuine(t, v)
            BY <2>2, <2>3, <2>5, ZenonT(30) DEF Genuine, signatureMessage
      <2>7. QED
            BY <2>2, <2>4, <2>6, StoreTask, ZenonT(30)
<1>5. ASSUME NEW c \in Signer, NEW t \in Task, Process(c, t)
      PROVE  SigningInv'
      <2> DEFINE v == [task[t] EXCEPT !.runs = @ + 1]
      <2>1. task' = [task EXCEPT ![t] = v] /\ UNCHANGED <<config, file, rotations>>
            BY <1>5, SMTT(30) DEF Process
      <2>2. v \in StoredTask /\ v.source = task[t].source /\ v.content = task[t].content
            /\ v.signature = task[t].signature /\ v.signer = task[t].signer
            /\ v.queue = task[t].queue /\ v.moved = task[t].moved
            BY <1>0 DEF StoredTask
      <2> HIDE DEF v
      <2>3. Genuine(t, v)
            BY <2>2, ZenonT(30) DEF SigningInv, Genuine, signatureMessage
      <2>4. SigningTypeOK'
            BY <1>0, <2>1, <2>2, ZenonT(30) DEF SigningTypeOK
      <2>5. \A u \in Task : Genuine(u, task'[u])
            BY <2>1, <2>3, ZenonT(30) DEF SigningInv, SigningTypeOK
      <2>6. QED
            BY <2>4, <2>5, ZenonT(30) DEF SigningInv, Genuine, sign, signatureMessage
<1>6. CASE WriteFile
      <2>1. SigningTypeOK'
            BY <1>0, <1>6, SMTT(30) DEF WriteFile, SigningTypeOK
      <2>2. QED
            BY <1>6, <2>1, ZenonT(30) DEF WriteFile, SigningInv, Genuine, sign, signatureMessage
<1>7. CASE UNCHANGED signingVars
      BY <1>7, ZenonT(30) DEF signingVars, SigningInv, SigningTypeOK, Genuine, sign, signatureMessage
<1>8. QED
      BY <1>1, <1>2, <1>3, <1>4, <1>5, <1>6, <1>7, ZenonT(30) DEF SigningNext

\* A task signed by EnqueueTask can be loaded by every client that verifies
\* with its key, whatever saves, retries through its own queue and changes of
\* key files came in between.
THEOREM SignedTasksLoad == SigningSpec => []SignedStaysLoadable
<1>1. SigningInit => SigningInv
      <2> SUFFICES ASSUME SigningInit PROVE SigningInv
          OBVIOUS
      <2>1. NoTask \in StoredTask /\ NoTask.source = "none"
            BY DEF NoTask, StoredTask, Signature
      <2>2. SigningTypeOK
            BY <2>1 DEF SigningInit, SigningTypeOK
      <2>3. \A t \in Task : task[t] = NoTask
            BY DEF SigningInit
      <2>4. QED
            BY <2>1, <2>2, <2>3, ZenonT(30) DEF SigningInv, Genuine
<1>2. SigningInv => SignedStaysLoadable
      <2> SUFFICES ASSUME SigningInv, NEW t \in Task, task[t].source = "client", ~task[t].moved,
                          task[t].signer # NoKey, NEW c \in Trusting(t)
                   PROVE  verifyTaskSignature(c, t) = "ok"
          BY ZenonT(30) DEF SignedStaysLoadable
      <2>1. /\ task[t].signer \in Key
            /\ task[t].signature = sign(task[t].signer, signatureMessage(t, task[t]))
            /\ VerificationKey(c) = task[t].signer
            BY ZenonT(30) DEF SigningInv, Genuine, Trusting
      <2>2. task[t].signature # NoSignature
            BY <2>1, SigningAssumption, SMTT(30) DEF sign, NoSignature
      <2>3. QED
            BY <2>1, <2>2, SigningAssumption, ZenonT(30) DEF verifyTaskSignature
<1>3. QED
      BY <1>1, <1>2, SigningStep, PTL DEF SigningSpec
----------------------------------------------------------------------------
\* Configurations, assets and processes.
Config == [layout : Nat] \cup [entries : Int] \cup [tries : Int, runTime : Int, concurrent : Int]
ServerAsset == [there : BOOLEAN, cfg : Config, by : Proc \cup {Nobody}]
SetupProcess ==
  [pc : {"idle", "load", "create", "show", "ready", "failed", "conflict"}, step : 1..5,
   held : [Asset -> Config], stale : BOOLEAN, layout : Layouts, queue : QueueSettings,
   noStorageCreate : BOOLEAN, noCreate : BOOLEAN]

SetupTypeOK == server \in [Asset -> ServerAsset] /\ proc \in [Proc -> SetupProcess]

\* Process p is bound to asset o as server s has it.
AgreesOn(p, s, o) == s[o].there /\ p.held[o] = s[o].cfg

\* The places in Assets of what process c is bound to for good: a client binds
\* one after the other, a POST /v1/queues looks again before it answers.
Settled(c, p) ==
  CASE p.pc = "ready" -> IF c \in Post THEN 4..5 ELSE 1..5
    [] p.pc \in {"load", "create"} /\ c \notin Post -> 1..(p.step - 1)
    [] OTHER -> {}

\* A process creates what it may create, and agrees with the server on what it
\* is bound to unless its queue was deleted.
ProcessOK(c, p, s) ==
  /\ p.pc = "idle" => p.step = 1
  /\ p.pc = "show" => c \in Post
  /\ p.pc = "create" => MayCreate(p, AssetOf(p))
  /\ ~p.stale => \A i \in Settled(c, p) : AgreesOn(p, s, Assets[i])

SetupInv ==
  /\ SetupTypeOK /\ BindersCreateNothing
  /\ \A c \in Proc : ProcessOK(c, proc[c], server)

LEMMA AssetTypes ==
  /\ \A i \in 1..5 : Assets[i] \in Asset
  /\ \A o \in Asset : \E i \in 1..5 : o = Assets[i]
  /\ QueueAssets \subseteq Asset /\ Assets[4] = "queue" /\ Assets[5] = "consumer"
  /\ \A p \in SetupProcess : AssetOf(p) \in Asset
BY DEF Assets, Asset, QueueAssets, AssetOf, SetupProcess

\* What a process asks for is a configuration.
LEMMA WantedType ==
  ASSUME NEW p \in SetupProcess, NEW o \in Asset
  PROVE  Wanted(p, o) \in Config
<1>1. p.queue \in [tries : Nat, runTime : Nat, concurrent : Nat, entries : Nat] /\ p.layout \in Nat
      BY SetupAssumption, ZenonT(30) DEF SetupProcess
<1>2. Defaulted(p.queue) \in [tries : Int, runTime : Int, concurrent : Int, entries : Int]
      BY <1>1 DEF Defaulted, DefaultJobRunTime, DefaultQueueMaxConcurrent
<1> DEFINE q == Defaulted(p.queue)
<1> HIDE DEF q
<1>3. /\ [entries |-> q.entries] \in Config
      /\ [tries |-> q.tries, runTime |-> q.runTime, concurrent |-> q.concurrent] \in Config
      /\ [layout |-> p.layout] \in Config
      BY <1>1, <1>2, ZenonT(30) DEF Config, q
<1>4. QED
      BY <1>3, ZenonT(30) DEF Wanted, q

\* What becomes of a process that is bound to one more asset.
LEMMA BoundFields ==
  ASSUME NEW c \in Proc, NEW p \in SetupProcess, NEW o \in Asset, NEW cfg \in Config
  PROVE  LET v == Bound(c, p, o, cfg) IN
         /\ v \in SetupProcess
         /\ v.held = [p.held EXCEPT ![o] = cfg]
         /\ v.step = IF p.step = 5 THEN 5 ELSE p.step + 1
         /\ v.pc = IF p.step < 5 THEN "load" ELSE IF c \in Post THEN "show" ELSE "ready"
         /\ (v.stale <=> p.stale) /\ (v.noCreate <=> p.noCreate)
         /\ (v.noStorageCreate <=> p.noStorageCreate)
<1> DEFINE v == Bound(c, p, o, cfg)
           h == [p.held EXCEPT ![o] = cfg]
           n == IF p.step = 5 THEN 5 ELSE p.step + 1
           k == IF p.step < 5 THEN "load" ELSE IF c \in Post THEN "show" ELSE "ready"
<1>1. h \in [Asset -> Config] /\ n \in 1..5 /\ k \in {"load", "show", "ready"}
      BY DEF SetupProcess
<1>2. v = [p EXCEPT !.held = h, !.step = n, !.pc = k]
      BY DEF Bound, SetupProcess
<1> HIDE DEF h, n, k
<1>3. v \in SetupProcess /\ v.held = h /\ v.step = n /\ v.pc = k
      BY <1>1, <1>2, ZenonT(30) DEF SetupProcess
<1>4. /\ (v.stale <=> p.stale) /\ (v.noCreate <=> p.noCreate)
      /\ (v.noStorageCreate <=> p.noStorageCreate)
      BY <1>2, ZenonT(30) DEF SetupProcess
<1>5. QED
      BY <1>3, <1>4, ZenonT(30) DEF h, n, k

\* A process that goes on, its options as they were, keeps the invariant when
\* what it is bound to agrees with the server.
LEMMA ProcessMoves ==
  ASSUME SetupInv, NEW c \in Proc, NEW v \in SetupProcess,
         v.noCreate <=> proc[c].noCreate, v.noStorageCreate <=> proc[c].noStorageCreate,
         proc' = [proc EXCEPT ![c] = v], server' = server, ProcessOK(c, v, server)
  PROVE  SetupInv'
<1>1. SetupTypeOK'
      BY ZenonT(30) DEF SetupInv, SetupTypeOK
<1>2. \A d \in Proc : /\ proc'[d].noCreate <=> proc[d].noCreate
                      /\ proc'[d].noStorageCreate <=> proc[d].noStorageCreate
      BY DEF SetupInv, SetupTypeOK
<1>3. BindersCreateNothing'
      <2> SUFFICES ASSUME NEW o \in Asset, server[o].there, server[o].by # Nobody
                   PROVE  IF o \in QueueAssets THEN ~proc'[server[o].by].noCreate
                          ELSE ~proc'[server[o].by].noStorageCreate
          BY DEF BindersCreateNothing, Exists
      <2>1. server[o].by \in Proc
            BY ZenonT(30) DEF SetupInv, SetupTypeOK, ServerAsset
      <2>2. IF o \in QueueAssets THEN ~proc[server[o].by].noCreate
            ELSE ~proc[server[o].by].noStorageCreate
            BY DEF SetupInv, BindersCreateNothing, Exists
      <2>3. QED
            BY <1>2, <2>1, <2>2, ZenonT(30)
<1>4. \A d \in Proc : ProcessOK(d, proc'[d], server)
      BY Zenon DEF SetupInv, SetupTypeOK
<1>5. QED
      BY <1>1, <1>3, <1>4, SMTT(30) DEF SetupInv, ProcessOK, AgreesOn, MayCreate, AssetOf, Settled

\* An asset that appears disturbs nobody who is bound to others.
LEMMA AssetAppears ==
  ASSUME SetupInv, NEW c \in Proc, NEW v \in SetupProcess, NEW o \in Asset, NEW cfg \in Config,
         v.noCreate <=> proc[c].noCreate, v.noStorageCreate <=> proc[c].noStorageCreate,
         proc' = [proc EXCEPT ![c] = v], ~server[o].there, MayCreate(proc[c], o),
         server' = [server EXCEPT ![o] = [there |-> TRUE, cfg |-> cfg, by |-> c]],
         ProcessOK(c, v, server')
  PROVE  SetupInv'
<1>1. SetupTypeOK'
      <2>1. [there |-> TRUE, cfg |-> cfg, by |-> c] \in ServerAsset
            BY DEF ServerAsset
      <2>2. QED
            BY <2>1, ZenonT(30) DEF SetupInv, SetupTypeOK
<1>2. \A d \in Proc : /\ proc'[d].noCreate <=> proc[d].noCreate
                      /\ proc'[d].noStorageCreate <=> proc[d].noStorageCreate
      BY Zenon DEF SetupInv, SetupTypeOK
<1>3. /\ server'[o] = [there |-> TRUE, cfg |-> cfg, by |-> c]
      /\ \A a \in Asset : a # o => server'[a] = server[a]
      BY DEF SetupInv, SetupTypeOK
<1>4. BindersCreateNothing'
      <2> SUFFICES ASSUME NEW a \in Asset, server'[a].there, server'[a].by # Nobody
                   PROVE  IF a \in QueueAssets THEN ~proc'[server'[a].by].noCreate
                          ELSE ~proc'[server'[a].by].noStorageCreate
          BY ZenonT(30) DEF BindersCreateNothing, Exists
      <2>1. CASE a = o
            BY <1>2, <1>3, <2>1, SMTT(30) DEF MayCreate
      <2>2. CASE a # o
            <3>1. server'[a] = server[a] /\ server[a].by \in Proc
                  BY <1>3, <2>2, ZenonT(30) DEF SetupInv, SetupTypeOK, ServerAsset
            <3>2. IF a \in QueueAssets THEN ~proc[server[a].by].noCreate
                  ELSE ~proc[server[a].by].noStorageCreate
                  BY <3>1, ZenonT(30) DEF SetupInv, BindersCreateNothing, Exists
            <3>3. QED
                  BY <1>2, <3>1, <3>2, ZenonT(30)
      <2>3. QED
            BY <2>1, <2>2, ZenonT(30)
<1>5. \A d \in Proc : ProcessOK(d, proc'[d], server')
      <2> TAKE d \in Proc
      <2>1. CASE d = c
            BY <2>1, ZenonT(30) DEF SetupInv, SetupTypeOK
      <2>2. CASE d # c
            <3>1. proc'[d] = proc[d] /\ ProcessOK(d, proc[d], server)
                  BY <2>2, ZenonT(30) DEF SetupInv, SetupTypeOK
            <3>2. \A i \in Settled(d, proc[d]) : i \in 1..5
                  <4>1. proc[d].step \in 1..5
                        BY Zenon DEF SetupInv, SetupTypeOK, SetupProcess
                  <4>2. QED
                        BY <4>1 DEF Settled
            <3>3. \A i \in Settled(d, proc[d]) :
                     AgreesOn(proc[d], server, Assets[i]) => AgreesOn(proc[d], server', Assets[i])
                  BY <1>3, <3>2, AssetTypes, ZenonT(30) DEF AgreesOn
            <3>4. QED
                  BY <3>1, <3>3, ZenonT(30) DEF ProcessOK
      <2>3. QED
            BY <2>1, <2>2, ZenonT(30)
<1>6. QED
      BY <1>1, <1>4, <1>5, ZenonT(30) DEF SetupInv, ProcessOK, AgreesOn, MayCreate, AssetOf, Settled

\* A process that is bound to one more asset agrees with server s on it, too.
LEMMA BoundOK ==
  ASSUME NEW c \in Proc, NEW p \in SetupProcess, NEW s \in [Asset -> ServerAsset],
         p.pc \in {"load", "create"}, ProcessOK(c, p, s),
         s[AssetOf(p)].there
  PROVE  ProcessOK(c, Bound(c, p, AssetOf(p), s[AssetOf(p)].cfg), s)
<1> DEFINE o == AssetOf(p)
           v == Bound(c, p, o, s[o].cfg)
<1>1. o \in Asset /\ s[o].cfg \in Config
      BY AssetTypes, ZenonT(30) DEF ServerAsset
<1>2. /\ v.held = [p.held EXCEPT ![o] = s[o].cfg] /\ p.held \in [Asset -> Config]
      /\ v.step = IF p.step = 5 THEN 5 ELSE p.step + 1
      /\ v.pc = IF p.step < 5 THEN "load" ELSE IF c \in Post THEN "show" ELSE "ready"
      /\ p.step \in 1..5 /\ (v.stale <=> p.stale)
      BY <1>1, BoundFields, SMTT(30) DEF SetupProcess
<1> HIDE DEF v
<1>3. ASSUME ~v.stale, NEW i \in Settled(c, v)
      PROVE  AgreesOn(v, s, Assets[i])
      <2>1. i \in 1..5 /\ Assets[i] \in Asset /\ (i = p.step \/ i \in Settled(c, p))
            BY <1>2, <1>3, AssetTypes, SMTT(30) DEF Settled
      <2>2. CASE Assets[i] = o
            BY <1>1, <1>2, <2>2, ZenonT(30) DEF AgreesOn
      <2>3. CASE Assets[i] # o
            <3>1. i \in Settled(c, p)
                  BY <2>1, <2>3, ZenonT(30) DEF AssetOf
            <3>2. AgreesOn(p, s, Assets[i])
                  BY <1>2, <1>3, <3>1, ZenonT(30) DEF ProcessOK
            <3>3. QED
                  BY <1>2, <2>1, <2>3, <3>2, ZenonT(30) DEF AgreesOn
      <2>4. QED
            BY <2>2, <2>3, ZenonT(30)
<1>4. v.pc # "create" /\ v.pc # "idle" /\ (v.pc = "show" => c \in Post)
      BY <1>2, ZenonT(30)
<1>5. ProcessOK(c, v, s)
      BY <1>3, <1>4, ZenonT(30) DEF ProcessOK
<1>6. QED
      BY <1>5 DEF v

\* What becomes of a process whose control changes.
Goto(p, k, n) == [p EXCEPT !.pc = k, !.step = n]

LEMMA GotoFields ==
  ASSUME NEW p \in SetupProcess, NEW n \in 1..5, NEW k \in {"load", "create", "failed", "conflict"}
  PROVE  LET v == Goto(p, k, n) IN
         /\ v \in SetupProcess /\ v.pc = k /\ v.step = n /\ v.held = p.held
         /\ (v.stale <=> p.stale) /\ (v.noCreate <=> p.noCreate)
         /\ (v.noStorageCreate <=> p.noStorageCreate)
BY Zenon DEF SetupProcess, Goto

\* A record whose field is set to what it is does not change.
LEMMA SameStep ==
  ASSUME NEW p \in SetupProcess, NEW k
  PROVE  [p EXCEPT !.pc = k] = Goto(p, k, p.step) /\ p.step \in 1..5
BY Zenon DEF SetupProcess, Goto

\* Every step of clients, requests and deletions keeps the invariant.
LEMMA SetupStep == SetupInv /\ [SetupNext]_setupVars => SetupInv'
<1> SUFFICES ASSUME SetupInv, [SetupNext]_setupVars PROVE SetupInv'
    OBVIOUS
<1>0. /\ server \in [Asset -> ServerAsset]
      /\ \A c \in Proc : proc[c] \in SetupProcess /\ ProcessOK(c, proc[c], server)
      BY DEF SetupInv, SetupTypeOK
<1>1. ASSUME NEW c \in Proc, NewClient(c) PROVE SetupInv'
      <2> DEFINE v == Goto(proc[c], "load", 1)
      <2>1. proc[c] \in SetupProcess /\ proc[c].step = 1 /\ c \notin Post
            BY <1>0, <1>1, SetupAssumption, ZenonT(30) DEF NewClient, ProcessOK
      <2>2. proc' = [proc EXCEPT ![c] = v] /\ server' = server
            BY <1>1, <2>1, SameStep, ZenonT(30) DEF NewClient, Become
      <2>3. /\ v \in SetupProcess /\ v.pc = "load" /\ v.step = 1
            /\ (v.noCreate <=> proc[c].noCreate) /\ (v.noStorageCreate <=> proc[c].noStorageCreate)
            BY <2>1, GotoFields, SMTT(30)
      <2> HIDE DEF v
      <2>4. ProcessOK(c, v, server)
            BY <2>3 DEF ProcessOK, Settled
      <2>5. QED
            BY <2>2, <2>3, <2>4, ProcessMoves, ZenonT(30)
<1>2. ASSUME NEW c \in Proc, CreateQueue(c) PROVE SetupInv'
      <2>1. PICK k \in {"load", "conflict"}, n \in 1..5 :
              proc' = [proc EXCEPT ![c] = Goto(proc[c], k, n)]
            <3>1. proc' = [proc EXCEPT ![c] = Goto(proc[c], "conflict", proc[c].step)]
                  \/ proc' = [proc EXCEPT ![c] = Goto(proc[c], "load", 4)]
                  BY <1>0, <1>2, SameStep, ZenonT(30) DEF CreateQueue, Become, Goto
            <3>2. proc[c].step \in 1..5
                  BY <1>0, Zenon DEF SetupProcess
            <3>3. QED
                  BY <3>1, <3>2, SMTT(30)
      <2> DEFINE v == Goto(proc[c], k, n)
      <2>2. c \in Post /\ server' = server
            BY <1>2, ZenonT(30) DEF CreateQueue
      <2>3. /\ v \in SetupProcess /\ v.pc = k
            /\ (v.noCreate <=> proc[c].noCreate) /\ (v.noStorageCreate <=> proc[c].noStorageCreate)
            BY <1>0, GotoFields, SMTT(30)
      <2> HIDE DEF v
      <2>4. ProcessOK(c, v, server)
            BY <2>2, <2>3, ZenonT(30) DEF ProcessOK, Settled
      <2>5. QED
            BY <2>1, <2>2, <2>3, <2>4, ProcessMoves, ZenonT(30) DEF v
<1>3. ASSUME NEW c \in Proc, NEW k \in {"create", "failed"}, server' = server,
             proc[c].pc \in {"load", "create"} \/ k = "failed", k = "create" => MayCreate(proc[c], AssetOf(proc[c])),
             proc' = [proc EXCEPT ![c] = [proc[c] EXCEPT !.pc = k]]
      PROVE  SetupInv'
      <2> DEFINE p == proc[c]
                 v == Goto(p, k, p.step)
      <2>1. p \in SetupProcess /\ ProcessOK(c, p, server)
            /\ (p.pc \in {"load", "create"} \/ k = "failed")
            BY <1>0, <1>3, ZenonT(30)
      <2>2. proc' = [proc EXCEPT ![c] = v] /\ p.step \in 1..5
            BY <1>3, <2>1, SameStep, ZenonT(30)
      <2>3. k = "create" => MayCreate(p, AssetOf(p))
            BY <1>3, ZenonT(30)
      <2> HIDE DEF p
      <2>4. /\ v \in SetupProcess /\ v.pc = k /\ v.step = p.step /\ v.held = p.held
            /\ (v.noCreate <=> p.noCreate) /\ (v.noStorageCreate <=> p.noStorageCreate)
            /\ (v.stale <=> p.stale)
            BY <2>1, <2>2, GotoFields, SMTT(30)
      <2> HIDE DEF v
      <2>5. ProcessOK(c, v, server)
            BY <2>1, <2>3, <2>4, ZenonT(30) DEF ProcessOK, Settled, MayCreate, AssetOf, AgreesOn
      <2>6. QED
            BY <1>3, <2>2, <2>4, <2>5, ProcessMoves, ZenonT(30) DEF p
<1>4. ASSUME NEW c \in Proc, proc[c].pc \in {"load", "create"}, server' = server,
             server[AssetOf(proc[c])].there,
             proc' = [proc EXCEPT ![c] =
                        Bound(c, proc[c], AssetOf(proc[c]), server[AssetOf(proc[c])].cfg)]
      PROVE  SetupInv'
      <2> DEFINE o == AssetOf(proc[c])
                 v == Bound(c, proc[c], o, server[o].cfg)
      <2>1. o \in Asset /\ server[o].cfg \in Config /\ proc[c] \in SetupProcess
            BY <1>0, AssetTypes, ZenonT(30) DEF ServerAsset
      <2>2. /\ v \in SetupProcess /\ (v.noCreate <=> proc[c].noCreate)
            /\ (v.noStorageCreate <=> proc[c].noStorageCreate)
            BY <2>1, BoundFields, ZenonT(30)
      <2>3. ProcessOK(c, v, server)
            BY <1>0, <1>4, <2>1, BoundOK, ZenonT(30)
      <2>4. QED
            BY <1>4, <2>2, <2>3, ProcessMoves, ZenonT(30)
<1>5. ASSUME NEW c \in Proc, Load(c) PROVE SetupInv'
      BY <1>3, <1>4, <1>5, ZenonT(30) DEF Load, Exists, Become
<1>6. ASSUME NEW c \in Proc, Create(c) PROVE SetupInv'
      <2> DEFINE p == proc[c]
                 o == AssetOf(p)
                 cfg == Wanted(p, o)
                 v == Bound(c, p, o, cfg)
      <2>1. o \in Asset /\ cfg \in Config /\ p \in SetupProcess /\ p.pc = "create"
            /\ ProcessOK(c, p, server) /\ MayCreate(p, o)
            BY <1>0, <1>6, AssetTypes, WantedType, ZenonT(30) DEF Create, ProcessOK
      <2>2. CASE server' = server /\ proc' = [proc EXCEPT ![c] = [p EXCEPT !.pc = "failed"]]
            BY <1>3, <2>1, <2>2, ZenonT(30)
      <2>5. CASE server' = server /\ server[o].there /\ server[o].cfg = cfg
                 /\ proc' = [proc EXCEPT ![c] = v]
            BY <1>4, <2>1, <2>5, ZenonT(30)
      <2>3. CASE /\ ~server[o].there /\ proc' = [proc EXCEPT ![c] = v]
                 /\ server' = [server EXCEPT ![o] = [there |-> TRUE, cfg |-> cfg, by |-> c]]
            <3>1. /\ server' \in [Asset -> ServerAsset] /\ server'[o].there
                  /\ server'[o].cfg = cfg
                  /\ \A a \in Asset : a # o => server'[a] = server[a]
                  BY <1>0, <2>1, <2>3, ZenonT(30) DEF ServerAsset
            <3>2. ProcessOK(c, p, server')
                  <4>1. \A i \in Settled(c, p) : Assets[i] \in Asset
                        BY <2>1, AssetTypes, SMTT(30) DEF Settled, SetupProcess
                  <4>2. \A i \in Settled(c, p) :
                          AgreesOn(p, server, Assets[i]) => AgreesOn(p, server', Assets[i])
                        BY <2>3, <3>1, <4>1, ZenonT(30) DEF AgreesOn
                  <4>3. QED
                        BY <2>1, <4>2, ZenonT(30) DEF ProcessOK
            <3>3. ProcessOK(c, v, server')
                  BY <2>1, <3>1, <3>2, BoundOK, ZenonT(30)
            <3>4. /\ v \in SetupProcess /\ (v.noCreate <=> p.noCreate)
                  /\ (v.noStorageCreate <=> p.noStorageCreate)
                  BY <2>1, BoundFields, ZenonT(30)
            <3>5. QED
                  BY <2>1, <2>3, <3>3, <3>4, AssetAppears, ZenonT(30)
      <2>4. QED
            BY <1>6, <2>2, <2>3, <2>5, ZenonT(30) DEF Create, Exists, Become
<1>7. ASSUME NEW c \in Proc, Show(c) PROVE SetupInv'
      <2> DEFINE p == proc[c]
      <2>1. p \in SetupProcess /\ ProcessOK(c, p, server) /\ p.pc = "show" /\ server' = server
            BY <1>0, <1>7, ZenonT(30) DEF Show
      <2>2. CASE server["queue"].there /\ server["consumer"].there
            <3> DEFINE h == [p.held EXCEPT !["queue"] = server["queue"].cfg,
                                           !["consumer"] = server["consumer"].cfg]
                       v == [p EXCEPT !.pc = "ready", !.held = h]
            <3>1. "queue" \in Asset /\ "consumer" \in Asset
                  BY AssetTypes, SMTT(30) DEF QueueAssets
            <3>2. /\ h \in [Asset -> Config] /\ h["queue"] = server["queue"].cfg
                  /\ h["consumer"] = server["consumer"].cfg
                  BY <1>0, <2>1, <3>1, ZenonT(30) DEF SetupProcess, ServerAsset
            <3>3. proc' = [proc EXCEPT ![c] = v]
                  BY <1>7, <2>1, <2>2, ZenonT(30) DEF Show, Exists, Become, SetupProcess
            <3> HIDE DEF p, h
            <3>4. /\ v \in SetupProcess /\ v.pc = "ready" /\ v.held = h
                  /\ (v.noCreate <=> p.noCreate) /\ (v.noStorageCreate <=> p.noStorageCreate)
                  BY <2>1, <3>2, ZenonT(30) DEF SetupProcess
            <3> HIDE DEF v
            <3>5. c \in Post
                  BY <2>1, ZenonT(30) DEF ProcessOK
            <3>6. \A i \in Settled(c, v) : i \in 4..5
                  BY <3>4, <3>5, ZenonT(30) DEF Settled
            <3>7. ProcessOK(c, v, server)
                  BY <2>2, <3>2, <3>4, <3>6, AssetTypes, SMTT(30) DEF ProcessOK, AgreesOn
            <3>8. QED
                  BY <2>1, <3>3, <3>4, <3>7, ProcessMoves, ZenonT(30) DEF p
      <2>3. CASE ~(server["queue"].there /\ server["consumer"].there)
            <3>1. proc' = [proc EXCEPT ![c] = [p EXCEPT !.pc = "failed"]]
                  BY <1>7, <2>3, ZenonT(30) DEF Show, Exists, Become
            <3>2. QED
                  BY <1>3, <2>1, <3>1, ZenonT(30)
      <2>4. QED
            BY <2>2, <2>3, ZenonT(30)
<1>8. CASE DeleteQueue
      <2>1. /\ server' = [o \in Asset |-> IF o \in QueueAssets THEN Missing ELSE server[o]]
            /\ proc' = [c \in Proc |-> IF proc[c].pc \in {"idle", "failed"} THEN proc[c]
                                       ELSE [proc[c] EXCEPT !.stale = TRUE]]
            BY <1>8, SMTT(30) DEF DeleteQueue
      <2>2. ASSUME NEW c \in Proc
            PROVE  /\ proc'[c] \in SetupProcess /\ proc'[c].pc = proc[c].pc
                   /\ proc'[c].step = proc[c].step
                   /\ (proc'[c].noCreate <=> proc[c].noCreate)
                   /\ (proc'[c].noStorageCreate <=> proc[c].noStorageCreate)
                   /\ proc'[c].stale \/ proc[c].pc \in {"idle", "failed"}
            BY <1>0, <2>1, ZenonT(30) DEF SetupProcess
      <2>3. SetupTypeOK'
            <3>1. Missing \in ServerAsset
                  BY Zenon DEF Missing, ServerAsset, Config
            <3>2. server' \in [Asset -> ServerAsset]
                  BY <1>0, <2>1, <3>1, ZenonT(30)
            <3>3. QED
                  BY <2>1, <2>2, <3>2, ZenonT(30) DEF SetupTypeOK
      <2>4. BindersCreateNothing'
            <3> SUFFICES ASSUME NEW o \in Asset, server'[o].there, server'[o].by # Nobody
                         PROVE  IF o \in QueueAssets THEN ~proc'[server'[o].by].noCreate
                                ELSE ~proc'[server'[o].by].noStorageCreate
                BY Zenon DEF BindersCreateNothing, Exists
            <3>1. o \notin QueueAssets /\ server'[o] = server[o]
                  BY <2>1 DEF Missing
            <3>2. server[o].by \in Proc /\ ~proc[server[o].by].noStorageCreate
                  BY <1>0, <3>1, ZenonT(30) DEF SetupInv, BindersCreateNothing, Exists, ServerAsset
            <3>3. QED
                  BY <2>2, <3>1, <3>2, ZenonT(30)
      <2>5. \A c \in Proc : ProcessOK(c, proc'[c], server')
            BY <1>0, <2>2, ZenonT(30) DEF ProcessOK, Settled, MayCreate, AssetOf
      <2>6. QED
            BY <2>3, <2>4, <2>5, ZenonT(30) DEF SetupInv, ProcessOK, AgreesOn, MayCreate, AssetOf, Settled
<1>9. CASE UNCHANGED setupVars
      BY <1>9, ZenonT(30) DEF setupVars, SetupInv, SetupTypeOK, BindersCreateNothing, Exists, ProcessOK,
                  AgreesOn, MayCreate, AssetOf, Settled
<1>10. QED
      BY <1>1, <1>2, <1>5, <1>6, <1>7, <1>8, <1>9, ZenonT(30) DEF SetupNext

\* A cluster with nothing or with the stores an operator made, and processes
\* that have not started.
LEMMA SetupStart == SetupInit => SetupInv
<1> SUFFICES ASSUME SetupInit PROVE SetupInv
    OBVIOUS
<1>1. \A o \in Asset : server[o] \in ServerAsset /\ server[o].by = Nobody
      <2>1. Missing \in ServerAsset /\ Missing.by = Nobody
            BY Zenon DEF Missing, ServerAsset, Config
      <2>2. \A l \in Layouts : [there |-> TRUE, cfg |-> [layout |-> l], by |-> Nobody] \in ServerAsset
            BY SetupAssumption, ZenonT(30) DEF ServerAsset, Config
      <2>3. QED
            BY <2>1, <2>2, SMTT(30) DEF SetupInit
<1>2. server \in [Asset -> ServerAsset]
      BY <1>1, ZenonT(30) DEF SetupInit
<1>3. proc \in [Proc -> SetupProcess] /\ \A c \in Proc : proc[c].pc = "idle" /\ proc[c].step = 1
      <2> DEFINE none == [o \in Asset |-> [layout |-> 0]]
                 P == [pc : {"idle"}, step : {1}, held : {none}, stale : {FALSE}, layout : Layouts,
                       queue : QueueSettings, noStorageCreate : BOOLEAN, noCreate : BOOLEAN]
      <2>1. none \in [Asset -> Config]
            BY Zenon DEF Config
      <2>2. proc \in [Proc -> P]
            BY Zenon DEF SetupInit
      <2> HIDE DEF none
      <2>3. \A p \in P : p \in SetupProcess /\ p.pc = "idle" /\ p.step = 1
            <3> SUFFICES ASSUME NEW p \in P
                         PROVE  p \in SetupProcess /\ p.pc = "idle" /\ p.step = 1
                BY Zenon
            <3>1. p.stale \in BOOLEAN
                  <4>1. p.stale \in {FALSE}
                        BY ZenonT(30)
                  <4>2. QED
                        BY <4>1, ZenonT(30)
            <3>2. p.step \in 1..5 /\ p.held \in [Asset -> Config]
                  BY <2>1, SMTT(30)
            <3>3. /\ p = [pc |-> p.pc, step |-> p.step, held |-> p.held, stale |-> p.stale,
                          layout |-> p.layout, queue |-> p.queue,
                          noStorageCreate |-> p.noStorageCreate, noCreate |-> p.noCreate]
                  /\ p.pc = "idle" /\ p.step = 1 /\ p.layout \in Layouts /\ p.queue \in QueueSettings
                  /\ p.noStorageCreate \in BOOLEAN /\ p.noCreate \in BOOLEAN
                  BY Zenon
            <3> HIDE DEF P
            <3>4. QED
                  BY <3>1, <3>2, <3>3, ZenonT(30) DEF SetupProcess
      <2> HIDE DEF P
      <2>4. QED
            BY <2>2, <2>3, ZenonT(30)
<1>4. BindersCreateNothing
      BY <1>1, ZenonT(30) DEF BindersCreateNothing
<1>5. \A c \in Proc : ProcessOK(c, proc[c], server)
      BY <1>3, SMTT(30) DEF ProcessOK, Settled
<1>6. QED
      BY <1>2, <1>3, <1>4, <1>5, ZenonT(30) DEF SetupInv, SetupTypeOK

\* NewClient and POST /v1/queues end bound to what the server has, whoever made
\* it, unless the queue was deleted meanwhile.
THEOREM ClientsAgree == SetupSpec => []ReadyAgrees
<1>1. SetupInv => ReadyAgrees
      <2> SUFFICES ASSUME SetupInv, NEW c \in Proc, proc[c].pc = "ready", ~proc[c].stale,
                          NEW o \in IF c \in Post THEN QueueAssets ELSE Asset
                   PROVE  server[o].there /\ proc[c].held[o] = server[o].cfg
          BY Zenon DEF ReadyAgrees, Ready, Exists
      <2>1. \A i \in Settled(c, proc[c]) : AgreesOn(proc[c], server, Assets[i])
            BY Zenon DEF SetupInv, ProcessOK
      <2>2. \E i \in Settled(c, proc[c]) : o = Assets[i]
            BY AssetTypes, SMTT(30) DEF Settled, QueueAssets
      <2>3. QED
            BY <2>1, <2>2, ZenonT(30) DEF AgreesOn
<1>2. QED
      BY <1>1, SetupStart, SetupStep, PTL DEF SetupSpec

\* A client told not to create stores or queues creates none, whatever appears
\* or disappears while it starts.
THEOREM BindersOnlyBind == SetupSpec => []BindersCreateNothing
<1>1. SetupInv => BindersCreateNothing
      BY DEF SetupInv
<1>2. QED
      BY <1>1, SetupStart, SetupStep, PTL DEF SetupSpec

----------------------------------------------------------------------------
(***************************************************************************)
(* Delays between tries.                                                   *)
(***************************************************************************)
\* The longest interval of a policy.
Longest(p) == p.Intervals[Len(p.Intervals)]

\* The policies there are: at least one interval, none empty, growing, and a
\* factor for the jitter below one.  The first interval is either a millisecond
\* or not rounded to nothing.
Growing(p) ==
  /\ p.Jitter \in {1, 5, 9}
  /\ Len(p.Intervals) \in Nat \ {0}
  /\ \A i \in 1..Len(p.Intervals) : p.Intervals[i] \in Nat \ {0}
  /\ p.Intervals[1] = ms \/ p.Intervals[1] >= 5 * ms
  /\ \A i, j \in 1..Len(p.Intervals) : i <= j => p.Intervals[i] <= p.Intervals[j]

\* The size of a step.
LEMMA StepSize ==
  ASSUME NEW steps \in Nat \ {0}, NEW room \in Nat
  PROVE  /\ room \div steps \in Nat
         /\ steps * (room \div steps) <= room /\ room < steps * (room \div steps) + steps
  OBVIOUS

\* The intervals of linearPolicy.
Linear(p, steps, factor, low, size) ==
  /\ size \in Nat /\ p.Jitter = factor /\ Len(p.Intervals) = steps
  /\ \A i \in 1..steps : p.Intervals[i] = low + (i - 1) * size

LEMMA LinearIs ==
  ASSUME NEW steps \in Nat \ {0}, NEW factor, NEW low \in Nat, NEW high \in Nat, low < high
  PROVE  Linear(linearPolicy(steps, factor, low, high), steps, factor, low, (high - low) \div steps)
<1>. DEFINE size == (high - low) \div steps
            p == linearPolicy(steps, factor, low, high)
<1>1. size \in Nat
  <2>1. high - low \in Nat
    OBVIOUS
  <2>. QED
    BY <2>1, StepSize, ZenonT(30)
<1>2. p = [Intervals |-> [i \in 1..steps |-> low + (i - 1) * size], Jitter |-> factor]
  <2>1. ~(high < low)
    OBVIOUS
  <2>. QED
    BY <2>1, ZenonT(30) DEF linearPolicy
<1>. HIDE DEF size, p
<1>3. p.Jitter = factor /\ p.Intervals = [i \in 1..steps |-> low + (i - 1) * size]
  BY <1>2, ZenonT(30)
<1>4. Len(p.Intervals) = steps
  BY <1>3, SMTT(30)
<1>5. \A i \in 1..steps : p.Intervals[i] = low + (i - 1) * size
  BY <1>3, ZenonT(30)
<1>. QED
  BY <1>1, <1>3, <1>4, <1>5, ZenonT(30) DEF size, p, Linear

LEMMA LinearGrows ==
  ASSUME NEW steps \in Nat \ {0}, NEW factor \in {1, 5, 9}, NEW low \in Nat, NEW high \in Nat,
         low = ms \/ low >= 5 * ms, low < high
  PROVE  Growing(linearPolicy(steps, factor, low, high))
<1>. DEFINE size == (high - low) \div steps
            p == linearPolicy(steps, factor, low, high)
<1>0. Linear(p, steps, factor, low, size)
  BY LinearIs, Zenon
<1>. HIDE DEF size, p
<1>1. /\ size \in Nat /\ p.Jitter = factor /\ Len(p.Intervals) = steps
      /\ \A i \in 1..steps : p.Intervals[i] = low + (i - 1) * size
  BY <1>0, ZenonT(30) DEF Linear
<1>5. \A i \in 1..steps : p.Intervals[i] = low + (i - 1) * size
  BY <1>1, SMTT(30)
<1>6. \A k \in Nat : k * size \in Nat
  BY <1>1, SMTT(30)
<1>7. /\ \A i \in 1..steps : p.Intervals[i] \in Nat \ {0}
      /\ p.Intervals[1] = low
  <2>1. low \in Nat \ {0}
    BY DEF ms
  <2>2. ASSUME NEW i \in 1..steps PROVE p.Intervals[i] \in Nat \ {0}
    <3>1. i - 1 \in Nat
      OBVIOUS
    <3>2. PICK k \in Nat : k = (i - 1) * size
      BY <1>6, <3>1, ZenonT(30)
    <3>3. p.Intervals[i] = low + k
      BY <1>5, <3>2, ZenonT(30)
    <3>. QED
      BY <2>1, <3>3, SMTT(30)
  <2>3. 1 \in 1..steps /\ (1 - 1) * size = 0
    BY <1>1, SMTT(30)
  <2>4. p.Intervals[1] = low + 0
    BY <1>5, <2>3, ZenonT(30)
  <2>. QED
    BY <2>1, <2>2, <2>4, SMTT(30)
<1>8. ASSUME NEW i \in 1..steps, NEW j \in 1..steps, i <= j
      PROVE  p.Intervals[i] <= p.Intervals[j]
  <2>1. (i - 1) * size <= (j - 1) * size
    BY <1>1, <1>8, SMTT(30)
  <2>2. i - 1 \in Nat /\ j - 1 \in Nat
    OBVIOUS
  <2>3. PICK k \in Nat, l \in Nat : k = (i - 1) * size /\ l = (j - 1) * size
    BY <1>6, <2>2, ZenonT(30)
  <2>4. k <= l
    BY <2>1, <2>3, ZenonT(30)
  <2>5. p.Intervals[i] = low + k /\ p.Intervals[j] = low + l
    BY <1>5, <2>3, ZenonT(30)
  <2>. QED
    BY <2>4, <2>5, SMTT(30)
<1>. QED
  BY <1>1, <1>7, <1>8, ZenonT(30) DEF Growing, p

\* The predefined policies are such policies.
LEMMA PoliciesGrow ==
  ASSUME NEW name \in PolicyNames
  PROVE  Growing(Policy(name))
<1>0. /\ ms \in Nat /\ second \in Nat /\ minute \in Nat
      /\ 0 < ms /\ 5 * ms <= 500 * ms /\ 500 * ms < 10 * second
      /\ 5 * ms <= second /\ second < minute
  BY DEF ms, second, minute
<1>1. CASE name \in {"default", "10m"}
  <2>1. Policy(name) = linearPolicy(50, 9, minute, 10 * minute)
    BY <1>1, ZenonT(30) DEF Policy
  <2>. QED
    BY <1>0, <2>1, LinearGrows, SMTT(30)
<1>2. CASE name = "1h"
  <2>1. Policy(name) = linearPolicy(20, 9, 10 * minute, 60 * minute)
    BY <1>2, ZenonT(30) DEF Policy
  <2>. QED
    BY <1>0, <2>1, LinearGrows, SMTT(30)
<1>3. CASE name = "1m"
  <2>1. Policy(name) = linearPolicy(20, 5, second, minute)
    BY <1>3, ZenonT(30) DEF Policy
  <2>. QED
    BY <1>0, <2>1, LinearGrows, SMTT(30)
<1>4. CASE name = "poll"
  <2>1. Policy(name) = linearPolicy(20, 1, 500 * ms, 10 * second)
    BY <1>4, ZenonT(30) DEF Policy
  <2>. QED
    BY <1>0, <2>1, LinearGrows, SMTT(30)
<1>5. CASE name = "testing"
  <2>1. Policy(name) = linearPolicy(1, 1, ms, 10 * ms)
    BY <1>5, ZenonT(30) DEF Policy
  <2>. QED
    BY <1>0, <2>1, LinearGrows, SMTT(30)
<1>. QED
  BY <1>1, <1>2, <1>3, <1>4, <1>5, ZenonT(30) DEF PolicyNames

\* A policy and the range low to high it is documented with: it starts at the
\* low end and stays below the high end, and the jitter's share of its second
\* interval is no less than the low end (polls start with the first).
InRange(p, low, high, name) ==
  /\ low \in Nat /\ high \in Nat /\ p.Intervals[1] = low /\ Longest(p) + ms <= high
  /\ \/ Len(p.Intervals) = 1 /\ low = ms
     \/ /\ Len(p.Intervals) > 1 /\ \E k \in Nat : low = 10 * ms * k
        /\ name # "poll" => 10 * low <= p.Jitter * p.Intervals[2]

\* Its ends, in terms of the size of a step.
Ends(p, steps, factor, low, high, size) ==
  /\ size \in Nat /\ p.Jitter = factor /\ Len(p.Intervals) = steps /\ p.Intervals[1] = low
  /\ Longest(p) \in Nat /\ Longest(p) + size <= high /\ high - low < steps * size + steps
  /\ steps > 1 => p.Intervals[2] = low + size

LEMMA LinearRange ==
  ASSUME NEW steps \in Nat \ {0}, NEW factor, NEW low \in Nat, NEW high \in Nat, low < high
  PROVE  Ends(linearPolicy(steps, factor, low, high), steps, factor, low, high, (high - low) \div steps)
<1>. DEFINE size == (high - low) \div steps
            p == linearPolicy(steps, factor, low, high)
<1>1. Linear(p, steps, factor, low, size)
  BY LinearIs, Zenon
<1>2. /\ size \in Nat /\ p.Jitter = factor /\ Len(p.Intervals) = steps
      /\ \A i \in 1..steps : p.Intervals[i] = low + (i - 1) * size
  BY <1>1, ZenonT(30) DEF Linear
<1>3. steps * size <= high - low /\ high - low < steps * size + steps
  <2>1. high - low \in Nat
    OBVIOUS
  <2>. QED
    BY <2>1, StepSize, ZenonT(30)
<1>. HIDE DEF size, p
<1>4. 1 \in 1..steps /\ steps \in 1..steps /\ (steps > 1 => 2 \in 1..steps)
  OBVIOUS
<1>5. low + (1 - 1) * size = low /\ low + (2 - 1) * size = low + size
      /\ low + (steps - 1) * size \in Nat /\ (low + (steps - 1) * size) + size <= high
  <2>1. (steps - 1) * size = steps * size - size
    BY <1>2, SMTT(30)
  <2>2. steps * size \in Nat /\ (steps - 1) * size \in Nat
    BY <1>2
  <2>. QED
    BY <1>2, <1>3, <2>1, <2>2, SMTT(30)
<1>. QED
  <2>1. p.Intervals[1] = low /\ Longest(p) \in Nat /\ Longest(p) + size <= high /\ (steps > 1 => p.Intervals[2] = low + size)
    BY <1>2, <1>4, <1>5, ZenonT(30) DEF Longest
  <2>. QED
    BY <1>2, <1>3, <2>1, ZenonT(30) DEF p, size, Ends

\* What the ends of a range have to meet, for a policy of several steps and for
\* one of a single step.
Room(steps, factor, low, high, name) ==
  /\ low \in Nat /\ high \in Nat /\ low < high
  /\ \E k \in Nat : low = 10 * ms * k
  /\ \A size \in Nat : high - low < steps * size + steps =>
       ms <= size /\ (name # "poll" => 10 * low <= factor * (low + size))

LEMMA LinearInRange ==
  ASSUME NEW steps \in Nat, steps > 1, NEW factor, NEW low, NEW high, NEW name,
         Room(steps, factor, low, high, name)
  PROVE  InRange(linearPolicy(steps, factor, low, high), low, high, name)
<1>. DEFINE p == linearPolicy(steps, factor, low, high)
            size == (high - low) \div steps
<1>0. low \in Nat /\ high \in Nat /\ low < high /\ steps \in Nat \ {0}
  BY DEF Room
<1>1. Ends(p, steps, factor, low, high, size)
  BY <1>0, LinearRange, ZenonT(30)
<1>. HIDE DEF p, size
<1>2. ms <= size /\ (name # "poll" => 10 * low <= p.Jitter * p.Intervals[2])
  BY <1>1, ZenonT(30) DEF Room, Ends
<1>3. Longest(p) + ms <= high
  BY <1>0, <1>1, <1>2, SMTT(30) DEF ms, Ends
<1>. QED
  BY <1>0, <1>1, <1>2, <1>3, ZenonT(30) DEF InRange, p, Room, Ends

LEMMA SingleInRange ==
  ASSUME NEW factor, NEW high \in Nat, 2 * ms < high, NEW name
  PROVE  InRange(linearPolicy(1, factor, ms, high), ms, high, name)
<1>. DEFINE p == linearPolicy(1, factor, ms, high)
            size == (high - ms) \div 1
<1>1. 1 \in Nat \ {0} /\ ms \in Nat /\ ms < high
  BY DEF ms
<1>2. Ends(p, 1, factor, ms, high, size)
  BY <1>1, LinearRange, ZenonT(30)
<1>. HIDE DEF p, size
<1>3. ms <= size
  BY <1>1, <1>2, SMTT(30) DEF ms, Ends
<1>4. Longest(p) + ms <= high
  BY <1>1, <1>2, <1>3, SMTT(30) DEF ms, Ends
<1>. QED
  BY <1>1, <1>2, <1>4, ZenonT(30) DEF InRange, p, Ends

LEMMA Ranges ==
  ASSUME NEW name \in PolicyNames
  PROVE  InRange(Policy(name), Documented(name).low, Documented(name).high, name)
<1>0. ms = 10 /\ second = 1000 * ms /\ minute = 60 * second
  BY Zenon DEF ms, second, minute
<1>1. CASE name \in {"default", "10m"}
  <2>1. Policy(name) = linearPolicy(50, 9, minute, 10 * minute)
    BY <1>1, ZenonT(30) DEF Policy
  <2>2. Documented(name).low = minute /\ Documented(name).high = 10 * minute
    BY <1>1, SMTT(30) DEF Documented
  <2>3. Room(50, 9, minute, 10 * minute, name)
    <3>1. minute \in Nat /\ 10 * minute \in Nat /\ minute < 10 * minute /\ minute = 10 * ms * (6 * 1000) /\ (6 * 1000) \in Nat
      BY <1>0
    <3>2. ASSUME NEW size \in Nat, 10 * minute - minute < 50 * size + 50
          PROVE  ms <= size /\ 10 * (minute) <= 9 * (minute + size)
      BY <1>0, <3>2, SMTT(30)
    <3>. QED
      BY <1>1, <3>1, <3>2, SMTT(30) DEF Room
  <2>4. 50 \in Nat /\ 50 > 1
    OBVIOUS
  <2>. QED
    BY <2>1, <2>2, <2>3, <2>4, LinearInRange, ZenonT(30)
<1>2. CASE name = "1h"
  <2>1. Policy(name) = linearPolicy(20, 9, 10 * minute, 60 * minute)
    BY <1>2, ZenonT(30) DEF Policy
  <2>2. Documented(name).low = 10 * minute /\ Documented(name).high = 60 * minute
    BY <1>2, SMTT(30) DEF Documented
  <2>3. Room(20, 9, 10 * minute, 60 * minute, name)
    <3>1. 10 * minute \in Nat /\ 60 * minute \in Nat /\ 10 * minute < 60 * minute /\ 10 * minute = 10 * ms * (60 * 1000) /\ (60 * 1000) \in Nat
      BY <1>0, SMTT(30)
    <3>2. ASSUME NEW size \in Nat, 60 * minute - 10 * minute < 20 * size + 20
          PROVE  ms <= size /\ 10 * (10 * minute) <= 9 * (10 * minute + size)
      BY <1>0, <3>2, SMTT(30)
    <3>. QED
      BY <1>2, <3>1, <3>2, SMTT(30) DEF Room
  <2>4. 20 \in Nat /\ 20 > 1
    OBVIOUS
  <2>. QED
    BY <2>1, <2>2, <2>3, <2>4, LinearInRange, ZenonT(30)
<1>3. CASE name = "1m"
  <2>1. Policy(name) = linearPolicy(20, 5, second, minute)
    BY <1>3, ZenonT(30) DEF Policy
  <2>2. Documented(name).low = second /\ Documented(name).high = minute
    BY <1>3, SMTT(30) DEF Documented
  <2>3. Room(20, 5, second, minute, name)
    <3>1. second \in Nat /\ minute \in Nat /\ second < minute /\ second = 10 * ms * 100 /\ 100 \in Nat
      BY <1>0, SMTT(30)
    <3>2. ASSUME NEW size \in Nat, minute - second < 20 * size + 20
          PROVE  ms <= size /\ 10 * (second) <= 5 * (second + size)
      BY <1>0, <3>2, SMTT(30)
    <3>. QED
      BY <1>3, <3>1, <3>2, SMTT(30) DEF Room
  <2>4. 20 \in Nat /\ 20 > 1
    OBVIOUS
  <2>. QED
    BY <2>1, <2>2, <2>3, <2>4, LinearInRange, ZenonT(30)
<1>4. CASE name = "poll"
  <2>. DEFINE lo == 500 * ms
  <2>1. Policy(name) = linearPolicy(20, 1, lo, 10 * second)
    BY <1>4, ZenonT(30) DEF Policy
  <2>2. Documented(name).low = lo /\ Documented(name).high = 10 * second
    BY <1>4, SMTT(30) DEF Documented
  <2>3. Room(20, 1, lo, 10 * second, name)
    <3>1. lo \in Nat /\ 10 * second \in Nat /\ lo < 10 * second /\ lo = 10 * ms * 50 /\ 50 \in Nat
      BY <1>0, SMTT(30)
    <3>2. ASSUME NEW size \in Nat, 10 * second - lo < 20 * size + 20
          PROVE  ms <= size
      BY <1>0, <3>2, SMTT(30)
    <3>. QED
      BY <1>4, <3>1, <3>2, SMTT(30) DEF Room
  <2>4. 20 \in Nat /\ 20 > 1
    OBVIOUS
  <2>. HIDE DEF lo
  <2>. QED
    BY <2>1, <2>2, <2>3, <2>4, LinearInRange, ZenonT(30)
<1>5. CASE name = "testing"
  <2>1. Policy(name) = linearPolicy(1, 1, ms, 10 * ms)
    BY <1>5, ZenonT(30) DEF Policy
  <2>2. Documented(name).low = ms /\ Documented(name).high = 10 * ms
    BY <1>5, SMTT(30) DEF Documented
  <2>. QED
    BY <1>0, <2>1, <2>2, SingleInRange, SMTT(30)
<1>. QED
  BY <1>1, <1>2, <1>3, <1>4, <1>5, ZenonT(30) DEF PolicyNames

\* The delay an interval d gives with the random number r: a multiple of a
\* millisecond, less than twice the interval and half a millisecond.
Delay(j, d, r) == Round((d * j) \div 10 + r)

LEMMA DelayBounds ==
  ASSUME NEW j \in {1, 5, 9}, NEW d \in Nat \ {0}, NEW r \in 0..(d - 1)
  PROVE  /\ Delay(j, d, r) \in Nat /\ Delay(j, d, r) < 2 * d + ms
         /\ Delay(j, d, r) # 0 => Delay(j, d, r) >= ms
  BY DEF Delay, Round, ms

\* A longer interval with any random number gives no shorter delay than a
\* shorter one with the smallest.
LEMMA DelayGrows ==
  ASSUME NEW j \in {1, 5, 9}, NEW d \in Nat \ {0}, NEW e \in Nat, d <= e, NEW r \in 0..(e - 1)
  PROVE  Delay(j, d, 0) <= Delay(j, e, r)
  BY DEF Delay, Round, ms

\* The interval of try n.
Interval(p, n) == p.Intervals[IF n >= Len(p.Intervals) THEN Len(p.Intervals) ELSE n + 1]

\* What Duration makes of the delay.
Nonzero(p, x, r) == IF Delay(p.Jitter, x, r) = 0 THEN p.Intervals[1] ELSE Delay(p.Jitter, x, r)

\* The intervals of the tries.
LEMMA Intervals ==
  ASSUME NEW p, Growing(p), NEW n \in Nat
  PROVE  /\ Interval(p, n) \in Nat \ {0} /\ Interval(p, n) <= Longest(p)
         /\ p.Intervals[1] <= Interval(p, n) /\ p.Intervals[1] \in Nat \ {0} /\ Longest(p) \in Nat
         /\ \A m \in Nat : n <= m => Interval(p, n) <= Interval(p, m)
<1>. DEFINE len == Len(p.Intervals)
            Nth(i) == IF i >= len THEN len ELSE i + 1
<1>1. len \in Nat \ {0} /\ \A i \in Nat : Nth(i) \in 1..len /\ Nth(i) <= len /\ 1 <= Nth(i)
  BY SMTT(30) DEF Growing
<1>2. \A m \in Nat : n <= m => Nth(n) <= Nth(m)
  BY <1>1, SMTT(30)
<1>3. \A i \in Nat : Interval(p, i) = p.Intervals[Nth(i)]
  BY DEF Interval
<1>4. /\ \A i \in 1..len : p.Intervals[i] \in Nat \ {0}
      /\ \A i, j \in 1..len : i <= j => p.Intervals[i] <= p.Intervals[j]
      /\ Longest(p) = p.Intervals[len]
  BY ZenonT(30) DEF Growing, Longest
<1>5. 1 \in 1..len /\ len \in 1..len
  BY <1>1, SMTT(30)
<1>. HIDE DEF len, Nth
<1>. QED
  BY <1>1, <1>2, <1>3, <1>4, <1>5, ZenonT(30)

\* The delays of try n are those its interval gives with some random number,
\* the smallest among them.
LEMMA DurationIs ==
  ASSUME NEW p, Growing(p), NEW n \in Nat, NEW x, x = Interval(p, n)
  PROVE  /\ \A d \in Duration(p, n) : \E r \in 0..(x - 1) : d = Nonzero(p, x, r)
         /\ Nonzero(p, x, 0) \in Duration(p, n)
<1>. DEFINE k == IF n >= Len(p.Intervals) THEN Len(p.Intervals) - 1 ELSE n
<1>1. x \in Nat \ {0} /\ x = p.Intervals[k + 1]
  BY Intervals, SMTT(30) DEF Growing, Interval
<1>2. Duration(p, n) = {IF d = 0 THEN p.Intervals[1] ELSE d : d \in jitter(p, x)}
  BY <1>1, ZenonT(30) DEF Duration
<1>3. jitter(p, x) = {Delay(p.Jitter, x, r) : r \in Draws(x)}
  BY <1>1, ZenonT(30) DEF jitter, Delay
<1>4. Draws(x) \subseteq 0..(x - 1) /\ 0 \in Draws(x)
  BY <1>1, SMTT(30) DEF Draws
<1>. QED
  BY <1>2, <1>3, <1>4, ZenonT(30) DEF Nonzero

\* A delay is no less than the jitter's share of the interval and exceeds the
\* interval by no more than that share.
LEMMA DelayRange ==
  ASSUME NEW j \in {1, 5, 9}, NEW x \in Nat \ {0}, NEW r \in 0..(x - 1)
  PROVE  /\ \A k \in Nat : 10 * ms * k <= j * x => ms * k <= Delay(j, x, r)
         /\ 10 * Delay(j, x, r) <= (10 + j) * x + 40
  BY SMTT(30) DEF Delay, Round, ms

\* The interval of an item that is given back is at least the second.
LEMMA LaterInterval ==
  ASSUME NEW p, Growing(p), NEW n \in Nat \ {0}, Len(p.Intervals) > 1
  PROVE  p.Intervals[2] <= Interval(p, n)
<1>1. Interval(p, 1) = p.Intervals[2]
  BY DEF Interval, Growing
<1>2. 1 \in Nat /\ n \in Nat /\ 1 <= n
  OBVIOUS
<1>. QED
  BY <1>1, <1>2, Intervals, ZenonT(30)

\* The delays of try n and the range of the policy.
LEMMA DurationInRange ==
  ASSUME NEW name \in PolicyNames, NEW p, p = Policy(name), NEW n \in Nat, NEW d \in Duration(p, n),
         NEW low, low = Documented(name).low, NEW high, high = Documented(name).high
  PROVE  /\ name # "poll" /\ n > 0 => low <= d
         /\ p.Jitter * low <= 10 * d
         /\ 10 * d < (10 + p.Jitter) * high
<1>1. Growing(p) /\ InRange(p, low, high, name)
  BY PoliciesGrow, Ranges, SMTT(30)
<1>2. PICK x, j : x = Interval(p, n) /\ j = p.Jitter
  BY Zenon
<1>3. /\ x \in Nat \ {0} /\ x <= Longest(p) /\ low <= x /\ Longest(p) \in Nat /\ low \in Nat \ {0}
      /\ j \in {1, 5, 9} /\ high \in Nat /\ Longest(p) + ms <= high
  BY <1>1, <1>2, Intervals, ZenonT(30) DEF Growing, InRange
<1>4. PICK r \in 0..(x - 1) : d = Nonzero(p, x, r)
  BY <1>1, <1>2, DurationIs, SMTT(30)
<1>5. PICK y : y = Delay(j, x, r)
  OBVIOUS
<1>6. /\ y \in Nat /\ (y # 0 => y >= ms)
      /\ \A k \in Nat : 10 * ms * k <= j * x => ms * k <= y
      /\ 10 * y <= (10 + j) * x + 40
  BY <1>3, <1>5, DelayBounds, DelayRange, ZenonT(30)
<1>7. d = IF y = 0 THEN low ELSE y
  BY <1>1, <1>2, <1>4, <1>5, ZenonT(30) DEF Nonzero, InRange
<1>8. 10 * d < (10 + j) * high
  <2>1. x + 10 <= high /\ low + 10 <= high
    BY <1>3, SMTT(30) DEF ms
  <2>2. ASSUME j = 1 PROVE 10 * d < (10 + j) * high
    BY <2>1, <2>2, <1>3, <1>6, <1>7, SMTT(30)
  <2>3. ASSUME j = 5 PROVE 10 * d < (10 + j) * high
    BY <2>1, <2>3, <1>3, <1>6, <1>7, SMTT(30)
  <2>4. ASSUME j = 9 PROVE 10 * d < (10 + j) * high
    BY <2>1, <2>4, <1>3, <1>6, <1>7, SMTT(30)
  <2>. QED
    BY <2>2, <2>3, <2>4, <1>3, ZenonT(30)
<1>9. CASE Len(p.Intervals) = 1 /\ low = ms
  <2>1. low <= d
    BY <1>3, <1>6, <1>7, <1>9, SMTT(30) DEF ms
  <2>2. d \in Nat /\ j * low <= 10 * d
    BY <1>3, <1>6, <1>7, <2>1, SMTT(30)
  <2>. QED
    BY <1>2, <1>8, <2>1, <2>2, ZenonT(30)
<1>10. CASE /\ Len(p.Intervals) > 1 /\ \E k \in Nat : low = 10 * ms * k
            /\ name # "poll" => 10 * low <= p.Jitter * p.Intervals[2]
  <2>1. PICK k \in Nat : low = 100 * k
    BY <1>10, SMTT(30) DEF ms
  <2>2. j * low <= 10 * d
    <3>1. j * k \in Nat /\ 10 * ms * (j * k) <= j * x
      BY <1>3, <2>1, SMTT(30) DEF ms
    <3>2. ms * (j * k) <= y
      BY <1>6, <3>1, ZenonT(30)
    <3>. QED
      BY <1>3, <1>6, <1>7, <2>1, <3>2, SMTT(30) DEF ms
  <2>3. ASSUME name # "poll", n > 0 PROVE low <= d
    <3>1. p.Intervals[2] <= x
      BY <1>1, <1>2, <1>10, <2>3, LaterInterval, SMTT(30)
    <3>2. PICK z : z = p.Intervals[2]
      OBVIOUS
    <3>3. z \in Nat /\ z <= x /\ 10 * low <= j * z
      BY <1>1, <1>2, <1>10, <2>3, <3>1, <3>2, SMTT(30) DEF Growing
    <3>4. 10 * low <= j * x
      BY <1>3, <3>3, SMTT(30)
    <3>5. 10 * k \in Nat /\ 10 * ms * (10 * k) <= j * x
      BY <1>3, <2>1, <3>4, SMTT(30) DEF ms
    <3>6. ms * (10 * k) <= y
      BY <1>6, <3>5, ZenonT(30)
    <3>. QED
      BY <1>3, <1>6, <1>7, <2>1, <3>6, SMTT(30) DEF ms
  <2>. QED
    BY <1>2, <1>8, <2>2, <2>3, ZenonT(30)
<1>. QED
  BY <1>1, <1>9, <1>10, Zenon DEF InRange

\* The shortest delay of a try is no longer than any delay of a later one.
LEMMA DurationGrows ==
  ASSUME NEW p, Growing(p), NEW n \in Nat, NEW m \in Nat, n <= m, NEW d \in Duration(p, m)
  PROVE  \E e \in Duration(p, n) : e <= d
<1>1. PICK x, y, j, first :
        x = Interval(p, n) /\ y = Interval(p, m) /\ j = p.Jitter /\ first = p.Intervals[1]
  BY Zenon
<1>2. /\ x \in Nat \ {0} /\ y \in Nat \ {0} /\ x <= y /\ first \in Nat \ {0} /\ first <= x
      /\ j \in {1, 5, 9} /\ (first = ms \/ first >= 5 * ms)
  BY <1>1, Intervals, ZenonT(30) DEF Growing
<1>3. PICK r \in 0..(y - 1) : d = Nonzero(p, y, r)
  BY <1>1, DurationIs, SMTT(30)
<1>4. Nonzero(p, x, 0) \in Duration(p, n)
  BY <1>1, DurationIs, ZenonT(30)
<1>5. /\ Delay(j, y, r) \in Nat /\ (Delay(j, y, r) # 0 => Delay(j, y, r) >= ms)
      /\ Delay(j, x, 0) \in Nat /\ Delay(j, x, 0) <= Delay(j, y, r)
  <2>1. 0 \in 0..(x - 1)
    BY <1>2, SMTT(30)
  <2>2. /\ Delay(j, y, r) \in Nat /\ (Delay(j, y, r) # 0 => Delay(j, y, r) >= ms)
        /\ Delay(j, x, 0) \in Nat
    BY <1>2, <2>1, DelayBounds, ZenonT(30)
  <2>3. Delay(j, x, 0) <= Delay(j, y, r)
    BY <1>2, DelayGrows, ZenonT(30)
  <2>. QED
    BY <2>2, <2>3, ZenonT(30)
<1>6. Delay(j, x, 0) = 0 => first = ms
  <2>1. ASSUME x >= 50 PROVE Delay(j, x, 0) > 0
    BY <1>2, <2>1, SMTT(30) DEF Delay, Round, ms
  <2>. QED
    BY <1>2, <2>1, SMTT(30) DEF ms
<1>7. Nonzero(p, x, 0) <= d
  BY <1>1, <1>2, <1>3, <1>5, <1>6, SMTT(30) DEF ms, Nonzero
<1>. QED
  BY <1>4, <1>7, ZenonT(30)

RetryInv == policy \in PolicyNames /\ delivered \in Nat \ {0} /\ ctr \in Nat

LEMMA RetryInvHolds == RetrySpec => []RetryInv
<1>1. RetryInit => RetryInv
  BY PolicyAssumption, SMTT(30) DEF RetryInit, RetryInv
<1>2. RetryInv /\ [RetryNext]_retryVars => RetryInv'
  BY DEF RetryInv, RetryNext, NakItem, PollFails, PollTimesOut, retryVars
<1>. QED
  BY <1>1, <1>2, PTL DEF RetrySpec

\* The delay of NakItem is never below the range its policy is documented with,
\* and no delay exceeds the range by more than the jitter's share, for every
\* predefined policy, any random number and any number of tries.
THEOREM DelaysAreBounded == RetrySpec => DelayInBounds
<1>. DEFINE low == Documented(policy).low
            high == Documented(policy).high
            factor == Policy(policy).Jitter
<1>1. RetryInv /\ RetryNext =>
        /\ delivered' > delivered => low <= pause'
        /\ ctr' > ctr => factor * low <= 10 * pause'
        /\ delivered' > delivered \/ ctr' > ctr => 10 * pause' < (10 + factor) * high
  <2>. SUFFICES ASSUME RetryInv, RetryNext
                PROVE  /\ delivered' > delivered => low <= pause'
                       /\ ctr' > ctr => factor * low <= 10 * pause'
                       /\ delivered' > delivered \/ ctr' > ctr => 10 * pause' < (10 + factor) * high
    OBVIOUS
  <2>1. policy \in PolicyNames /\ delivered \in Nat /\ delivered > 0 /\ ctr \in Nat
    BY DEF RetryInv
  <2>2. CASE NakItem
    <3>1. policy # "poll" /\ ctr' = ctr /\ pause' \in Duration(Policy(policy), delivered)
      BY <2>2, SMTT(30) DEF NakItem
    <3>2. low <= pause' /\ 10 * pause' < (10 + factor) * high
      BY <2>1, <3>1, DurationInRange, ZenonT(30)
    <3>3. ~(ctr' > ctr)
      BY <2>1, <3>1, SMTT(30)
    <3>. QED
      BY <3>2, <3>3, ZenonT(30)
  <2>3. CASE PollFails
    <3>1. delivered' = delivered /\ pause' \in Duration(Policy(policy), ctr)
      BY <2>3, SMTT(30) DEF PollFails
    <3>2. factor * low <= 10 * pause' /\ 10 * pause' < (10 + factor) * high
      BY <2>1, <3>1, DurationInRange, ZenonT(30)
    <3>3. ~(delivered' > delivered)
      BY <2>1, <3>1, SMTT(30)
    <3>. QED
      BY <3>2, <3>3, ZenonT(30)
  <2>4. CASE PollTimesOut
    <3>1. ~(delivered' > delivered) /\ ~(ctr' > ctr)
      BY <2>1, <2>4, SMTT(30) DEF PollTimesOut
    <3>. QED
      BY <3>1, ZenonT(30)
  <2>. QED
    BY <2>2, <2>3, <2>4, ZenonT(30) DEF RetryNext
<1>. HIDE DEF low, high, factor
<1>2. RetryInv /\ [RetryNext]_retryVars =>
        [/\ delivered' > delivered => low <= pause'
         /\ ctr' > ctr => factor * low <= 10 * pause'
         /\ delivered' > delivered \/ ctr' > ctr => 10 * pause' < (10 + factor) * high]_retryVars
  BY <1>1, ZenonT(30)
<1>. QED
  BY <1>2, RetryInvHolds, PTL DEF RetrySpec, DelayInBounds, low, high, factor

\* The shortest delay of NakItem grows with the deliveries of an item until the
\* last interval is reached, and then stays, for every predefined policy.
THEOREM BackoffNeverShrinks == RetrySpec => BackoffGrows
<1>1. RetryInv /\ [RetryNext]_retryVars =>
        [delivered' > delivered =>
           \A d \in Duration(Policy(policy), delivered') :
             \E e \in Duration(Policy(policy), delivered) : e <= d]_retryVars
  <2>. SUFFICES ASSUME RetryInv, RetryNext, delivered' > delivered,
                       NEW d \in Duration(Policy(policy), delivered')
                PROVE  \E e \in Duration(Policy(policy), delivered) : e <= d
    OBVIOUS
  <2>1. Growing(Policy(policy))
    BY PoliciesGrow, ZenonT(30) DEF RetryInv
  <2>2. delivered \in Nat /\ delivered' = delivered + 1
    BY DEF RetryInv, RetryNext, NakItem, PollFails, PollTimesOut
  <2>. QED
    BY <2>1, <2>2, DurationGrows, SMTT(30)
<1>. QED
  BY <1>1, RetryInvHolds, PTL DEF RetrySpec, BackoffGrows

----------------------------------------------------------------------------
(***************************************************************************)
(* Routes.                                                                 *)
(***************************************************************************)
\* The entries know their chains, and ehf holds exactly the registered types,
\* longer ones first.
MuxInv ==
  /\ IsFiniteSet(Registered)
  /\ mws \in Seq(Global)
  /\ hf \in [TaskType -> [combined : Seq(Global \cup PerRoute \cup TaskType), mws : Seq(PerRoute)]]
  /\ \A t \in Registered : hf[t].combined = mws \o hf[t].mws \o <<t>>
  /\ ehf \in Seq(TaskType)
  /\ \A i \in 1..Len(ehf) : ehf[i] \in Registered
  /\ \A t \in Registered : \E i \in 1..Len(ehf) : ehf[i] = t
  /\ \A i, j \in 1..Len(ehf) : i < j => Len(ehf[i]) >= Len(ehf[j])

\* A set of natural numbers has a least one.
LEMMA LeastNumber ==
  ASSUME NEW T \in SUBSET Nat, T # {}
  PROVE  \E x \in T : \A y \in T : x <= y
<1>. DEFINE R == OpToRel(<, Nat)
<1>1. \A x, y \in Nat : x < y => <<x, y>> \in R
  BY DEF OpToRel
<1>2. IsWellFoundedOn(R, Nat)
  BY NatLessThanWellFounded, ZenonT(30)
<1>. HIDE DEF R
<1>3. PICK x \in T : \A y \in T : ~(<<y, x>> \in R)
  <2>1. T \subseteq Nat /\ T # {}
    OBVIOUS
  <2>. QED
    BY <1>2, <2>1, WFMin, ZenonT(30)
<1>4. ASSUME NEW y \in T PROVE x <= y
  <2>1. x \in Nat /\ y \in Nat
    OBVIOUS
  <2>2. ~(y < x)
    BY <1>1, <1>3, <2>1, ZenonT(30)
  <2>. QED
    BY <2>1, <2>2, SMTT(30)
<1>. QED
  BY <1>4, ZenonT(30)

\* An arrangement of a finite set has each of its elements.
LEMMA Arrangement ==
  ASSUME NEW S, IsFiniteSet(S), NEW s \in SetToSeqs(S)
  PROVE  /\ s \in Seq(S) /\ \A x \in S : \E i \in 1..Len(s) : s[i] = x
<1>. DEFINE n == Cardinality(S)
<1>1. n \in Nat
  BY FS_CardinalityType, ZenonT(30)
<1>2. s \in [1..n -> S] /\ \A i, j \in 1..n : i # j => s[i] # s[j]
  BY ZenonT(30) DEF SetToSeqs
<1>3. Cardinality(1..n) = n
  BY <1>1, FS_Interval, SMTT(30)
<1>. HIDE DEF n
<1>4. s \in Injection(1..n, S)
  BY <1>2, ZenonT(30) DEF Injection, IsInjective
<1>5. s \in Surjection(1..n, S)
  BY <1>3, <1>4, FS_Injection, ZenonT(30) DEF n
<1>. QED
  BY <1>1, <1>2, <1>5, SMTT(30) DEF Surjection

LEMMA InitMux == MuxInit => MuxInv
<1>. SUFFICES ASSUME MuxInit PROVE MuxInv
  OBVIOUS
<1>1. Registered = {}
  BY DEF MuxInit, Registered
<1>2. IsFiniteSet({})
  BY FS_EmptySet, ZenonT(30)
<1>. QED
  BY <1>1, <1>2, SMTT(30) DEF MuxInit, MuxInv, NoEntry

\* The chain buildChain makes, and that it tells an entry from none.
LEMMA Chain ==
  ASSUME NEW t \in TaskType, NEW own \in Seq(PerRoute), NEW global \in Seq(Global)
  PROVE  /\ buildChain(own, global, t) = global \o own \o <<t>>
         /\ buildChain(own, global, t) \in Seq(Global \cup PerRoute \cup TaskType)
         /\ buildChain(own, global, t) # <<>>
<1>. DEFINE S == Global \cup PerRoute \cup TaskType
<1>1. own \in Seq(S) /\ global \in Seq(S) /\ <<t>> \in Seq(S) /\ Len(<<t>>) = 1
  OBVIOUS
<1>2. buildChain(own, global, t) = global \o (own \o <<t>>)
  BY SMTT(30) DEF buildChain, Wrap
<1>. HIDE DEF S
<1>3. global \o (own \o <<t>>) = (global \o own) \o <<t>>
  <2>1. \A u \in Seq(S) : (global \o own) \o u = global \o (own \o u)
    BY <1>1, ConcatAssociative, SMTT(30)
  <2>. QED
    BY <1>1, <2>1, ZenonT(30)
<1>4. (global \o own) \o <<t>> \in Seq(S) /\ Len((global \o own) \o <<t>>) > 0
  BY <1>1, SMTT(30)
<1>. QED
  BY <1>2, <1>3, <1>4, SMTT(30) DEF S

LEMMA ListsAreSeqs ==
  ASSUME NEW S
  PROVE  Lists(S) \subseteq Seq(S)
<1>1. ASSUME NEW a \in S PROVE <<a>> \in Seq(S)
  OBVIOUS
<1>2. ASSUME NEW a \in S, NEW b \in S PROVE <<a, b>> \in Seq(S)
  OBVIOUS
<1>3. <<>> \in Seq(S)
  OBVIOUS
<1>4. ASSUME NEW l \in Lists(S)
      PROVE  l = <<>> \/ (\E a \in S : l = <<a>>) \/ \E a, b \in S : l = <<a, b>>
  BY SMTT(30) DEF Lists
<1>. QED
  BY <1>1, <1>2, <1>3, <1>4, ZenonT(30)

LEMMA Sorted ==
  ASSUME NEW S, NEW s \in SortedByLength(S)
  PROVE  s \in SetToSeqs(S) /\ \A i, j \in DOMAIN s : i < j => Len(s[i]) >= Len(s[j])
  BY ZenonT(30) DEF SortedByLength

LEMMA NextMux == MuxInv /\ [MuxNext]_muxVars => MuxInv'
<1>. SUFFICES ASSUME MuxInv, [MuxNext]_muxVars PROVE MuxInv'
  OBVIOUS
<1>. DEFINE Entry == [combined : Seq(Global \cup PerRoute \cup TaskType), mws : Seq(PerRoute)]
<1>0. /\ hf \in [TaskType -> Entry] /\ mws \in Seq(Global) /\ Registered \subseteq TaskType
      /\ \A t \in TaskType : hf[t].mws \in Seq(PerRoute)
  BY ZenonT(30) DEF MuxInv, Registered
<1>1. ASSUME NEW list \in Lists(Global), Use(list) PROVE MuxInv'
  <2>. DEFINE E(t) == [hf[t] EXCEPT !.combined = buildChain(hf[t].mws, mws', t)]
  <2>1. mws' = mws \o list /\ mws' \in Seq(Global) /\ ehf' = ehf
    BY <1>0, <1>1, ListsAreSeqs, SMTT(30) DEF Use
  <2>2. /\ hf' = [t \in TaskType |-> IF t \in Registered THEN E(t) ELSE NoEntry]
    BY <1>1, SMTT(30) DEF Use
  <2>3. ASSUME NEW t \in TaskType
        PROVE  /\ E(t).combined = mws' \o hf[t].mws \o <<t>> /\ E(t).mws = hf[t].mws
               /\ E(t).combined # <<>> /\ E(t) \in Entry
    <3>1. /\ buildChain(hf[t].mws, mws', t) = mws' \o hf[t].mws \o <<t>>
          /\ buildChain(hf[t].mws, mws', t) \in Seq(Global \cup PerRoute \cup TaskType)
          /\ buildChain(hf[t].mws, mws', t) # <<>>
      BY <1>0, <2>1, Chain, ZenonT(30)
    <3>2. hf[t] \in Entry
      BY <1>0, ZenonT(30)
    <3>. QED
      BY <3>1, <3>2, ZenonT(30)
  <2>4. NoEntry \in Entry /\ NoEntry.combined = <<>>
    BY SMTT(30) DEF NoEntry
  <2>. HIDE DEF E, Entry
  <2>5. hf' \in [TaskType -> Entry]
    BY <2>2, <2>3, <2>4, ZenonT(30)
  <2>6. \A t \in TaskType : hf'[t] = IF t \in Registered THEN E(t) ELSE NoEntry
    BY <2>2, SMTT(30)
  <2>7. Registered' = Registered
    <3>1. ASSUME NEW t \in Registered PROVE hf'[t] # NoEntry
      BY <1>0, <2>3, <2>4, <2>6, ZenonT(30)
    <3>2. ASSUME NEW t \in TaskType, t \notin Registered PROVE hf'[t] = NoEntry
      BY <2>6, <3>2, ZenonT(30)
    <3>. QED
      BY <1>0, <3>1, <3>2, ZenonT(30) DEF Registered
  <2>8. \A t \in Registered : hf'[t].combined = mws' \o hf'[t].mws \o <<t>>
    BY <1>0, <2>3, <2>6, ZenonT(30)
  <2>. QED
    BY <2>1, <2>5, <2>7, <2>8, ZenonT(30) DEF MuxInv, Entry
<1>2. ASSUME NEW t \in TaskType, NEW own \in Lists(PerRoute), HandleFunc(t, own) PROVE MuxInv'
  <2>. DEFINE e == [combined |-> buildChain(own, mws, t), mws |-> own]
  <2>1. own \in Seq(PerRoute)
    BY ListsAreSeqs, ZenonT(30)
  <2>2. /\ hf' = [hf EXCEPT ![t] = e] /\ mws' = mws /\ t \notin Registered
        /\ ehf' \in SortedByLength(Registered \cup {t})
    BY <1>2, ZenonT(30) DEF HandleFunc
  <2>3. /\ e.combined = mws \o own \o <<t>> /\ e.mws = own /\ e.combined # <<>> /\ e \in Entry
    BY <1>0, <2>1, Chain, ZenonT(30)
  <2>. HIDE DEF e, Entry
  <2>4. hf' \in [TaskType -> Entry] /\ \A u \in TaskType : hf'[u] = IF u = t THEN e ELSE hf[u]
    BY <1>0, <2>2, <2>3, ZenonT(30)
  <2>5. Registered' = Registered \cup {t}
    BY <2>3, <2>4, SMTT(30) DEF Registered, NoEntry
  <2>6. \A u \in Registered' : hf'[u].combined = mws' \o hf'[u].mws \o <<u>>
    BY <1>0, <2>2, <2>3, <2>4, <2>5, ZenonT(30) DEF MuxInv
  <2>7. IsFiniteSet(Registered \cup {t})
    BY FS_AddElement, ZenonT(30) DEF MuxInv
  <2>8. PICK S : S = Registered \cup {t}
    BY ZenonT(30)
  <2>9. /\ ehf' \in Seq(S) /\ \A x \in S : \E i \in 1..Len(ehf') : ehf'[i] = x
        /\ \A i, j \in DOMAIN ehf' : i < j => Len(ehf'[i]) >= Len(ehf'[j])
    <3>1. ehf' \in SetToSeqs(S) /\ \A i, j \in DOMAIN ehf' : i < j => Len(ehf'[i]) >= Len(ehf'[j])
      BY <2>2, <2>8, Sorted, ZenonT(30)
    <3>2. IsFiniteSet(S)
      BY <2>7, <2>8, ZenonT(30)
    <3>. QED
      BY <3>1, <3>2, Arrangement, ZenonT(30)
  <2>10. S \subseteq TaskType /\ DOMAIN ehf' = 1..Len(ehf')
    BY <1>0, <2>8, <2>9, SMTT(30)
  <2>11. ehf' \in Seq(TaskType) /\ \A i \in 1..Len(ehf') : ehf'[i] \in S
    BY <2>9, <2>10, SMTT(30)
  <2>. QED
    BY <1>0, <2>2, <2>4, <2>5, <2>6, <2>7, <2>8, <2>9, <2>10, <2>11, ZenonT(30) DEF MuxInv, Entry
<1>3. CASE UNCHANGED muxVars
  BY <1>3, ZenonT(30) DEF muxVars, MuxInv, Registered
<1>. QED
  BY <1>1, <1>2, <1>3, ZenonT(30) DEF MuxNext

\* Two prefixes of one length of a type are the same.
LEMMA OnePrefix ==
  ASSUME NEW t \in TaskType, NEW q \in TaskType, NEW r \in TaskType,
         IsPrefix(q, t), IsPrefix(r, t), Len(q) = Len(r)
  PROVE  q = r
<1>1. q \in Seq(STRING) /\ r \in Seq(STRING) /\ t \in Seq(STRING)
  BY MuxAssumption, ZenonT(30)
<1>2. SubSeq(q, 1, Len(q)) = q /\ SubSeq(r, 1, Len(r)) = r
  BY <1>1, SMTT(30)
<1>. QED
  BY <1>2, ZenonT(30) DEF IsPrefix

\* A task is routed to the longest registered prefix of its type and goes
\* through all the middleware in order, for any types, routes and middleware,
\* in whatever order Use and HandleFunc are called and however sort.Slice
\* leaves types of equal length.
THEOREM LongestPrefixWins == MuxSpec => []RoutesToLongestPrefix
<1>1. MuxInv => RoutesToLongestPrefix
  <2>. SUFFICES ASSUME MuxInv, NEW t \in TaskType
                PROVE  LET prefixes == {r \in Registered : IsPrefix(r, t)}
                           longest == CHOOSE r \in prefixes : \A q \in prefixes : Len(q) <= Len(r)
                       IN Handler(t) = IF prefixes = {} THEN notFoundHandler
                                       ELSE mws \o hf[longest].mws \o <<longest>>
    BY ZenonT(30) DEF RoutesToLongestPrefix
  <2>. DEFINE prefixes == {r \in Registered : IsPrefix(r, t)}
              Longer(r) == \A q \in prefixes : Len(q) <= Len(r)
              longest == CHOOSE r \in prefixes : Longer(r)
              matches == {i \in DOMAIN ehf : IsPrefix(ehf[i], t)}
              first == CHOOSE i \in matches : \A j \in matches : i <= j
  <2>. SUFFICES Handler(t) = IF prefixes = {} THEN notFoundHandler
                             ELSE mws \o hf[longest].mws \o <<longest>>
    OBVIOUS
  <2>1. /\ DOMAIN ehf = 1..Len(ehf) /\ \A r \in Registered : r \in TaskType /\ Len(r) \in Nat
        /\ Len(t) \in Nat /\ t \in Seq(STRING)
    BY MuxAssumption, SMTT(30) DEF MuxInv, Registered
  <2>2. ASSUME NEW r \in prefixes, Longer(r) PROVE longest = r
    <3>1. longest \in prefixes /\ Longer(longest)
      BY <2>2, ZenonT(30)
    <3>. HIDE DEF longest
    <3>2. Len(longest) = Len(r)
      BY <2>1, <2>2, <3>1, SMTT(30)
    <3>. QED
      BY <2>1, <2>2, <3>1, <3>2, OnePrefix, ZenonT(30)
  <2>3. CASE t \in Registered
    <3>1. IsPrefix(t, t) /\ Longer(t)
      <4>1. Len(t) <= Len(t)
        BY <2>1, SMTT(30)
      <4>. QED
        BY <4>1, ZenonT(30) DEF IsPrefix
    <3>2. longest = t /\ prefixes # {}
      BY <2>2, <2>3, <3>1, ZenonT(30)
    <3>. HIDE DEF longest
    <3>. QED
      BY <2>3, <3>2, ZenonT(30) DEF Handler, MuxInv
  <2>4. CASE t \notin Registered /\ matches = {}
    <3>1. prefixes = {}
      BY <2>1, <2>4, ZenonT(30) DEF MuxInv
    <3>. QED
      BY <2>4, <3>1, ZenonT(30) DEF Handler
  <2>5. CASE t \notin Registered /\ matches # {}
    <3>1. first \in matches /\ \A j \in matches : first <= j
      <4>1. matches \subseteq Nat
        BY <2>1, SMTT(30)
      <4>. QED
        BY <2>5, <4>1, LeastNumber, ZenonT(30)
    <3>. HIDE DEF first
    <3>2. ehf[first] \in prefixes
      BY <2>1, <3>1, ZenonT(30) DEF MuxInv
    <3>3. Longer(ehf[first])
      <4>. SUFFICES ASSUME NEW q \in prefixes PROVE Len(q) <= Len(ehf[first])
        BY ZenonT(30)
      <4>1. PICK i \in 1..Len(ehf) : ehf[i] = q
        BY DEF MuxInv
      <4>2. first <= i /\ first \in 1..Len(ehf)
        BY <2>1, <3>1, <4>1, ZenonT(30)
      <4>. QED
        BY <2>1, <4>1, <4>2, SMTT(30) DEF MuxInv
    <3>4. longest = ehf[first] /\ prefixes # {}
      BY <2>2, <3>2, <3>3, ZenonT(30)
    <3>. HIDE DEF longest
    <3>5. Handler(t) = hf[ehf[first]].combined
      BY <2>5, ZenonT(30) DEF Handler, first
    <3>. QED
      BY <3>2, <3>4, <3>5, ZenonT(30) DEF MuxInv
  <2>. QED
    BY <2>3, <2>4, <2>5, ZenonT(30)
<1>. QED
  BY <1>1, InitMux, NextMux, PTL DEF MuxSpec
=============================================================================
