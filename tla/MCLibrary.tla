----------------------------- MODULE MCLibrary -----------------------------
(***************************************************************************)
(* The parts of the library that work for themselves.  Around the handler  *)
(* of a task: its clocks (HandlerRun), the remote handler (RequestReply),  *)
(* the routes (Mux) and the delays between tries (RetryPolicy).  Around a  *)
(* client: the stores and queues it sets up (Setup) and the tasks it signs *)
(* and verifies (Signing).  They share no state, so a behaviour explores   *)
(* one of them and leaves the others at rest.                              *)
(***************************************************************************)
EXTENDS HandlerRun, RequestReply, Mux, RetryPolicy, Setup, Signing, TLC

CONSTANTS c2, signing

VARIABLE part   \* the part this behaviour is about

\* The types include the catch-all "", types that are prefixes of others and
\* types of equal length.
Types == {<<>>, <<"a">>, <<"b">>, <<"a", "a">>, <<"a", "b">>, <<"a", "b", "a">>}

\* Queue settings that differ in what they leave to the defaults.
Unset == [tries |-> 0, runTime |-> 0, concurrent |-> 0, entries |-> 0]
Given == [tries |-> 5, runTime |-> 60, concurrent |-> 10, entries |-> 20]
TwoSettings == {Unset, Given}

\* Parts at rest: a process that never starts, clients without keys.
Rests(c) ==
  /\ proc[c].layout = 1 /\ proc[c].queue = Unset
  /\ c \in Client => proc[c].noStorageCreate /\ proc[c].noCreate
NoKeys == [queue |-> CHOOSE q \in Queue : TRUE, privateKey |-> NoKey, seedFile |-> FALSE,
           publicKey |-> NoKey, publicKeyFile |-> FALSE, optional |-> FALSE]
SignsOnly(o) ==
  o.queue = (CHOOSE q \in Queue : TRUE) /\ o.publicKey = NoKey /\ ~o.publicKeyFile /\ ~o.optional

\* Two clients start that would lay out the stores differently, or one starts
\* while two POST requests make its queue.  One client signs; others verify.
LibraryInit ==
  /\ part \in {"run", "request", "mux", "retry", "clients", "posts", "signing"}
  /\ Init /\ RequestInit /\ MuxInit /\ RetryInit
  /\ part # "request" => now = 0 /\ deadline = 0
  /\ part # "retry" => policy = "default"
  /\ SetupInit
  /\ CASE part = "clients" -> \A c \in Post : Rests(c)
       [] part = "posts" -> /\ Rests(c2) /\ \A c \in Proc : proc[c].layout = 1
                            /\ server["tasks"].cfg.layout \in {0, 1}
       [] OTHER -> (\A c \in Proc : Rests(c)) /\ server["tasks"].cfg.layout = 1
  /\ part = "signing" \/ config = [c \in Signer |-> NoKeys]
  /\ SigningInit
  /\ file.seed = CHOOSE k \in Key : TRUE
  /\ part = "signing" => SignsOnly(config[signing])

PostSymmetry == Permutations(Post)

workVars == <<vars, requestVars, muxVars, retryVars>>

LibraryNext ==
  /\ UNCHANGED part
  /\ \/ part = "run" /\ Next /\ UNCHANGED <<requestVars, muxVars, retryVars, setupVars, signingVars>>
     \/ part = "request" /\ RequestNext /\ UNCHANGED <<vars, muxVars, retryVars, setupVars, signingVars>>
     \/ part = "mux" /\ MuxNext /\ UNCHANGED <<vars, requestVars, retryVars, setupVars, signingVars>>
     \/ part = "retry" /\ RetryNext /\ UNCHANGED <<vars, requestVars, muxVars, setupVars, signingVars>>
     \/ /\ part = "clients" /\ SetupNext /\ \A c \in Post : proc'[c].pc = "idle"
        /\ UNCHANGED <<workVars, signingVars>>
     \/ part = "posts" /\ SetupNext /\ proc'[c2].pc = "idle" /\ UNCHANGED <<workVars, signingVars>>
     \/ part = "signing" /\ SigningNext /\ UNCHANGED <<workVars, setupVars>>

LibrarySpec == LibraryInit /\ [][LibraryNext]_<<part, workVars, setupVars, signingVars>>
=============================================================================
