-------------------------------- MODULE Mux --------------------------------
(***************************************************************************)
(* The task router (src/mux.go): which handler a task gets, and the        *)
(* middleware around it.  Task types are sequences of letters, so that one *)
(* can be the prefix of another; a chain of functions is the sequence of   *)
(* their names, outermost first.                                           *)
(***************************************************************************)
EXTENDS Integers, FiniteSets, SequencesExt

CONSTANTS
  TaskType,       \* task types
  Global,         \* middleware given to Use
  PerRoute,       \* middleware given to HandleFunc
  MaxRoutes,      \* bound: routes
  MaxGlobal       \* bound: middleware in use

ASSUME MuxAssumption ==
  /\ TaskType \subseteq Seq(STRING)
  /\ MaxRoutes \in Nat /\ MaxGlobal \in Nat

VARIABLES
  hf,             \* hf[t]: the entry of task type t, or NoEntry
  ehf,            \* the types of the entries, in the order of the slice ehf
  mws             \* the middleware in use

muxVars == <<hf, ehf, mws>>

NoEntry == [combined |-> <<>>, mws |-> <<>>]
notFoundHandler == <<"notFound">>

Registered == {t \in TaskType : hf[t] # NoEntry}

MuxInit ==
  /\ hf = [t \in TaskType |-> NoEntry]
  /\ ehf = <<>> /\ mws = <<>>

\* Wrapping a chain in a list of middleware: the loops of buildChain go from
\* the last to the first and put each in front of what is there.
Wrap(list, chain) == list \o chain

\* The entry's own middleware goes around the handler, the router's around it.
buildChain(own, global, t) == Wrap(global, Wrap(own, <<t>>))

\* Mutant of Use: the entries that exist are not wrapped anew.
UseLater(list) ==
  /\ Len(mws) + Len(list) <= MaxGlobal
  /\ mws' = mws \o list
  /\ UNCHANGED <<hf, ehf>>

\* Use appends middleware and wraps every entry anew.
Use(list) ==
  /\ Len(mws) + Len(list) <= MaxGlobal
  /\ mws' = mws \o list
  /\ hf' = [t \in TaskType |-> IF t \in Registered
                               THEN [hf[t] EXCEPT !.combined = buildChain(hf[t].mws, mws', t)]
                               ELSE NoEntry]
  /\ UNCHANGED ehf

\* sort.Slice puts longer types first; it is not stable.
SortedByLength(S) ==
  {s \in SetToSeqs(S) : \A i, j \in DOMAIN s : i < j => Len(s[i]) >= Len(s[j])}

\* HandleFunc; a type that is registered is refused and nothing changes.
HandleFunc(t, own) ==
  /\ t \notin Registered
  /\ Len(ehf) < MaxRoutes
  /\ hf' = [hf EXCEPT ![t] = [combined |-> buildChain(own, mws, t), mws |-> own]]
  /\ ehf' \in SortedByLength(Registered \cup {t})
  /\ UNCHANGED mws

\* Lists of at most two elements.
Lists(S) == {<<>>} \cup {<<a>> : a \in S} \cup (S \X S)

MuxNext ==
  \/ \E list \in Lists(Global) \ {<<>>} : Use(list)
  \/ \E t \in TaskType, own \in Lists(PerRoute) : HandleFunc(t, own)

MuxSpec == MuxInit /\ [][MuxNext]_muxVars

\* The chain a task of type t is given: the entry of the type itself, else the
\* first entry of ehf whose type is a prefix.
Handler(t) ==
  IF t \in Registered THEN hf[t].combined
  ELSE LET matches == {i \in DOMAIN ehf : IsPrefix(ehf[i], t)}
       IN IF matches = {} THEN notFoundHandler
          ELSE hf[ehf[CHOOSE i \in matches : \A j \in matches : i <= j]].combined

----------------------------------------------------------------------------
\* Whatever the order in which routes and middleware are registered, and
\* however entries of equal length are sorted, a task is routed to the longest
\* registered prefix of its type, through all middleware in use and then all
\* of the route, each in the order given; a task without a route gets the
\* built-in handler and no middleware.
RoutesToLongestPrefix ==
  \A t \in TaskType :
    LET prefixes == {r \in Registered : IsPrefix(r, t)}
        longest == CHOOSE r \in prefixes : \A q \in prefixes : Len(q) <= Len(r)
    IN Handler(t) = IF prefixes = {} THEN notFoundHandler
                    ELSE mws \o hf[longest].mws \o <<longest>>

\* A handler gets the tasks of exactly the type it was registered for.
ExactMatch ==
  \A t \in TaskType : Handler(t) # notFoundHandler => t \in Registered
=============================================================================
