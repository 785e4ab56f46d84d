------------------------------- MODULE MCHttp -------------------------------
(***************************************************************************)
(* The HTTP server: the requests that write (HttpApi) and the listings     *)
(* (TaskListing).  They share no state of the server, so a behaviour       *)
(* explores one of them and leaves the other at rest.  Listings are either *)
(* one of up to three tasks, saved and deleted meanwhile, or two of        *)
(* one task, of which one finds the semaphore taken or released.           *)
(***************************************************************************)
EXTENDS HttpApi, TaskListing

CONSTANTS t1, t2, s1, s2, s3, l1, l2

VARIABLE part   \* the part this behaviour is about

Bodies == {<<>>, <<t1>>, <<t1, t2>>, <<t1, t1>>, <<t1, t2, t1>>}
OneFilter == {{s1, s3}}

HttpInit ==
  /\ part \in {"api", "listing", "listings"}
  /\ ApiInit /\ ListingInit
  /\ IF part = "api" THEN InStore = {} ELSE tasks = [t \in Task |-> "unused"]
  /\ part = "listings" => InStore \subseteq {s1}

HttpNext ==
  /\ UNCHANGED part
  /\ \/ part = "api" /\ ApiNext /\ UNCHANGED listingVars
     \/ part = "listing" /\ ListingNext /\ lister'[l2] = lister[l2] /\ UNCHANGED apiVars
     \/ part = "listings" /\ ListingNext /\ InStore' \subseteq {s1} /\ lastSeq' <= 1
        /\ (\A r \in Lister : lister'[r].limit \in {0, 2})
        /\ UNCHANGED apiVars

HttpSpec == HttpInit /\ [][HttpNext]_<<part, apiVars, listingVars>> /\ ListingFairness
=============================================================================
