------------------------------ MODULE ConfigMerge ------------------------------
(***************************************************************************)
(* cephconfig.NewConfig (pkg/cephconfig/config.go): at startup the list of *)
(* parameters that is embedded in the binary is merged, in one pass, with  *)
(* the names the cluster lists.  A parameter both know keeps the embedded  *)
(* description, one that only the cluster knows gets the description the   *)
(* monitor gives ("config help"), one that the cluster does not list is    *)
(* dropped.                                                                *)
(*                                                                         *)
(* Names are numbers: all the code does with them is compare them.  A      *)
(* description is where it comes from.  Indexes count from 1.              *)
(***************************************************************************)
EXTENDS Naturals, Sequences

CONSTANTS
    Indexes,   \* the embedded lists to start from
    Listings,  \* the answers of "config ls": any order, a name may come twice
    NoParams   \* NewConfig has not returned a Config

Names == Nat

IsSorted(names) == \A p, q \in DOMAIN names : p < q => names[p] <= names[q]
IsIndex(names) == \A p, q \in DOMAIN names : p < q => names[p] < names[q]

\* "config-index.json should be sorted by the "name" field already": a test
\* checks that it never descends, and the file as it is names no parameter twice.
ASSUME ListsAssumption ==
    /\ \A s \in Indexes : s \in Seq(Names) /\ IsIndex(s)
    /\ \A s \in Listings : s \in Seq(Names)

Sources == {"index", "cluster"}
Params == [name : Names, source : Sources]

ASSUME NoParamsAssumption == NoParams \notin Seq(Params)

VARIABLES
    index,     \* sortedBase, its names
    listing,   \* what the cluster answers
    cluster,   \* clusterParams
    i, j,      \* positions in index and cluster
    result,    \* the merged list
    pc,        \* where NewConfig is
    params     \* Config.params, or NoParams

vars == <<index, listing, cluster, i, j, result, pc, params>>

TypeOK ==
    /\ index \in Indexes
    /\ listing \in Listings
    /\ cluster \in Seq(Names)
    /\ i \in Nat /\ j \in Nat
    /\ result \in Seq(Params)
    /\ pc \in {"list", "merge", "rest", "done", "failed"}
    /\ params \in Seq(Params) \cup {NoParams}

Init ==
    /\ index \in Indexes
    /\ listing \in Listings
    /\ cluster = << >>
    /\ i = 1 /\ j = 1
    /\ result = << >>
    /\ pc = "list"
    /\ params = NoParams

(***************************************************************************)
(* NewConfig up to the merge: list, and sort.                              *)
(***************************************************************************)
Orders(n) ==
    {order \in [1..n -> 1..n] : \A k \in 1..n : \E m \in 1..n : order[m] = k}

Reordered(names, order) == [k \in 1..Len(names) |-> names[order[k]]]

\* sort.Strings: the names in ascending order, none added and none lost.
ListCluster ==
    /\ pc = "list"
    /\ \E order \in Orders(Len(listing)) :
           /\ IsSorted(Reordered(listing, order))
           /\ cluster' = Reordered(listing, order)
    /\ pc' = "merge"
    /\ UNCHANGED <<index, listing, i, j, result, params>>

\* The command fails, or its answer cannot be parsed; no Config is returned.
Fail ==
    /\ pc' = "failed"
    /\ UNCHANGED <<index, listing, cluster, i, j, result, params>>

ListFails == pc = "list" /\ Fail

(***************************************************************************)
(* mergeParams.  The first loop.                                           *)
(***************************************************************************)
InMerge == pc = "merge" /\ i <= Len(index) /\ j <= Len(cluster)

FromIndex(name) == [name |-> name, source |-> "index"]

\* The code takes the name, too, from the answer to "config help"; the monitor
\* answers about the parameter it is asked for, by the name it has just listed.
\* Faulty variant: the answer is not parsed.
FetchedUnparsed(name) == [name |-> name, source |-> "none"]
Fetched(name) == [name |-> name, source |-> "cluster"]

\* Faulty variant: the name stays in the list of the cluster, and is fetched too.
KeepAndStay ==
    /\ InMerge
    /\ index[i] = cluster[j]
    /\ result' = Append(result, FromIndex(index[i]))
    /\ i' = i + 1
    /\ UNCHANGED <<index, listing, cluster, j, pc, params>>

KeepFromIndex ==
    /\ InMerge
    /\ index[i] = cluster[j]
    /\ result' = Append(result, FromIndex(index[i]))
    /\ i' = i + 1
    /\ j' = j + 1
    /\ UNCHANGED <<index, listing, cluster, pc, params>>

\* "config help" of the name; its answer is the parameter's description.
Fetch ==
    /\ result' = Append(result, Fetched(cluster[j]))
    /\ j' = j + 1
    /\ UNCHANGED <<index, listing, cluster, i, pc, params>>

FetchNew == InMerge /\ index[i] > cluster[j] /\ Fetch
FetchNewFails == InMerge /\ index[i] > cluster[j] /\ Fail

\* Faulty variant: the position in the embedded list is not moved.
SkipAndStay == InMerge /\ index[i] < cluster[j] /\ UNCHANGED vars

SkipRemoved ==
    /\ InMerge
    /\ index[i] < cluster[j]
    /\ i' = i + 1
    /\ UNCHANGED <<index, listing, cluster, j, result, pc, params>>

EndMerge ==
    /\ pc = "merge"
    /\ ~InMerge
    /\ pc' = "rest"
    /\ UNCHANGED <<index, listing, cluster, i, j, result, params>>

(***************************************************************************)
(* The second loop, and the return.                                        *)
(***************************************************************************)
FetchRest == pc = "rest" /\ j <= Len(cluster) /\ Fetch
FetchRestFails == pc = "rest" /\ j <= Len(cluster) /\ Fail

Return ==
    /\ pc = "rest"
    /\ j > Len(cluster)
    /\ pc' = "done"
    /\ params' = result
    /\ UNCHANGED <<index, listing, cluster, i, j, result>>

Next ==
    \/ ListCluster \/ ListFails
    \/ KeepFromIndex \/ FetchNew \/ FetchNewFails \/ SkipRemoved \/ EndMerge
    \/ FetchRest \/ FetchRestFails \/ Return

Spec == Init /\ [][Next]_vars /\ WF_vars(Next)

(***************************************************************************)
(* Properties.                                                             *)
(***************************************************************************)
Knows(names, name) == \E p \in DOMAIN names : names[p] = name

\* The k-th parameter of the answer: the embedded description unless the name is
\* new, or is listed once more.
Expected(k) ==
    IF Knows(index, cluster[k]) /\ \A m \in 1..(k - 1) : cluster[m] # cluster[k]
    THEN FromIndex(cluster[k])
    ELSE Fetched(cluster[k])

\* A Config lists exactly what the cluster lists, sorted, however the two lists
\* overlap and whichever ends first; the monitor was asked about those names
\* only that the binary does not describe.
MergeIsExact ==
    params # NoParams =>
        /\ Len(params) = Len(listing)
        /\ \A k \in 1..Len(params) : params[k] = Expected(k)
        /\ \A p, q \in DOMAIN params : p < q => params[p].name <= params[q].name
        /\ \A p \in DOMAIN listing : \E q \in DOMAIN params : params[q].name = listing[p]

\* NewConfig returns, with a Config or an error.
Returns == <>(pc \in {"done", "failed"})
==============================================================================
