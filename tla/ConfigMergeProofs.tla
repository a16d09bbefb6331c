--------------------------- MODULE ConfigMergeProofs ---------------------------
(***************************************************************************)
(* mergeParams is right for lists of any length and overlap.               *)
(***************************************************************************)
EXTENDS ConfigMerge, WellFoundedInduction, TLAPS

(***************************************************************************)
(* The invariant of the two loops.  Before the positions, the result is as *)
(* expected.  An embedded name that was passed is below every listed name  *)
(* to come, or is the name just merged, listed again; an embedded name to  *)
(* come is above every listed name that was merged.                        *)
(***************************************************************************)
Listed ==
    /\ IsSorted(cluster)
    /\ Len(cluster) = Len(listing)
    /\ \A p \in DOMAIN listing : \E q \in DOMAIN cluster : cluster[q] = listing[p]

Merged ==
    /\ Len(result) = j - 1
    /\ \A k \in 1..(j - 1) : result[k] = Expected(k)

Passed ==
    \A p \in 1..(i - 1), q \in j..Len(cluster) :
        /\ index[p] <= cluster[q]
        /\ index[p] = cluster[q] => j > 1 /\ cluster[j - 1] = cluster[q]

Ahead == \A k \in 1..(j - 1), p \in i..Len(index) : cluster[k] < index[p]

\* What a name merged at j must satisfy when n is the position in the index.
Below(n, name) == \A p \in 1..(n - 1) : index[p] <= name
Above(n, name) == \A p \in n..Len(index) : name < index[p]

MergeInv ==
    /\ index \in Seq(Names) /\ IsIndex(index)
    /\ cluster \in Seq(Names) /\ result \in Seq(Params)
    /\ i \in 1..(Len(index) + 1)
    /\ j \in 1..(Len(cluster) + 1)
    /\ pc = "list" => i = 1 /\ j = 1 /\ result = << >>
    /\ pc \in {"merge", "rest", "done"} => Listed
    /\ pc = "rest" => i > Len(index) \/ j > Len(cluster)
    /\ params # NoParams => pc = "done" /\ params = result /\ j > Len(cluster)
    /\ Merged
    /\ Passed
    /\ Ahead

\* The names a description stands for, and where it comes from.
LEMMA ParamFacts ==
    \A name \in Names :
        /\ FromIndex(name) \in Params /\ FromIndex(name).name = name
        /\ Fetched(name) \in Params /\ Fetched(name).name = name
    BY DEF FromIndex, Fetched, Params, Sources

\* What was expected of a position stays so while the lists stay as they are.
LEMMA ExpectedKept ==
    ASSUME index' = index, cluster' = cluster
    PROVE  \A k : Expected(k)' = Expected(k)
    BY DEF Expected, Knows, FromIndex, Fetched

\* Appending what is expected of the next position keeps the result as expected.
LEMMA AppendMerged ==
    ASSUME MergeInv, j <= Len(cluster), index' = index, cluster' = cluster,
           j' = j + 1, Expected(j) \in Params, result' = Append(result, Expected(j))
    PROVE  Merged' /\ result' \in Seq(Params)
    <1>1. /\ result \in Seq(Params) /\ Len(result) = j - 1 /\ j \in Nat
          /\ \A k \in 1..(j - 1) : result[k] = Expected(k)
        BY DEF MergeInv, Merged
    <1>2. Len(result') = j /\ result' \in Seq(Params)
        BY <1>1
    <1>3. ASSUME NEW k \in 1..j
          PROVE  result'[k] = Expected(k)
        BY <1>1, <1>3
    <1>4. ASSUME NEW k \in 1..(j' - 1)
          PROVE  result'[k] = Expected(k)'
        BY <1>1, <1>3, <1>4, ExpectedKept
    <1> QED BY <1>1, <1>2, <1>4 DEF Merged

\* A listed name below every embedded name to come is new, or listed again.
LEMMA NewName ==
    ASSUME MergeInv, j <= Len(cluster),
           \A p \in i..Len(index) : cluster[j] < index[p]
    PROVE  Expected(j) = Fetched(cluster[j])
    <1> SUFFICES ASSUME Knows(index, cluster[j])
                 PROVE  \E m \in 1..(j - 1) : cluster[m] = cluster[j]
        BY DEF Expected
    <1> USE DEF MergeInv, Names
    <1>1. PICK p \in DOMAIN index : index[p] = cluster[j]
        BY DEF Knows
    <1>2. p \in 1..Len(index) /\ j \in 1..Len(cluster)
        BY <1>1
    <1>3. p < i
        BY <1>1, <1>2
    <1>4. j > 1 /\ cluster[j - 1] = cluster[j]
        BY <1>1, <1>2, <1>3 DEF Passed
    <1> QED BY <1>2, <1>4

\* A name that both lists have at their positions has not been merged before.
LEMMA KnownName ==
    ASSUME MergeInv, i <= Len(index), j <= Len(cluster), index[i] = cluster[j]
    PROVE  Expected(j) = FromIndex(index[i])
    <1> USE DEF MergeInv, Names
    <1>1. Knows(index, cluster[j])
        BY DEF Knows
    <1>2. \A m \in 1..(j - 1) : cluster[m] # cluster[j]
        BY DEF Ahead
    <1> QED BY <1>1, <1>2 DEF Expected

\* The merge begins with nothing passed and nothing merged.
LEMMA InitMergeInv == Init => MergeInv
    BY ListsAssumption
    DEF Init, MergeInv, Merged, Passed, Ahead, Names, Params, Listed

\* Sorting keeps every listed name and adds none.
LEMMA ListClusterInv ==
    ASSUME MergeInv, listing \in Listings, ListCluster
    PROVE  MergeInv'
    <1> DEFINE n == Len(listing)
    <1>1. PICK order \in Orders(n) :
              /\ IsSorted(Reordered(listing, order))
              /\ cluster' = Reordered(listing, order)
        BY DEF ListCluster
    <1>2. listing \in Seq(Names) /\ n \in Nat
        BY ListsAssumption
    <1>3. /\ cluster' \in Seq(Names) /\ Len(cluster') = n
          /\ \A k \in 1..n : cluster'[k] = listing[order[k]]
        BY <1>1, <1>2 DEF Orders, Reordered
    <1>4. \A p \in DOMAIN listing : \E q \in DOMAIN cluster' : cluster'[q] = listing[p]
        BY <1>1, <1>2, <1>3 DEF Orders
    <1>5. Listed'
        BY <1>1, <1>3, <1>4 DEF Listed, ListCluster, IsSorted
    <1>6. /\ pc = "list" /\ pc' = "merge" /\ params' = params
          /\ i = 1 /\ j = 1 /\ result = << >>
          /\ index' = index /\ i' = i /\ j' = j /\ result' = result
        BY DEF ListCluster, MergeInv
    <1>7. Merged' /\ Passed' /\ Ahead'
        BY <1>6 DEF Merged, Passed, Ahead
    <1> QED BY <1>3, <1>5, <1>6, <1>7 DEF MergeInv

\* The order of two positions of a list is the order of their names.
LEMMA IndexOrder ==
    ASSUME NEW s \in Seq(Nat), IsIndex(s), NEW q \in 1..Len(s), NEW p \in 1..q
    PROVE  p \in 1..Len(s) /\ s[p] \in Nat /\ s[q] \in Nat /\ (p = q \/ s[p] < s[q])
    <1>1. p \in DOMAIN s /\ q \in DOMAIN s
        OBVIOUS
    <1>2. s[p] \in Nat /\ s[q] \in Nat
        BY <1>1
    <1>3. p = q \/ s[p] < s[q]
        BY <1>1 DEF IsIndex
    <1> QED BY <1>1, <1>2, <1>3

\* The positions before a position of a list, or its end, are positions of it.
LEMMA PositionBefore ==
    ASSUME NEW k \in Nat, NEW n \in 1..(k + 1), NEW p \in 1..(n - 1)
    PROVE  p \in 1..k
    OBVIOUS

\* A later position of a sorted list holds no smaller name.
LEMMA SortedOrder ==
    ASSUME NEW s \in Seq(Nat), IsSorted(s), NEW q \in 1..Len(s), NEW p \in 1..q
    PROVE  p \in 1..Len(s) /\ s[p] \in Nat /\ s[q] \in Nat /\ s[p] <= s[q]
    <1>1. p \in DOMAIN s /\ q \in DOMAIN s
        OBVIOUS
    <1>2. s[p] \in Nat /\ s[q] \in Nat
        BY <1>1
    <1>3. p = q \/ s[p] <= s[q]
        BY <1>1 DEF IsSorted
    <1> QED BY <1>1, <1>2, <1>3

\* A step that merges the listed name at j as expected, whatever becomes of i.
LEMMA MergeOne ==
    ASSUME MergeInv, pc \in {"merge", "rest"}, pc' = pc, j <= Len(cluster),
           index' = index, cluster' = cluster, listing' = listing, params' = params,
           i' \in 1..(Len(index) + 1), j' = j + 1,
           pc = "rest" => i' = i,
           Expected(j) \in Params, result' = Append(result, Expected(j)),
           Below(i', cluster[j]), Above(i', cluster[j]), i' >= i
    PROVE  MergeInv'
    <1>1. /\ index \in Seq(Nat) /\ cluster \in Seq(Nat)
          /\ Len(index) \in Nat /\ Len(cluster) \in Nat
          /\ i \in Nat /\ i' \in 1..(Len(index) + 1)
          /\ j \in 1..Len(cluster) /\ j' = j + 1
        BY DEF MergeInv, Names
    <1>2. IsSorted(cluster) /\ IsIndex(index) /\ params = NoParams
        BY DEF MergeInv, Listed
    <1>3. Merged' /\ result' \in Seq(Params)
        BY AppendMerged
    <1>4. ASSUME NEW p \in 1..(i' - 1), NEW q \in j'..Len(cluster)
          PROVE  /\ index[p] <= cluster[q]
                 /\ index[p] = cluster[q] => j' > 1 /\ cluster[j' - 1] = cluster[q]
        <2>1. p \in 1..Len(index) /\ q \in 1..Len(cluster) /\ j \in 1..q
            <3>1. p \in 1..Len(index)
                <4>1. i' \in 1..(Len(index) + 1) /\ Len(index) \in Nat /\ p \in 1..(i' - 1)
                    BY <1>1
                <4> QED BY ONLY <4>1, PositionBefore
            <3>2. q \in 1..Len(cluster)
                BY <1>1
            <3>3. j \in 1..q
                BY <1>1
            <3> QED BY <3>1, <3>2, <3>3
        <2>2. cluster[j] \in Nat /\ cluster[q] \in Nat /\ cluster[j] <= cluster[q]
            <3>1. cluster \in Seq(Nat) /\ q \in 1..Len(cluster) /\ j \in 1..q
                BY <1>1, <2>1
            <3> QED BY ONLY <1>2, <3>1, SortedOrder
        <2>3. index[p] \in Nat
            BY <1>1, <2>1
        <2>4. index[p] <= cluster[j]
            BY <1>4 DEF Below
        <2>5. j' > 1 /\ j' - 1 = j
            BY <1>1
        <2> QED BY <2>2, <2>3, <2>4, <2>5
    <1>5. Passed'
        BY <1>4 DEF Passed
    <1>6. ASSUME NEW k \in 1..(j' - 1), NEW p \in i'..Len(index)
          PROVE  cluster[k] < index[p]
        <2>1. CASE k = j
            BY <1>6, <2>1 DEF Above
        <2>2. CASE k # j
            <3>1. k \in 1..(j - 1) /\ p \in i..Len(index)
                BY <1>1, <2>2
            <3> QED BY <3>1 DEF MergeInv, Ahead
        <2> QED BY <2>1, <2>2
    <1>7. Ahead'
        BY <1>6 DEF Ahead
    <1>8. Listed'
        BY DEF MergeInv, Listed
    <1>9. pc = "rest" => i' > Len(index') \/ j' > Len(cluster')
        BY <1>1 DEF MergeInv
    <1> QED
        BY <1>1, <1>2, <1>3, <1>5, <1>7, <1>8, <1>9 DEF MergeInv, Names

\* Every step of NewConfig keeps the invariant of the loops.
LEMMA MergeStep == TypeOK /\ MergeInv /\ [Next]_vars => MergeInv'
    <1> SUFFICES ASSUME TypeOK, MergeInv, [Next]_vars
                 PROVE  MergeInv'
        OBVIOUS
    <1>0. /\ index \in Seq(Nat) /\ IsIndex(index) /\ cluster \in Seq(Nat)
          /\ Len(index) \in Nat /\ Len(cluster) \in Nat
          /\ i \in 1..(Len(index) + 1) /\ j \in 1..(Len(cluster) + 1)
        BY DEF MergeInv, Names
    <1>1. CASE UNCHANGED vars
        BY <1>1, ExpectedKept
        DEF vars, MergeInv, Merged, Passed, Ahead, Listed
    <1>2. CASE ListCluster
        BY <1>2, ListClusterInv DEF TypeOK
    <1>3. ASSUME Fail, pc \in {"list", "merge", "rest"}
          PROVE  MergeInv'
        BY <1>3, ExpectedKept DEF Fail, MergeInv, Merged, Passed, Ahead
    <1>4. CASE KeepFromIndex
        <2>1. /\ pc = "merge" /\ i <= Len(index) /\ j <= Len(cluster)
              /\ index[i] = cluster[j] /\ i' = i + 1
            BY <1>4 DEF KeepFromIndex, InMerge
        <2>2. index[i] \in Nat /\ i \in 1..Len(index) /\ DOMAIN index = 1..Len(index)
            BY <1>0, <2>1
        <2>3. Expected(j) = FromIndex(index[i]) /\ Expected(j) \in Params
            BY <2>1, <2>2, KnownName, ParamFacts DEF Names
        <2>4. ASSUME NEW p \in 1..(i' - 1)
              PROVE  index[p] <= cluster[j]
            <3>1. p \in 1..i
                BY <1>0, <2>1
            <3>2. index[p] \in Nat /\ (p = i \/ index[p] < index[i])
                BY <1>0, <2>2, <3>1, IndexOrder
            <3> QED BY <2>1, <2>2, <3>2
        <2>5. ASSUME NEW p \in i'..Len(index)
              PROVE  cluster[j] < index[p]
            <3>1. p \in 1..Len(index) /\ i \in 1..p /\ p # i
                BY <1>0, <2>1
            <3>2. index[p] \in Nat /\ (p = i \/ index[i] < index[p])
                BY <1>0, <3>1, IndexOrder
            <3> QED BY <2>1, <3>1, <3>2
        <2>7. Below(i', cluster[j]) /\ Above(i', cluster[j])
            BY <2>4, <2>5 DEF Below, Above
        <2>6. i' \in 1..(Len(index) + 1) /\ i' >= i
            BY <1>0, <2>1, <2>2
        <2> QED BY <1>4, <2>1, <2>3, <2>6, <2>7, MergeOne DEF KeepFromIndex
    <1>5. CASE FetchNew
        <2>1. /\ pc = "merge" /\ i <= Len(index) /\ j <= Len(cluster)
              /\ index[i] > cluster[j] /\ Fetch
            BY <1>5 DEF FetchNew, InMerge
        <2>2. cluster[j] \in Nat /\ index[i] \in Nat /\ i \in 1..Len(index)
              /\ j \in 1..Len(cluster)
            BY <1>0, <2>1
        <2>3. ASSUME NEW p \in i..Len(index)
              PROVE  cluster[j] < index[p]
            <3>1. p \in DOMAIN index /\ i \in DOMAIN index /\ index[p] \in Nat
                BY <1>0, <2>2
            <3>2. p = i \/ index[i] < index[p]
                BY <1>0, <3>1 DEF IsIndex
            <3> QED BY <2>1, <2>2, <3>1, <3>2
        <2>4. Expected(j) = Fetched(cluster[j]) /\ Expected(j) \in Params
            BY <2>1, <2>2, <2>3, NewName, ParamFacts DEF Names
        <2>5. \A p \in 1..(i - 1) : index[p] <= cluster[j]
            BY <1>0, <2>2 DEF MergeInv, Passed
        <2>6. Below(i, cluster[j]) /\ Above(i, cluster[j]) /\ i' = i
            BY <2>1, <2>3, <2>5 DEF Below, Above, Fetch
        <2> QED BY <1>0, <2>1, <2>4, <2>6, MergeOne DEF Fetch
    <1>6. CASE SkipRemoved
        <2>1. /\ pc = "merge" /\ i <= Len(index) /\ j <= Len(cluster)
              /\ index[i] < cluster[j] /\ i' = i + 1
              /\ UNCHANGED <<index, listing, cluster, j, result, pc, params>>
            BY <1>6 DEF SkipRemoved, InMerge
        <2>2. index[i] \in Nat /\ i \in 1..Len(index) /\ j \in 1..Len(cluster)
            BY <1>0, <2>1
        <2>3. ASSUME NEW q \in j..Len(cluster)
              PROVE  index[i] < cluster[q]
            <3>1. IsSorted(cluster)
                BY <2>1 DEF MergeInv, Listed
            <3>2. /\ j \in DOMAIN cluster /\ q \in DOMAIN cluster
                  /\ cluster[j] \in Nat /\ cluster[q] \in Nat
                BY <1>0, <2>2
            <3>3. q = j \/ cluster[j] <= cluster[q]
                BY <3>1, <3>2 DEF IsSorted
            <3> QED BY <2>1, <2>2, <3>2, <3>3
        <2>4. ASSUME NEW p \in 1..(i' - 1), NEW q \in j..Len(cluster)
              PROVE  /\ index[p] <= cluster[q]
                     /\ index[p] = cluster[q] => j > 1 /\ cluster[j - 1] = cluster[q]
            <3>1. CASE p = i
                BY <1>0, <2>2, <2>3, <3>1
            <3>2. CASE p # i
                <4>1. p \in 1..(i - 1)
                    BY <1>0, <2>1, <3>2
                <4> QED BY <4>1 DEF MergeInv, Passed
            <3> QED BY <3>1, <3>2
        <2>8. Passed'
            BY <2>1, <2>4 DEF Passed
        <2>5. Ahead'
            BY <1>0, <2>1, <2>2 DEF MergeInv, Ahead
        <2>6. Merged' /\ Listed'
            BY <2>1, ExpectedKept DEF MergeInv, Merged, Listed
        <2>7. i' \in 1..(Len(index) + 1)
            BY <2>1, <2>2
        <2> QED BY <1>0, <2>1, <2>5, <2>6, <2>7, <2>8 DEF MergeInv
    <1>7. CASE EndMerge
        <2>1. /\ pc = "merge" /\ pc' = "rest"
              /\ i > Len(index) \/ j > Len(cluster)
              /\ UNCHANGED <<index, listing, cluster, i, j, result, params>>
            BY <1>0, <1>7 DEF EndMerge, InMerge
        <2> QED BY <1>0, <2>1, ExpectedKept
                DEF MergeInv, Merged, Passed, Ahead, Listed
    <1>8. CASE FetchRest
        <2>1. /\ pc = "rest" /\ j <= Len(cluster) /\ i = Len(index) + 1 /\ Fetch
            BY <1>0, <1>8 DEF FetchRest, MergeInv
        <2>2. cluster[j] \in Nat /\ j \in 1..Len(cluster)
            BY <1>0, <2>1
        <2>3. \A p \in i..Len(index) : cluster[j] < index[p]
            BY <1>0, <2>1
        <2>4. Expected(j) = Fetched(cluster[j]) /\ Expected(j) \in Params
            BY <2>1, <2>2, <2>3, NewName, ParamFacts DEF Names
        <2>5. \A p \in 1..(i - 1) : index[p] <= cluster[j]
            BY <1>0, <2>2 DEF MergeInv, Passed
        <2>6. Below(i, cluster[j]) /\ Above(i, cluster[j]) /\ i' = i
            BY <2>1, <2>3, <2>5 DEF Below, Above, Fetch
        <2> QED BY <1>0, <2>1, <2>4, <2>6, MergeOne DEF Fetch
    <1>9. CASE Return
        <2>1. /\ pc = "rest" /\ pc' = "done" /\ j > Len(cluster) /\ params' = result
              /\ UNCHANGED <<index, listing, cluster, i, j, result>>
            BY <1>9 DEF Return
        <2> QED BY <1>0, <2>1, ExpectedKept
                DEF MergeInv, Merged, Passed, Ahead, Listed
    <1> QED
        BY <1>1, <1>2, <1>3, <1>4, <1>5, <1>6, <1>7, <1>8, <1>9
        DEF Next, ListFails, FetchNewFails, FetchRestFails, InMerge

\* Every step keeps the types.
LEMMA MergeTypeStep == TypeOK /\ MergeInv /\ [Next]_vars => TypeOK'
    <1> SUFFICES ASSUME TypeOK, MergeInv, MergeInv', [Next]_vars
                 PROVE  TypeOK'
        BY MergeStep
    <1>1. index' = index /\ listing' = listing
        BY DEF Next, vars, ListCluster, ListFails, Fail, KeepFromIndex, FetchNew,
               FetchNewFails, SkipRemoved, EndMerge, FetchRest, FetchRestFails, Fetch, Return
    <1>2. pc' \in {"list", "merge", "rest", "done", "failed"}
        BY DEF TypeOK, Next, vars, ListCluster, ListFails, Fail, KeepFromIndex, FetchNew,
               FetchNewFails, SkipRemoved, EndMerge, FetchRest, FetchRestFails, Fetch, Return
    <1>3. /\ cluster' \in Seq(Names) /\ result' \in Seq(Params)
          /\ i' \in Nat /\ j' \in Nat
          /\ params' \in Seq(Params) \cup {NoParams}
        BY DEF MergeInv, Names
    <1> QED BY <1>1, <1>2, <1>3 DEF TypeOK

\* The types and the invariant of the loops hold throughout.
LEMMA AlwaysMergeInv == Spec => [](TypeOK /\ MergeInv)
    <1>1. Init => TypeOK
        BY ListsAssumption DEF Init, TypeOK, Params, Names
    <1>2. Init => MergeInv
        BY InitMergeInv
    <1> QED BY <1>1, <1>2, MergeStep, MergeTypeStep, PTL DEF Spec

\* Every variable keeps its type, whatever the lists are: no parameter is without
\* a description from the index or from the monitor.
THEOREM MergeTypeCorrect == Spec => []TypeOK
    BY AlwaysMergeInv, PTL

\* What the loops have built when they end is what MergeIsExact promises.
LEMMA MergeInvExact == MergeInv => MergeIsExact
    <1> SUFFICES ASSUME MergeInv, params # NoParams
                 PROVE  /\ Len(params) = Len(listing)
                        /\ \A k \in 1..Len(params) : params[k] = Expected(k)
                        /\ \A p, q \in DOMAIN params :
                               p < q => params[p].name <= params[q].name
                        /\ \A p \in DOMAIN listing :
                               \E q \in DOMAIN params : params[q].name = listing[p]
        BY DEF MergeIsExact
    <1>1. /\ params = result /\ params \in Seq(Params) /\ cluster \in Seq(Nat)
          /\ Len(params) = Len(cluster) /\ Listed
          /\ \A k \in 1..Len(params) : params[k] = Expected(k)
        BY DEF MergeInv, Merged, Names
    <1>2. ASSUME NEW k \in 1..Len(params)
          PROVE  params[k].name = cluster[k]
        <2>1. cluster[k] \in Names
            BY <1>1, <1>2 DEF Names
        <2>2. Expected(k) \in {FromIndex(cluster[k]), Fetched(cluster[k])}
            BY DEF Expected
        <2> QED BY <1>1, <1>2, <2>1, <2>2, ParamFacts
    <1>3. DOMAIN params = 1..Len(params) /\ DOMAIN cluster = 1..Len(params)
        BY <1>1
    <1>4. ASSUME NEW p \in DOMAIN params, NEW q \in DOMAIN params, p < q
          PROVE  params[p].name <= params[q].name
        <2>1. cluster[p] <= cluster[q]
            BY <1>1, <1>3, <1>4 DEF Listed, IsSorted
        <2> QED BY <1>2, <1>3, <2>1
    <1>5. \A p \in DOMAIN listing : \E q \in DOMAIN params : params[q].name = listing[p]
        BY <1>1, <1>2, <1>3 DEF Listed
    <1> QED BY <1>1, <1>4, <1>5 DEF Listed

\* Whatever the embedded list and the cluster's, a Config lists what the cluster
\* lists, sorted, each parameter with the description it should have.
THEOREM MergeAlwaysExact == Spec => []MergeIsExact
    BY AlwaysMergeInv, MergeInvExact, PTL

(***************************************************************************)
(* NewConfig ends.  Every step takes it nearer to its end, and until then  *)
(* a step is possible.                                                     *)
(***************************************************************************)
\* What is left to do: names to look at, and stages.
Left ==
    CASE pc = "list" -> Len(index) + Len(listing) + 3
      [] pc = "merge" -> (Len(index) + 1 - i) + (Len(cluster) + 1 - j) + 2
      [] pc = "rest" -> (Len(cluster) + 1 - j) + 1
      [] OTHER -> 0

NearerEnd == Left \in Nat /\ Left' \in Nat /\ Left' < Left

\* NewConfig takes no more steps than the two lists have names, and three: the loops
\* never look at a name twice, and the monitor is asked at most once for each name
\* that the cluster lists.
THEOREM EveryStepLeavesLess == Spec => [][NearerEnd]_vars
    <1>1. TypeOK /\ MergeInv /\ [Next]_vars => [NearerEnd]_vars
        <2> SUFFICES ASSUME TypeOK, MergeInv, Next
                     PROVE  NearerEnd
            OBVIOUS
        <2> USE DEF NearerEnd, Left
        <2>1. /\ Len(index) \in Nat /\ Len(cluster) \in Nat /\ Len(listing) \in Nat
              /\ i \in 1..(Len(index) + 1) /\ j \in 1..(Len(cluster) + 1)
              /\ pc = "list" => i = 1 /\ j = 1
            <3>1. listing \in Seq(Names)
                BY ListsAssumption DEF TypeOK
            <3> QED BY <3>1 DEF MergeInv
        <2>2. CASE ListCluster
            <3>1. PICK order \in Orders(Len(listing)) : cluster' = Reordered(listing, order)
                BY <2>2 DEF ListCluster
            <3>2. Len(cluster') = Len(listing)
                BY <2>1, <3>1 DEF Reordered
            <3>3. pc = "list" /\ pc' = "merge" /\ i' = i /\ j' = j /\ index' = index
                BY <2>2 DEF ListCluster
            <3>4. Left = Len(index) + Len(listing) + 3
                BY <3>3
            <3>5. Left' = (Len(index) + 1 - i) + (Len(listing) + 1 - j) + 2
                BY <3>2, <3>3
            <3>6. Left' = Len(index) + Len(listing) + 2
                BY <2>1, <3>3, <3>5
            <3> HIDE DEF Left
            <3> QED BY <2>1, <3>4, <3>6
        <2>3. CASE KeepFromIndex \/ SkipRemoved \/ FetchNew
            <3>1. /\ pc = "merge" /\ pc' = "merge" /\ index' = index /\ cluster' = cluster
                  /\ i <= Len(index) /\ j <= Len(cluster)
                  /\ \/ i' = i + 1 /\ j' = j + 1
                     \/ i' = i + 1 /\ j' = j
                     \/ i' = i /\ j' = j + 1
                BY <2>3 DEF KeepFromIndex, SkipRemoved, FetchNew, Fetch, InMerge
            <3>2. /\ Left = (Len(index) + 1 - i) + (Len(cluster) + 1 - j) + 2
                  /\ Left' = (Len(index) + 1 - i') + (Len(cluster) + 1 - j') + 2
                <4>1. Left = (Len(index) + 1 - i) + (Len(cluster) + 1 - j) + 2
                    BY <3>1
                <4>2. Left' = (Len(index) + 1 - i') + (Len(cluster) + 1 - j') + 2
                    BY <3>1
                <4> QED BY <4>1, <4>2
            <3> HIDE DEF Left
            <3>3. PICK m \in Nat, n \in Nat : m = Len(index) + 1 /\ n = Len(cluster) + 1
                BY <2>1
            <3>4. /\ Left = (m - i) + (n - j) + 2 /\ Left' = (m - i') + (n - j') + 2
                  /\ i < m /\ j < n /\ i \in Nat /\ j \in Nat
                BY <2>1, <3>1, <3>2, <3>3
            <3>5. CASE i' = i + 1 /\ j' = j + 1
                BY <3>4, <3>5
            <3>6. CASE i' = i + 1 /\ j' = j
                BY <3>4, <3>6
            <3>7. CASE i' = i /\ j' = j + 1
                BY <3>4, <3>7
            <3> QED BY <3>1, <3>5, <3>6, <3>7
        <2>4. CASE EndMerge
            BY <2>1, <2>4 DEF EndMerge
        <2>5. CASE FetchRest
            BY <2>1, <2>5 DEF FetchRest, Fetch
        <2>6. CASE Return
            BY <2>1, <2>6 DEF Return
        <2>7. CASE ListFails \/ FetchNewFails \/ FetchRestFails
            BY <2>1, <2>7 DEF ListFails, FetchNewFails, FetchRestFails, InMerge, Fail
        <2> QED BY <2>2, <2>3, <2>4, <2>5, <2>6, <2>7 DEF Next
    <1> QED BY <1>1, AlwaysMergeInv, PTL DEF Spec

(***************************************************************************)
(* That the cluster's list can be sorted is shown by induction on its      *)
(* length: the least name first, then the rest in order.                   *)
(***************************************************************************)
\* A set of numbers has a least one.
LEMMA LeastOf ==
    ASSUME NEW T, T \subseteq Nat, T # {}
    PROVE  \E n \in T : \A m \in T : n <= m
    <1>1. PICK n \in T : \A m \in T : ~ (<<m, n>> \in OpToRel(<, Nat))
        BY NatLessThanWellFounded, WFMin
    <1>2. \A m \in T : ~(m < n)
        BY <1>1 DEF OpToRel
    <1> QED BY <1>2

Sorts(s, order) == order \in Orders(Len(s)) /\ IsSorted(Reordered(s, order))

\* A list whose first element is put at its place, the rest being in order.
LEMMA SortedByOneMore ==
    ASSUME NEW n \in Nat,
           \A t \in Seq(Nat) : Len(t) = n => \E order : Sorts(t, order),
           NEW s \in Seq(Nat), Len(s) = n + 1
    PROVE  \E order : Sorts(s, order)
    <1>1. \A k \in 1..(n + 1) : s[k] \in Nat
        OBVIOUS
    <1>2. PICK m \in 1..(n + 1) : \A k \in 1..(n + 1) : s[m] <= s[k]
        <2> DEFINE T == {s[k] : k \in 1..(n + 1)}
        <2>1. T \subseteq Nat /\ T # {}
            <3>1. 1 \in 1..(n + 1)
                OBVIOUS
            <3> QED BY <1>1, <3>1
        <2>2. PICK low \in T : \A x \in T : low <= x
            BY <2>1, LeastOf
        <2> QED BY <2>2
    <1> DEFINE t == [k \in 1..n |-> IF k = m THEN s[n + 1] ELSE s[k]]
    <1>3. t \in Seq(Nat) /\ Len(t) = n
        BY <1>1
    <1>4. PICK o : Sorts(t, o)
        BY <1>3
    <1>5. o \in [1..n -> 1..n] /\ \A k \in 1..n : \E q \in 1..n : o[q] = k
        BY <1>3, <1>4 DEF Sorts, Orders
    <1>6. \A p, q \in 1..n : p < q => t[o[p]] <= t[o[q]]
        BY <1>3, <1>4 DEF Sorts, IsSorted, Reordered
    <1> DEFINE At(k) == IF k = m THEN n + 1 ELSE k
               order == [k \in 1..(n + 1) |-> IF k = 1 THEN m ELSE At(o[k - 1])]
    <1>7. \A k \in 1..n : At(k) \in 1..(n + 1) /\ t[k] = s[At(k)]
        OBVIOUS
    <1>8. \A k \in 1..n : order[k + 1] = At(o[k])
        OBVIOUS
    <1>9. order[1] = m /\ order \in [1..(n + 1) -> 1..(n + 1)]
        <2>1. \A k \in 2..(n + 1) : k - 1 \in 1..n
            OBVIOUS
        <2>2. \A k \in 2..(n + 1) : At(o[k - 1]) \in 1..(n + 1)
            BY <1>5, <1>7, <2>1
        <2> HIDE DEF At
        <2>3. \A k \in 1..(n + 1) : k # 1 => k \in 2..(n + 1)
            OBVIOUS
        <2> QED BY <2>2, <2>3
    <1> HIDE DEF t, order
    <1>10. ASSUME NEW k \in 1..(n + 1)
           PROVE  \E q \in 1..(n + 1) : order[q] = k
        <2>1. CASE k = m
            BY <1>9, <2>1
        <2>2. CASE k # m /\ k = n + 1
            <3>1. PICK q \in 1..n : o[q] = m
                BY <1>5, <2>2
            <3>2. order[q + 1] = k /\ q + 1 \in 1..(n + 1)
                BY <1>8, <2>2, <3>1
            <3> QED BY <3>2
        <2>3. CASE k # m /\ k # n + 1
            <3>1. PICK q \in 1..n : o[q] = k
                BY <1>5, <2>3
            <3>2. order[q + 1] = At(k) /\ At(k) = k
                BY <1>8, <2>3, <3>1
            <3>3. q + 1 \in 1..(n + 1)
                OBVIOUS
            <3> QED BY <3>2, <3>3
        <2> QED BY <2>1, <2>2, <2>3
    <1>11. order \in Orders(n + 1)
        BY <1>9, <1>10 DEF Orders
    <1> HIDE DEF At
    <1>12. ASSUME NEW p \in 1..(n + 1), NEW q \in 1..(n + 1), p < q
           PROVE  s[order[p]] <= s[order[q]]
        <2>1. CASE p = 1
            BY <1>2, <1>9, <2>1
        <2>2. CASE p # 1
            <3>1. /\ p - 1 \in 1..n /\ q - 1 \in 1..n /\ p - 1 < q - 1
                  /\ p = (p - 1) + 1 /\ q = (q - 1) + 1
                BY <1>12, <2>2
            <3>2. t[o[p - 1]] <= t[o[q - 1]]
                BY <1>6, <3>1
            <3>3. order[p] = At(o[p - 1]) /\ order[q] = At(o[q - 1])
                BY <1>8, <3>1
            <3>4. o[p - 1] \in 1..n /\ o[q - 1] \in 1..n
                BY <1>5, <3>1
            <3> QED BY <1>7, <3>2, <3>3, <3>4
        <2> QED BY <2>1, <2>2
    <1>13. IsSorted(Reordered(s, order))
        BY <1>12 DEF IsSorted, Reordered
    <1> QED BY <1>11, <1>13 DEF Sorts

\* Whatever the cluster lists, sort.Strings has a list to make of it.
LEMMA CanBeSorted ==
    ASSUME NEW s \in Seq(Nat)
    PROVE  \E order : Sorts(s, order)
    <1> DEFINE Bad == {n \in Nat : \E t \in Seq(Nat) : Len(t) = n /\ ~ \E order : Sorts(t, order)}
    <1>1. CASE Bad = {}
        BY <1>1
    <1>2. CASE Bad # {}
        <2>1. PICK n \in Bad : \A m \in Bad : n <= m
            BY <1>2, LeastOf
        <2>2. PICK t \in Seq(Nat) : Len(t) = n /\ ~ \E order : Sorts(t, order)
            OBVIOUS
        <2>3. CASE n = 0
            <3>1. << >> \in Orders(0) /\ IsSorted(Reordered(t, << >>))
                BY <2>2, <2>3 DEF Orders, IsSorted, Reordered
            <3> QED BY <2>2, <2>3, <3>1 DEF Sorts
        <2>4. CASE n # 0
            <3>1. n - 1 \in Nat /\ n = (n - 1) + 1 /\ ~(n <= n - 1)
                BY <2>4
            <3>2. n - 1 \notin Bad
                BY <2>1, <3>1
            <3>3. \A r \in Seq(Nat) : Len(r) = n - 1 => \E order : Sorts(r, order)
                BY <3>1, <3>2
            <3> QED BY <2>2, <3>1, <3>3, SortedByOneMore
        <2> QED BY <2>3, <2>4
    <1> QED BY <1>1, <1>2

\* What each step waits for, before NewConfig is done.
CanGoOn ==
    \/ pc = "list" /\ \E order : Sorts(listing, order)
    \/ InMerge /\ (index[i] = cluster[j] \/ index[i] < cluster[j] \/ index[i] > cluster[j])
    \/ pc = "merge" /\ ~InMerge
    \/ pc = "rest" /\ (j <= Len(cluster) \/ j > Len(cluster))

NeverStuck == pc \in {"done", "failed"} \/ CanGoOn

\* NewConfig never comes to a point from which no step of the code leads on: of two
\* names one comes first or they are equal, and what the cluster lists can be sorted.
THEOREM MergeGoesOn == Spec => []NeverStuck
    <1>1. TypeOK /\ MergeInv => NeverStuck
        <2> SUFFICES ASSUME TypeOK, MergeInv
                     PROVE  NeverStuck
            OBVIOUS
        <2>1. CASE pc = "list"
            <3>1. listing \in Seq(Nat)
                BY ListsAssumption DEF TypeOK, Names
            <3> QED BY <2>1, <3>1, CanBeSorted DEF NeverStuck, CanGoOn
        <2>2. CASE pc = "merge" /\ InMerge
            <3>1. index[i] \in Nat /\ cluster[j] \in Nat
                BY <2>2 DEF InMerge, MergeInv, Names
            <3> QED BY <2>2, <3>1 DEF NeverStuck, CanGoOn
        <2>3. CASE pc = "merge" /\ ~InMerge
            BY <2>3 DEF NeverStuck, CanGoOn
        <2>4. CASE pc = "rest"
            <3>1. j \in Nat /\ Len(cluster) \in Nat
                BY DEF MergeInv
            <3> QED BY <2>4, <3>1 DEF NeverStuck, CanGoOn
        <2>5. CASE pc \in {"done", "failed"}
            BY <2>5 DEF NeverStuck
        <2> QED BY <2>1, <2>2, <2>3, <2>4, <2>5 DEF TypeOK
    <1> QED BY <1>1, AlwaysMergeInv, PTL
==============================================================================
