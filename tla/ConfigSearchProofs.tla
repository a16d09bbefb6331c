--------------------------- MODULE ConfigSearchProofs ---------------------------
(***************************************************************************)
(* Searches and the merge they come after, for any lists and queries.      *)
(***************************************************************************)
EXTENDS ConfigSearch, ConfigMergeProofs, FiniteSetTheorems

\* NewConfig returns its Config with its last step.
Returned == pc = "done" <=> params # NoParams

LEMMA NextReturned ==
    ASSUME TypeOK, Returned, Next
    PROVE  Returned' /\ params = NoParams
  BY NoParamsAssumption
  DEF TypeOK, Returned, Next, ListCluster, ListFails, Fail, KeepFromIndex, FetchNew,
      FetchNewFails, SkipRemoved, EndMerge, FetchRest, FetchRestFails, Fetch, Return, InMerge

\* What a search gives its caller, while the caller has it.
Answering ==
    query # Unset =>
        /\ pc = "done" /\ query \in Queries
        /\ answer \in Answers(query) /\ InOrder(query, answer)

SearchInv == TypeOK /\ MergeInv /\ Returned /\ Answering

\* What matches depends on the list alone.
LEMMA AnsweringKept ==
    ASSUME Answering, UNCHANGED <<pc, params, query, answer>>
    PROVE  Answering'
  <1>1. \A q : Matching(q)' = Matching(q)
      BY DEF Matching, Matches
  <1>2. \A q : Found(q)' = Found(q)
      BY <1>1 DEF Found, UniqueName
  <1>3. \A q : Answers(q)' = Answers(q)
      BY <1>2 DEF Answers
  <1>4. InOrder(query, answer)' = InOrder(query, answer)
      BY DEF InOrder, Key
  <1> QED
      BY <1>3, <1>4 DEF Answering

\* A search finds its Config as NewConfig has left it.
LEMMA AlwaysSearchInv == SearchSpec => []SearchInv
  <1>1. SearchInit => SearchInv
    <2>1. Init => TypeOK
        BY ListsAssumption DEF Init, TypeOK, Params, Names
    <2> QED
        BY <2>1, InitMergeInv DEF SearchInit, Init, SearchInv, Returned, Answering
  <1>2. SearchInv /\ [SearchNext]_<<vars, searched>> => SearchInv'
    <2> SUFFICES ASSUME SearchInv, [SearchNext]_<<vars, searched>> PROVE SearchInv'
        OBVIOUS
    <2>1. TypeOK' /\ MergeInv'
        BY MergeStep, MergeTypeStep DEF SearchInv, SearchNext, Search, Answered
    <2>2. CASE Next /\ UNCHANGED searched
      <3>1. params = NoParams /\ Returned'
          BY <2>2, NextReturned DEF SearchInv
      <3>2. query' = Unset
          BY <2>2, <3>1 DEF SearchInv, Returned, Answering, searched
      <3> QED
          BY <2>1, <3>1, <3>2 DEF SearchInv, Answering
    <2>3. CASE \E q \in Queries : Search(q)
      <3>1. PICK q \in Queries : Search(q)
          BY <2>3
      <3>2. /\ query' = q /\ pc' = "done" /\ params' = params /\ Returned'
            /\ answer' \in Answers(q) /\ InOrder(q, answer')
          BY <3>1 DEF Search, vars, SearchInv, Returned
      <3>3. Answers(q)' = Answers(q)
        <4>1. Matching(q)' = Matching(q)
            BY <3>2 DEF Matching, Matches
        <4>2. Found(q)' = Found(q)
            BY <4>1 DEF Found, UniqueName
        <4> QED
            BY <3>2, <4>2 DEF Answers
      <3>4. answer' \in Answers(query)' /\ InOrder(query, answer)'
          BY <3>2, <3>3 DEF InOrder, Key
      <3> QED
          BY <2>1, <3>2, <3>4 DEF SearchInv, Answering
    <2>4. CASE Answered
        BY <2>1, <2>4 DEF Answered, vars, SearchInv, Returned, Answering
    <2>5. CASE UNCHANGED <<vars, searched>>
        BY <2>1, <2>5, AnsweringKept DEF vars, searched, SearchInv, Returned
    <2> QED
        BY <2>2, <2>3, <2>4, <2>5 DEF SearchNext
  <1> QED
      BY <1>1, <1>2, PTL DEF SearchSpec

\* No search, and nothing after it, changes the list that Config.Search calls
\* share without a lock.
THEOREM ParamsAreShared == SearchSpec => SearchLeavesParams
  <1>1. SearchInv /\ [SearchNext]_<<vars, searched>>
          => [params # NoParams => params' = params]_<<vars, searched>>
    <2> SUFFICES ASSUME SearchInv, SearchNext, params # NoParams PROVE params' = params
        OBVIOUS
    <2>1. ~Next
        BY NextReturned DEF SearchInv
    <2> QED
        BY <2>1 DEF SearchNext, Search, Answered, vars
  <1> QED
      BY <1>1, AlwaysSearchInv, PTL DEF SearchSpec, SearchLeavesParams

(***************************************************************************)
(* What the loop picks, counted.                                           *)
(***************************************************************************)
\* What the loop picks is a finite set of positions that match; it is all of
\* them, or the first.
LEMMA FoundCounted ==
    ASSUME NEW q, params \in Seq(Params)
    PROVE  /\ Found(q) \subseteq Matching(q) /\ Matching(q) \subseteq 1..Len(params)
           /\ IsFiniteSet(Found(q)) /\ Cardinality(Found(q)) \in Nat
           /\ UniqueName(q) =>
                  Cardinality(Found(q)) = IF Matching(q) = {} THEN 0 ELSE 1
           /\ ~UniqueName(q) => Found(q) = Matching(q)
  <1>1. Found(q) \subseteq Matching(q) /\ Matching(q) \subseteq 1..Len(params)
      BY DEF Found, Matching
  <1>2. Len(params) \in Nat
      OBVIOUS
  <1>3. IsFiniteSet(1..Len(params))
      BY <1>2, FS_Interval
  <1>4. IsFiniteSet(Found(q)) /\ Cardinality(Found(q)) \in Nat
    <2>1. Found(q) \in SUBSET (1..Len(params))
        BY <1>1
    <2> QED
        BY <1>3, <2>1, FS_Subset, FS_CardinalityType
  <1>5. ASSUME UniqueName(q), Matching(q) = {} PROVE Cardinality(Found(q)) = 0
      BY <1>1, <1>5, FS_EmptySet
  <1>6. ASSUME UniqueName(q), Matching(q) # {} PROVE Cardinality(Found(q)) = 1
    <2>1. PICK k \in Matching(q) : \A m \in Matching(q) : k <= m
        BY <1>1, <1>2, <1>6, LeastOf
    <2>2. \A m \in Matching(q) : m \in Nat
        BY <1>1
    <2>3. Found(q) = {k}
        BY <1>6, <2>1, <2>2 DEF Found
    <2> QED
        BY <2>3, FS_Singleton
  <1>7. ~UniqueName(q) => Found(q) = Matching(q)
      BY DEF Found
  <1> QED
      BY <1>1, <1>4, <1>5, <1>6, <1>7

\* The positions of a parameter in an answer and in the list are the same in
\* number, when all that match were picked.
LEMMA AsOften ==
    ASSUME NEW q, params \in Seq(Params), Found(q) = Matching(q),
           NEW picked \in Bijection(1..Cardinality(Found(q)), Found(q)),
           answer = [k \in 1..Cardinality(Found(q)) |-> params[picked[k]]],
           NEW p \in Matching(q)
    PROVE  Cardinality(Positions(answer, params[p]))
               = Cardinality(Positions(params, params[p]))
  <1> DEFINE S == Positions(answer, params[p])
             T == Positions(params, params[p])
             n == Cardinality(Found(q))
             f == [k \in S |-> picked[k]]
  <1>1. /\ picked \in [1..n -> Matching(q)]
        /\ \A a, b \in 1..n : picked[a] = picked[b] => a = b
        /\ \A t \in Matching(q) : \E k \in 1..n : picked[k] = t
      BY DEF Bijection, Injection, Surjection, IsInjective
  <1>2. n \in Nat /\ S \subseteq 1..n /\ \A k \in S : params[picked[k]] = params[p]
      BY FoundCounted DEF Positions
  <1>3. T \subseteq Matching(q)
      BY DEF Positions, Matching, Matches
  <1>4. IsFiniteSet(S)
    <2>1. IsFiniteSet(1..n) /\ S \in SUBSET (1..n)
        BY <1>2, FS_Interval
    <2> HIDE DEF S, n
    <2> QED
        BY <2>1, FS_Subset
  <1>5. f \in Bijection(S, T)
    <2>1. f \in [S -> T]
      <3>1. ASSUME NEW k \in S PROVE picked[k] \in T
          BY <1>1, <1>2, <3>1 DEF Positions, Matching
      <3> QED
          BY <3>1
    <2>2. \A a, b \in S : f[a] = f[b] => a = b
        BY <1>1, <1>2
    <2>3. ASSUME NEW t \in T PROVE \E k \in S : f[k] = t
      <3>1. PICK k \in 1..n : picked[k] = t
          BY <1>1, <1>3
      <3>2. k \in S
          BY <3>1 DEF Positions
      <3> QED
          BY <3>1, <3>2
    <2> HIDE DEF f, S, T
    <2>4. IsInjective(f)
        BY <2>1, <2>2 DEF IsInjective
    <2> QED
        BY <2>1, <2>3, <2>4 DEF Bijection, Injection, Surjection
  <1> HIDE DEF f, S, T
  <1>6. Cardinality(T) = Cardinality(S)
      BY <1>4, <1>5, FS_Bijection DEF ExistsBijection
  <1> QED
      BY <1>6 DEF S, T

\* A search over any list, with any query, gives each parameter that matches as
\* often as the Config has it and nothing else, in order; or, of a name without
\* wildcards, one.
THEOREM SearchAlwaysExact == SearchSpec => []SearchIsExact
  <1>1. SearchInv => SearchIsExact
    <2> SUFFICES ASSUME SearchInv, query # Unset
                 PROVE  SearchIsExact
        BY DEF SearchIsExact
    <2> DEFINE n == Cardinality(Found(query))
    <2>1. /\ params \in Seq(Params)
          /\ answer \in Answers(query) /\ InOrder(query, answer)
        BY DEF SearchInv, TypeOK, Returned, Answering
    <2>2. PICK picked \in Bijection(1..n, Found(query)) :
              answer = [k \in 1..n |-> params[picked[k]]]
        BY <2>1 DEF Answers
    <2>3. n \in Nat
        BY <2>1, FoundCounted
    <2>4. DOMAIN answer = 1..n /\ Len(answer) = n
        BY <2>2, <2>3
    <2>5. ASSUME NEW k \in DOMAIN answer PROVE Matches(query, answer[k])
      <3>1. picked[k] \in Matching(query)
          BY <2>1, <2>4, <2>5, FoundCounted DEF Bijection, Injection
      <3> QED
          BY <2>2, <2>4, <2>5, <3>1 DEF Matching
    <2>6. CASE UniqueName(query)
      <3>1. Len(answer) = IF Matching(query) = {} THEN 0 ELSE 1
          BY <2>1, <2>4, <2>6, FoundCounted
      <3> QED
          BY <2>1, <2>5, <2>6, <3>1 DEF SearchIsExact, UniqueName
    <2>7. CASE ~UniqueName(query)
      <3>1. Found(query) = Matching(query)
          BY <2>1, <2>7, FoundCounted
      <3>2. \A k \in Matching(query) :
                Cardinality(Positions(answer, params[k]))
                    = Cardinality(Positions(params, params[k]))
          BY <2>1, <2>2, <3>1, AsOften
      <3>3. Len(answer) = Cardinality(Matching(query))
          BY <2>4, <3>1
      <3> QED
          BY <2>1, <2>5, <2>7, <3>2, <3>3 DEF SearchIsExact, UniqueName
    <2> QED
        BY <2>6, <2>7
  <1> QED
      BY <1>1, AlwaysSearchInv, PTL
=================================================================================
