------------------------------ MODULE ConfigSearch ------------------------------
(***************************************************************************)
(* Config.Search (pkg/cephconfig/config.go) on the Config that NewConfig   *)
(* returned.  Any number of calls search the one list of parameters, with  *)
(* no lock: a search picks what matches into a list of its own and sorts   *)
(* that.                                                                   *)
(*                                                                         *)
(* What the filters compare is given for each name; types and levels are   *)
(* numbers in the order of their texts.  A pattern or a text is the set of *)
(* names it matches.                                                       *)
(***************************************************************************)
EXTENDS ConfigMerge, FiniteSets, Functions

CONSTANTS
    ServicesOf, TypeOf, LevelOf,  \* functions of the name of a parameter
    Queries,
    Unset                         \* a field of a query that is not given

ASSUME SearchAssumption ==
    \A q \in Queries :
        /\ q.name = Unset \/ (q.name.wild \in BOOLEAN /\ q.name.matches \subseteq Names)
        /\ q.name # Unset /\ ~q.name.wild => Cardinality(q.name.matches) <= 1
        /\ q.text = Unset \/ q.text \subseteq Names
        /\ q.sort \in {Unset, "name", "type", "level", "other"}
        /\ q.order \in {Unset, "asc", "desc"}

VARIABLES query, answer  \* a search, and what it has found

searched == <<query, answer>>

SearchInit == Init /\ query = Unset /\ answer = << >>

Matches(q, param) ==
    /\ q.service # Unset => q.service \in ServicesOf[param.name]
    /\ q.level # Unset => q.level = LevelOf[param.name]
    /\ q.name # Unset => param.name \in q.name.matches
    /\ q.type # Unset => q.type = TypeOf[param.name]
    /\ q.text # Unset => param.name \in q.text

\* Faulty variant: a pattern counts as a name.
UniqueAnyway(q) == q.name # Unset

\* A name without wildcards: the search ends with the first match.
UniqueName(q) == q.name # Unset /\ ~q.name.wild

Matching(q) == {k \in DOMAIN params : Matches(q, params[k])}

\* The positions that the loop picks from.
Found(q) == {k \in Matching(q) : UniqueName(q) => \A m \in Matching(q) : k <= m}

Key(q, param) ==
    CASE q.sort \in {Unset, "name"} -> param.name
      [] q.sort = "type" -> TypeOf[param.name]
      [] q.sort = "level" -> LevelOf[param.name]
      [] OTHER -> 0

InOrder(q, list) ==
    \A k, m \in DOMAIN list : k < m =>
        IF q.order = "desc" THEN Key(q, list[k]) >= Key(q, list[m])
                            ELSE Key(q, list[k]) <= Key(q, list[m])

\* What was found, in some order.
Answers(q) ==
    {[k \in 1..Cardinality(Found(q)) |-> params[picked[k]]] :
        picked \in Bijection(1..Cardinality(Found(q)), Found(q))}

\* Faulty variant: with no filter the list of the Config itself is sorted.
SearchInPlace(q) ==
    /\ pc = "done" /\ query = Unset
    /\ query' = q
    /\ answer' \in Answers(q) /\ InOrder(q, answer')
    /\ params' = IF Len(answer') = Len(params) THEN answer' ELSE params
    /\ UNCHANGED <<index, listing, cluster, i, j, result, pc>>

\* sort.Slice: parameters of equal keys come in any order.
Search(q) ==
    /\ pc = "done" /\ query = Unset
    /\ query' = q
    /\ answer' \in Answers(q) /\ InOrder(q, answer')
    /\ UNCHANGED vars

\* The answer is its caller's now.
Answered ==
    /\ query # Unset
    /\ query' = Unset /\ answer' = << >>
    /\ UNCHANGED vars

SearchNext ==
    \/ Next /\ UNCHANGED searched
    \/ \E q \in Queries : Search(q)
    \/ Answered

SearchSpec == SearchInit /\ [][SearchNext]_<<vars, searched>> /\ WF_vars(Next)

(***************************************************************************)
(* Properties.                                                             *)
(***************************************************************************)
Positions(list, param) == {k \in DOMAIN list : list[k] = param}

\* A search returns each parameter that matches as often as the Config has it,
\* and nothing else, in the order asked for; of a name that the cluster listed
\* twice, a search for exactly that name returns one.
SearchIsExact ==
    query # Unset =>
        /\ \A k \in DOMAIN answer : Matches(query, answer[k])
        /\ IF query.name # Unset /\ ~query.name.wild
           THEN Len(answer) = IF Matching(query) = {} THEN 0 ELSE 1
           ELSE /\ Len(answer) = Cardinality(Matching(query))
                /\ \A k \in Matching(query) :
                     Cardinality(Positions(answer, params[k]))
                         = Cardinality(Positions(params, params[k]))
        /\ InOrder(query, answer)

\* Searches share the list without a lock: none of them may change it.
SearchLeavesParams == [][params # NoParams => params' = params]_<<vars, searched>>
==================================================================================
