------------------------- MODULE RequirementClosure ------------------------
(***************************************************************************)
(* The skills that a type requires, directly or through other skills: the  *)
(* rows of sde_type_requirements are followed depth first from the target, *)
(* measured breadth first, and put in an order in which every skill comes  *)
(* after those it requires itself.  A row with level 0 is evidence but is  *)
(* not followed.  The static data are not trusted: cycles, invalid rows    *)
(* and anything above the limits end the resolution with an error.         *)
(*                                                                         *)
(* visit is recursive; here its stack is a variable, and rows are taken in *)
(* any order, not just by requirement_index.  Abstracted: names.           *)
(*                                                                         *)
(* The names that every module has begin with Closure here: the proofs     *)
(* about this module and about SdeInstall are in one module.               *)
(***************************************************************************)
EXTENDS Integers, SequencesExt

CONSTANTS
    NumTypes,           \* types are numbers
    Target,             \* the type whose requirements are resolved
    Graphs,             \* sets of rows to resolve them in
    MaxNodes,           \* MAX_REQUIREMENT_NODES
    MaxEdges,           \* MAX_REQUIREMENT_EDGES
    MaxDepth            \* MAX_REQUIREMENT_DEPTH

Type == 1..NumTypes

\* A level above 5 stands for whatever validateClosureEdge refuses.
Edge == [source: Type, skill: Type, level: 0..6]

ASSUME ClosureAssumption ==
    /\ NumTypes \in Nat /\ Target \in Type
    /\ Graphs \subseteq SUBSET Edge
    /\ {MaxNodes, MaxEdges, MaxDepth} \subseteq Nat

VARIABLES
    graph,              \* the rows
    phase,              \* where the resolution stands, or its error
    stack,              \* activations of visit: their type and rows to come
    visitState,
    rawEdges,
    queue, depths,      \* shortestRequirementDepths
    available, indegree, ordered    \* topologicalRequirementOrder

closureVars == <<graph, phase, stack, visitState, rawEdges, queue, depths,
                 available, indegree, ordered>>

Errors == {"cycle", "invalid", "limit"}

ClosureTypeOK ==
    /\ graph \subseteq Edge
    /\ phase \in {"visiting", "measuring", "ordering", "done"} \cup Errors
    /\ stack \in Seq([type: Type, rows: SUBSET graph])
    /\ visitState \in [Type -> {"new", "visiting", "complete"}]
    /\ rawEdges \subseteq graph
    /\ queue \in Seq(Type) /\ depths \in [Type -> Nat \cup {-1}]
    /\ available \subseteq Type
    /\ indegree \in [Type -> Nat]
    /\ ordered \in Seq(Type)

RowsOf(type) == {e \in graph : e.source = type}

\* visit(targetTypeId, 0)
ClosureInit ==
    /\ graph \in Graphs
    /\ phase = "visiting"
    /\ stack = <<[type |-> Target, rows |-> RowsOf(Target)]>>
    /\ visitState = [t \in Type |-> IF t = Target THEN "visiting" ELSE "new"]
    /\ rawEdges = {}
    /\ queue = <<>> /\ depths = [t \in Type |-> -1]
    /\ available = {} /\ indegree = [t \in Type |-> 0] /\ ordered = <<>>

---------------------------------------------------------------------------
(* visit *)

measures == <<queue, depths>>
order    == <<available, indegree, ordered>>

Skills(edges)     == {e.skill : e \in edges}
Valid(e)          == e.level <= 5
Children(t)       == {e.skill : e \in {f \in rawEdges : f.source = t /\ f.level > 0}}

Top    == Last(stack)
Popped == Front(stack)

Follows(e) == e.level > 0

\* The error that row e ends the resolution with, in the order of the checks.
ErrorOf(e) ==
    LET edges == rawEdges \cup {e} IN
    CASE ~Valid(e)                             -> "invalid"
      [] Valid(e) /\ e.source = e.skill        -> "cycle"
      [] OTHER ->
           IF \/ Cardinality(edges) > MaxEdges
              \/ Cardinality(Skills(edges)) > MaxNodes
              \/ Follows(e) /\ Len(stack) > MaxDepth   \* visit's first check
           THEN "limit"
           ELSE IF Follows(e) /\ visitState[e.skill] = "visiting"
                THEN "cycle" ELSE "none"

\* One turn of the loop over a type's rows.
Follow ==
    /\ phase = "visiting"
    /\ \E e \in Top.rows :
         LET error == ErrorOf(e)
             left  == Append(Popped, [Top EXCEPT !.rows = @ \ {e}])
         IN IF error # "none"
            THEN /\ phase' = error
                 /\ UNCHANGED <<stack, visitState, rawEdges>>
            ELSE /\ rawEdges' = rawEdges \cup {e}
                 /\ IF Follows(e) /\ visitState[e.skill] = "new"
                    THEN /\ stack' = Append(left, [type |-> e.skill,
                                                   rows |-> RowsOf(e.skill)])
                         /\ visitState' = [visitState EXCEPT ![e.skill] = "visiting"]
                    ELSE /\ stack' = left
                         /\ UNCHANGED visitState
                 /\ UNCHANGED phase
    /\ UNCHANGED <<graph, measures, order>>

\* longestRequirementDepth; the rows have no cycle by then.
LongestFrom[t \in Type] ==
    LET below == {LongestFrom[s] : s \in Children(t)}
    IN IF below = {} THEN 0 ELSE 1 + CHOOSE n \in below : \A m \in below : m <= n

\* Mutant: visit is trusted to have met the longest path.
TooDeep_Trusting == FALSE

TooDeep == LongestFrom[Target] > MaxDepth

\* All rows of a type are done; those of the target were the last.
Complete ==
    /\ phase = "visiting"
    /\ Top.rows = {}
    /\ visitState' = [visitState EXCEPT ![Top.type] = "complete"]
    /\ stack' = Popped
    /\ IF Popped # <<>> THEN UNCHANGED <<phase, measures>>
       ELSE IF TooDeep
            THEN phase' = "limit" /\ UNCHANGED measures
            ELSE /\ phase' = "measuring"
                 /\ queue' = <<Target>>
                 /\ depths' = [depths EXCEPT ![Target] = 0]
    /\ UNCHANGED <<graph, rawEdges, order>>

---------------------------------------------------------------------------
(* shortestRequirementDepths *)

Improves(child, depth) == depths[child] = -1 \/ depth < depths[child]

\* Children that a shorter way leads to join the queue, here in any order.
Measure ==
    /\ phase = "measuring" /\ queue # <<>>
    /\ LET depth  == depths[Head(queue)] + 1
           better == {t \in Children(Head(queue)) : Improves(t, depth)}
       IN /\ depths' = [t \in Type |-> IF t \in better THEN depth ELSE depths[t]]
          /\ \E joining \in [1..Cardinality(better) -> better] :
               /\ ToSet(joining) = better
               /\ queue' = Tail(queue) \o joining
    /\ UNCHANGED <<graph, phase, stack, visitState, rawEdges, order>>

---------------------------------------------------------------------------
(* topologicalRequirementOrder *)

Nodes == Skills(rawEdges)

\* Mutant: the counter is set instead of raised.
Indegree_Set(t) == IF Children(t) = {} THEN 0 ELSE 1

\* What a skill requires itself; the target does not count.
Indegree(t) == Cardinality(Children(t))

\* All that it requires has its place.
Ready(n) == n = 0

StartOrdering ==
    /\ phase = "measuring" /\ queue = <<>>
    /\ phase' = "ordering"
    /\ indegree' = [t \in Type |->
                      IF t \in Nodes \ {Target} THEN Indegree(t) ELSE 0]
    /\ available' = {t \in Nodes : Ready(indegree'[t])}
    /\ UNCHANGED <<graph, stack, visitState, rawEdges, measures, ordered>>

\* The first of those available, and whom it makes available.
TakeNext ==
    /\ phase = "ordering" /\ available # {}
    /\ LET next       == CHOOSE t \in available : \A s \in available : t <= s
           dependents == {t \in Nodes \ {Target} : next \in Children(t)}
       IN /\ ordered' = Append(ordered, next)
          /\ indegree' = [t \in Type |-> IF t \in dependents THEN indegree[t] - 1
                                         ELSE indegree[t]]
          /\ available' = (available \ {next})
                            \cup {t \in dependents : Ready(indegree'[t])}
    /\ UNCHANGED <<graph, phase, stack, visitState, rawEdges, measures>>

Finish ==
    /\ phase = "ordering" /\ available = {}
    /\ phase' = IF Len(ordered) = Cardinality(Nodes) THEN "done" ELSE "cycle"
    /\ UNCHANGED <<graph, stack, visitState, rawEdges, measures, order>>

ClosureNext == Follow \/ Complete \/ Measure \/ StartOrdering \/ TakeNext \/ Finish

ClosureSpec == ClosureInit /\ [][ClosureNext]_closureVars

---------------------------------------------------------------------------
(* Reference definitions *)

Requires(t) == {e.skill : e \in {f \in graph : f.source = t /\ f.level \in 1..5}}

\* The least set of types that has the target and all that its types require.
Closed(S) == Target \in S /\ \A t \in S : Requires(t) \subseteq S
Followed  == {t \in Type : \A S \in SUBSET Type : Closed(S) => t \in S}

Relevant == {e \in graph : e.source \in Followed}

\* The ways of n rows down from t.
Ways(n, t) == {p \in [0..n -> Type] :
                 p[0] = t /\ \A i \in 1..n : p[i] \in Requires(p[i - 1])}

\* n is the length of a shortest way from the target to t.
LeadsTo(n, t)  == \E p \in Ways(n, Target) : p[n] = t
Distance(n, t) == LeadsTo(n, t) /\ \A m \in 0..(n - 1) : ~LeadsTo(m, t)

\* Of any types that are followed one requires none of them.
WithoutCycles ==
    \A S \in SUBSET Followed : S # {} => \E t \in S : Requires(t) \cap S = {}

\* The graph can be resolved: what is relevant is valid, without cycles and
\* within the limits.
Sound ==
    /\ \A e \in Relevant : Valid(e) /\ e.source # e.skill
    /\ WithoutCycles
    /\ Cardinality(Relevant) <= MaxEdges
    /\ Cardinality(Skills(Relevant)) <= MaxNodes
    /\ Ways(MaxDepth + 1, Target) = {}

---------------------------------------------------------------------------
(* Properties *)

\* A resolution succeeds exactly for the graphs that are sound, however a
\* cycle, an invalid row and a limit hide one another on the way, and whatever
\* the order in which rows are followed; it has then found exactly the rows
\* that matter, and how far the source of each is from the target.
ResolvesExactly ==
    /\ phase \in Errors => ~Sound
    /\ phase = "done" =>
         /\ Sound
         /\ rawEdges = Relevant
         /\ \A t \in Type : IF t \in Followed
                           THEN depths[t] \in Nat /\ Distance(depths[t], t)
                           ELSE depths[t] = -1

\* A resolution that succeeds lists every skill once, after the skills it
\* requires itself, so that a plan can be trained from first to last.
OrderIsUsable ==
    phase = "done" =>
      /\ ToSet(ordered) = Skills(Relevant) /\ IsInjective(ordered)
      /\ \A i, j \in DOMAIN ordered :
           ordered[i] \in Followed \ {Target} /\ ordered[j] \in Requires(ordered[i])
           => j < i

=============================================================================
