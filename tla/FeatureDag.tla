------------------------------ MODULE FeatureDag ------------------------------
(***************************************************************************)
(* One stock-engine-compute-features run up to the frame it publishes      *)
(* (src/stock_engine/features/): load_registry checks the dependency graph *)
(* of the whole registry, expand_feature_ids closes the request under      *)
(* dependencies and orders it (dag.py), and run_feature_publish computes   *)
(* the features in that order, each reading the frames of its upstream     *)
(* features from ctx.features.                                             *)
(*                                                                         *)
(* A feature is its place in the sorted list of feature_ids.  What a       *)
(* feature declares in the registry and what its computer reads are two    *)
(* different things in the code, and so they are here.                     *)
(***************************************************************************)
EXTENDS Integers, Sequences, FiniteSets

CONSTANTS
    Feature,      \* feature_ids, and names that dependencies may mention
    Registries,   \* the registries: feature -> feature ids it depends on
    ComputerSets, \* the keys FEATURE_COMPUTERS may have
    Wants,        \* the feature_ids a run may be asked for
    Reads         \* feature -> what its computer reads from ctx.features

ASSUME FeatureDagAssumption ==
    /\ Feature \subseteq Nat /\ IsFiniteSet(Feature)
    /\ \A g \in Registries :
         DOMAIN g \subseteq Feature /\ g \in [DOMAIN g -> SUBSET Feature]
    /\ ComputerSets \subseteq SUBSET Feature
    /\ Wants \subseteq SUBSET Feature
    /\ Reads \in [Feature -> SUBSET Feature]

VARIABLES
    deps,       \* the registry
    computers,  \* FEATURE_COMPUTERS
    pc,         \* where the run is
    stage,      \* which graph is being ordered: the registry's or the run's
    nodes,      \* its features
    indeg,      \* dependencies of each that are not in order yet
    out,        \* features whose indeg is still to be set or lowered
    queue, order,
    stack, want, needed,  \* expand_feature_ids
    ctx,        \* features whose frame is in ctx.features
    raised,     \* history: computers that raised on their own data
    errors      \* features that failed

dagVars == <<stage, nodes, indeg, out, queue, order>>
expandVars == <<stack, want, needed>>
computeVars == <<ctx, raised, errors>>
runVars == <<deps, computers, pc, dagVars, expandVars, computeVars>>

Registered == DOMAIN deps

Items(s) == {s[k] : k \in DOMAIN s}

FeatureTypeOK ==
    /\ deps \in Registries /\ computers \in ComputerSets
    /\ pc \in {"build", "seed", "pop", "visit", "request", "expand", "check", "load",
               "compute", "computed", "failed"}
    /\ stage \in {"registry", "run"}
    /\ nodes \subseteq Registered
    /\ indeg \in [nodes -> Nat]
    /\ out \subseteq nodes
    /\ queue \in Seq(nodes) /\ order \in Seq(nodes)
    /\ stack \subseteq Feature /\ want \subseteq Feature /\ needed \subseteq Registered
    /\ ctx \subseteq nodes /\ raised \subseteq nodes /\ errors \subseteq nodes

FeatureInit ==
    /\ deps \in Registries /\ computers \in ComputerSets
    /\ pc = "build" /\ stage = "registry"
    /\ nodes = Registered
    /\ indeg = [f \in nodes |-> 0]
    /\ out = {} /\ queue = <<>> /\ order = <<>>
    /\ stack = {} /\ want = {} /\ needed = {}
    /\ ctx = {} /\ raised = {} /\ errors = {}

Fail == pc' = "failed"

First(S, f) == f \in S /\ \A g \in S : f <= g

-------------------------------------------------------------------------------
(* validate_dag: the FeatureDAG constructor and topological_order. *)

\* A dependency that is not among the features of the graph is a ValueError.
BuildDag ==
    /\ pc = "build"
    /\ IF \A f \in nodes : deps[f] \subseteq nodes
       THEN /\ indeg' = [f \in nodes |-> Cardinality(deps[f])]
            /\ out' = {f \in nodes : deps[f] = {}}
            /\ pc' = "seed"
       ELSE Fail /\ UNCHANGED <<indeg, out>>
    /\ queue' = <<>> /\ order' = <<>>
    /\ UNCHANGED <<deps, computers, stage, nodes, expandVars, computeVars>>

\* deque(sorted(...)): one feature without dependencies.
Seed ==
    /\ pc = "seed"
    /\ IF out = {} THEN pc' = "pop" /\ UNCHANGED <<queue, out>>
       ELSE \E f \in out : /\ First(out, f)
                           /\ queue' = Append(queue, f)
                           /\ out' = out \ {f}
                           /\ UNCHANGED pc
    /\ UNCHANGED <<deps, computers, stage, nodes, indeg, order, expandVars, computeVars>>

Pop ==
    /\ pc = "pop"
    /\ queue # <<>>
    /\ order' = Append(order, Head(queue))
    /\ queue' = Tail(queue)
    /\ out' = {m \in nodes : Head(queue) \in deps[m]}
    /\ pc' = "visit"
    /\ UNCHANGED <<deps, computers, stage, nodes, indeg, expandVars, computeVars>>

\* Mutant: the dependent is queued one dependency early.
VisitEarly ==
    /\ pc = "visit"
    /\ IF out = {} THEN pc' = "pop" /\ UNCHANGED <<indeg, queue, out>>
       ELSE \E m \in out : /\ First(out, m)
                           /\ indeg' = [indeg EXCEPT ![m] = @ - 1]
                           /\ queue' = IF indeg'[m] <= 1 THEN Append(queue, m) ELSE queue
                           /\ out' = out \ {m}
                           /\ UNCHANGED pc
    /\ UNCHANGED <<deps, computers, stage, nodes, order, expandVars, computeVars>>

\* One dependent of the feature just popped.
Visit ==
    /\ pc = "visit"
    /\ IF out = {} THEN pc' = "pop" /\ UNCHANGED <<indeg, queue, out>>
       ELSE \E m \in out : /\ First(out, m)
                           /\ indeg' = [indeg EXCEPT ![m] = @ - 1]
                           /\ queue' = IF indeg'[m] = 0 THEN Append(queue, m) ELSE queue
                           /\ out' = out \ {m}
                           /\ UNCHANGED pc
    /\ UNCHANGED <<deps, computers, stage, nodes, order, expandVars, computeVars>>

\* Mutants: a cycle is not reported; the loop runs until every feature is in order.
OrderedUnchecked ==
    /\ pc = "pop"
    /\ queue = <<>>
    /\ pc' = IF stage = "registry" THEN "request" ELSE "check"
    /\ UNCHANGED <<deps, computers, dagVars, expandVars, computeVars>>

OrderedWhenFull ==
    /\ pc = "pop"
    /\ queue = <<>> /\ Len(order) = Cardinality(nodes)
    /\ pc' = IF stage = "registry" THEN "request" ELSE "check"
    /\ UNCHANGED <<deps, computers, dagVars, expandVars, computeVars>>

\* The queue is empty: a short order is a cycle.
Ordered ==
    /\ pc = "pop"
    /\ queue = <<>>
    /\ pc' = IF Len(order) # Cardinality(nodes) THEN "failed"
             ELSE IF stage = "registry" THEN "request" ELSE "check"
    /\ UNCHANGED <<deps, computers, dagVars, expandVars, computeVars>>

-------------------------------------------------------------------------------
(* expand_feature_ids. *)

\* The features asked for; by default all that are registered and have a computer.
Request ==
    /\ pc = "request"
    /\ \E w \in Wants \cup {computers \cap Registered} :
         /\ want' = w /\ stack' = w
         /\ pc' = IF w = {} THEN "failed" ELSE "expand"
    /\ needed' = {}
    /\ UNCHANGED <<deps, computers, dagVars, computeVars>>

\* Mutant: the dependencies of dependencies are forgotten.
ExpandDirect ==
    /\ pc = "expand"
    /\ \E f \in stack :
         IF f \notin Registered THEN Fail /\ UNCHANGED <<stack, needed>>
         ELSE /\ needed' = needed \cup {f}
              /\ stack' = (stack \ {f}) \cup (IF f \in want THEN deps[f] \ needed' ELSE {})
              /\ UNCHANGED pc
    /\ UNCHANGED <<deps, computers, dagVars, want, computeVars>>

\* The stack is a set: in which order it is popped does not show in needed.
Expand ==
    /\ pc = "expand"
    /\ \E f \in stack :
         IF f \notin Registered THEN Fail /\ UNCHANGED <<stack, needed>>
         ELSE /\ needed' = needed \cup {f}
              /\ stack' = (stack \ {f}) \cup (deps[f] \ needed')
              /\ UNCHANGED pc
    /\ UNCHANGED <<deps, computers, dagVars, want, computeVars>>

\* The features needed are ordered like the registry was.
Expanded ==
    /\ pc = "expand"
    /\ stack = {}
    /\ stage' = "run" /\ nodes' = needed
    /\ indeg' = [f \in needed |-> 0] /\ out' = {} /\ queue' = <<>> /\ order' = <<>>
    /\ pc' = "build"
    /\ UNCHANGED <<deps, computers, expandVars, computeVars>>

-------------------------------------------------------------------------------
(* The compute loop of run_feature_publish. *)

CheckComputers ==
    /\ pc = "check"
    /\ pc' = IF nodes \subseteq computers THEN "load" ELSE "failed"
    /\ UNCHANGED <<deps, computers, dagVars, expandVars, computeVars>>

\* The L1 inputs are there and can be read, or not.
LoadInputs ==
    /\ pc = "load"
    /\ pc' \in {"compute", "failed"}
    /\ UNCHANGED <<deps, computers, dagVars, expandVars, computeVars>>

Attempted == ctx \cup errors

\* order[k] is the next feature of the loop.
Due(k) ==
    /\ k \in DOMAIN order /\ order[k] \notin Attempted
    /\ \A j \in 1..(k - 1) : order[j] \in Attempted

\* Mutant: a frame is stored before the computer has returned.
ComputeStored ==
    /\ pc = "compute"
    /\ \E k \in DOMAIN order : LET f == order[k] IN
         /\ Due(k)
         /\ ctx' = ctx \cup {f}
         /\ \/ /\ Reads[f] \subseteq ctx
               /\ UNCHANGED <<raised, errors>>
            \/ /\ errors' = errors \cup {f}
               /\ raised' = IF Reads[f] \subseteq ctx THEN raised \cup {f} ELSE raised
    /\ UNCHANGED <<deps, computers, pc, dagVars, expandVars>>

\* compute_feature: a missing upstream frame, or bad values of its own, and the
\* feature is an error; the loop goes on.
Compute ==
    /\ pc = "compute"
    /\ \E k \in DOMAIN order : LET f == order[k] IN
         /\ Due(k)
         /\ \/ /\ Reads[f] \subseteq ctx
               /\ ctx' = ctx \cup {f}
               /\ UNCHANGED <<raised, errors>>
            \/ /\ errors' = errors \cup {f}
               /\ raised' = IF Reads[f] \subseteq ctx THEN raised \cup {f} ELSE raised
               /\ UNCHANGED ctx
    /\ UNCHANGED <<deps, computers, pc, dagVars, expandVars>>

\* Mutant: whatever could be computed is published.
ComputedIfAny ==
    /\ pc = "compute"
    /\ Items(order) \subseteq Attempted
    /\ pc' = IF ctx # {} THEN "computed" ELSE "failed"
    /\ UNCHANGED <<deps, computers, dagVars, expandVars, computeVars>>

\* Any error fails the run; otherwise the frames are merged and published.
Computed ==
    /\ pc = "compute"
    /\ Items(order) \subseteq Attempted
    /\ pc' = IF errors = {} THEN "computed" ELSE "failed"
    /\ UNCHANGED <<deps, computers, dagVars, expandVars, computeVars>>

FeatureNext ==
    \/ BuildDag \/ Seed \/ Pop \/ Visit \/ Ordered
    \/ Request \/ Expand \/ Expanded
    \/ CheckComputers \/ LoadInputs \/ Compute \/ Computed

FeatureSpec ==
    FeatureInit /\ [][FeatureNext]_runVars /\ WF_runVars(FeatureNext)

-------------------------------------------------------------------------------
(* Properties. *)

\* ADR 05 section 7, "Registry forms a DAG": in the order, whether finished or
\* not, every feature comes once and after all that it depends on.
OrderRespectsDependencies ==
    \A k \in DOMAIN order :
        /\ deps[order[k]] \subseteq {order[j] : j \in 1..(k - 1)}
        /\ \A j \in DOMAIN order : order[j] = order[k] => j = k

\* A set of features each of which depends on another one of the set.
Knot(S) == S # {} /\ \A f \in S : deps[f] \cap S # {}

\* ADR 05 section 7, "cycles forbidden", both ways: a graph that is ordered has no
\* cycle, and one given up with dependencies left has one.
CyclesAreRefused ==
    /\ pc \in {"request", "check", "compute"} => \A S \in SUBSET nodes : ~Knot(S)
    /\ (pc = "failed" /\ queue = <<>> /\ order # <<>> /\ Items(order) # nodes) =>
         Knot(nodes \ Items(order))

\* The run computes what was asked for and all that it depends on, however far
\* away, and nothing else.
ClosureIsLeast ==
    stage = "run" =>
        /\ want \subseteq nodes
        /\ \A f \in nodes : deps[f] \subseteq nodes
        /\ \A S \in SUBSET nodes :
             (want \subseteq S /\ \A f \in S : deps[f] \subseteq S) => S = nodes

\* Where the computers read no more than the registry declares, the errors of a run
\* are those that raised and whatever reads them, directly or not: a failure is never
\* lost on the way and never spreads to a feature that could have been computed.
ErrorsAreExplained ==
    (pc \in {"computed", "failed"} /\ Attempted # {}
        /\ \A f \in nodes : Reads[f] \subseteq deps[f]) =>
        /\ raised \subseteq errors
        /\ \A f \in nodes : f \in errors <=> f \in raised \/ Reads[f] \cap errors # {}

\* ADR 05, "missing dependency: fail closed for that feature set publish": a
\* published frame has every feature asked for, each computed from the frames its
\* computer reads, also when the registry does not declare them.
ComputedIsComplete ==
    pc = "computed" =>
        /\ want \subseteq ctx /\ ctx = nodes
        /\ \A k \in DOMAIN order : Reads[order[k]] \subseteq {order[j] : j \in 1..(k - 1)}

\* A run ends, also on a registry with a cycle.
RunEnds == <>(pc \in {"computed", "failed"})
===============================================================================
