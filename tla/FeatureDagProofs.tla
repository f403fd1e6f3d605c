--------------------------- MODULE FeatureDagProofs ---------------------------
(***************************************************************************)
(* Proofs about FeatureDag, for every set of features, registry, request   *)
(* and set of computers.                                                   *)
(*                                                                         *)
(* The order of the features is right because indeg counts, at every       *)
(* moment of topological_order, exactly the dependencies that are not in   *)
(* order yet (Counts), and because what waits in the queue is ready and    *)
(* cannot be met again by the loop over dependents (QueueReady).  A cycle  *)
(* is found because every ready feature is queued (ReadyIsQueued), and the *)
(* errors of a run have their causes because what was attempted is always  *)
(* a prefix of the order (Prefix).                                         *)
(***************************************************************************)
EXTENDS FeatureDag, FiniteSetTheorems, TLAPS

Injective(s) == \A j, k \in DOMAIN s : s[j] = s[k] => j = k

Sorting == pc \in {"seed", "pop", "visit"}

\* Items of the order whose dependents have been lowered: the last one is being
\* visited.
Counted(m) ==
    IF pc = "visit" /\ m \in out THEN Items(order) \ {order[Len(order)]}
    ELSE Items(order)

Counts ==
    Sorting => \A m \in nodes : /\ deps[m] \subseteq nodes
                                /\ indeg[m] = Cardinality(deps[m] \ Counted(m))

QueueReady ==
    Sorting =>
        /\ Injective(queue)
        /\ Items(queue) \cap Items(order) = {}
        /\ \A m \in Items(queue) : deps[m] \subseteq Items(order)
        /\ out \cap (Items(queue) \cup Items(order)) = {}

Stages ==
    /\ pc = "seed" => order = <<>> /\ \A m \in out : deps[m] = {}
    /\ pc = "visit" => /\ order # <<>>
                       /\ \A m \in out : order[Len(order)] \in deps[m]
    /\ pc \notin {"compute", "computed", "failed"} =>
         ctx = {} /\ raised = {} /\ errors = {}

OrderInv ==
    /\ FeatureTypeOK
    /\ OrderRespectsDependencies
    /\ Counts
    /\ QueueReady
    /\ Stages

-------------------------------------------------------------------------------
(* Sequences without repetitions and their items. *)

LEMMA ItemsAppend ==
    ASSUME NEW S, NEW s \in Seq(S), NEW x \in S
    PROVE  /\ Append(s, x) \in Seq(S)
           /\ Items(Append(s, x)) = Items(s) \cup {x}
           /\ Injective(s) /\ x \notin Items(s) => Injective(Append(s, x))
BY DEF Items, Injective

LEMMA ItemsTail ==
    ASSUME NEW S, NEW s \in Seq(S), s # <<>>, Injective(s)
    PROVE  /\ Head(s) \in Items(s) /\ Head(s) \in S
           /\ Tail(s) \in Seq(S)
           /\ Injective(Tail(s))
           /\ Items(Tail(s)) = Items(s) \ {Head(s)}
<1>1. Head(s) = s[1] /\ Len(s) \in Nat \ {0} /\ DOMAIN s = 1..Len(s)
  OBVIOUS
<1>2. DOMAIN Tail(s) = 1..(Len(s) - 1) /\ Tail(s) \in Seq(S)
  OBVIOUS
<1>3. \A k \in 1..(Len(s) - 1) : Tail(s)[k] = s[k + 1]
  OBVIOUS
<1>4. Injective(Tail(s))
  BY <1>1, <1>2, <1>3 DEF Injective
<1>5. Items(Tail(s)) \subseteq Items(s) \ {Head(s)}
  BY <1>1, <1>2, <1>3 DEF Items, Injective
<1>6. ASSUME NEW k \in DOMAIN s, s[k] # Head(s)
      PROVE  s[k] \in Items(Tail(s))
  <2>1. k - 1 \in 1..(Len(s) - 1) /\ Tail(s)[k - 1] = s[k]
    BY <1>1, <1>3, <1>6
  <2> QED  BY <2>1, <1>2 DEF Items
<1>7. Items(s) \ {Head(s)} \subseteq Items(Tail(s))
  BY <1>6 DEF Items
<1>8. Head(s) \in S /\ Head(s) \in Items(s)
  BY <1>1 DEF Items
<1> QED  BY <1>2, <1>4, <1>5, <1>7, <1>8

\* Appending to the order what depends on nothing outside it keeps it an order.
LEMMA OrderAppend ==
    ASSUME FeatureTypeOK, OrderRespectsDependencies,
           NEW n \in nodes, n \notin Items(order), deps[n] \subseteq Items(order),
           order' = Append(order, n), deps' = deps
    PROVE  OrderRespectsDependencies'
<1>1. order \in Seq(nodes)
  BY DEF FeatureTypeOK
<1>2. Len(order) \in Nat /\ DOMAIN order = 1..Len(order)
  BY <1>1
<1>3. DOMAIN order' = 1..(Len(order) + 1) /\ order'[Len(order) + 1] = n
  BY <1>1, <1>2
<1>4. \A k \in 1..Len(order) : order'[k] = order[k]
  BY <1>1, <1>2
<1>5. ASSUME NEW k \in DOMAIN order'
      PROVE  deps[order'[k]] \subseteq {order'[j] : j \in 1..(k - 1)}
  <2>1. CASE k = Len(order) + 1
    <3>1. {order'[j] : j \in 1..(k - 1)} = Items(order)
      BY <2>1, <1>2, <1>4 DEF Items
    <3> QED  BY <3>1, <2>1, <1>3
  <2>2. CASE k \in 1..Len(order)
    <3>1. {order'[j] : j \in 1..(k - 1)} = {order[j] : j \in 1..(k - 1)}
      BY <2>2, <1>2, <1>4
    <3> QED  BY <3>1, <2>2, <1>2, <1>4 DEF OrderRespectsDependencies
  <2>3. k = Len(order) + 1 \/ k \in 1..Len(order)
    BY <1>2, <1>3
  <2> QED  BY <2>1, <2>2, <2>3
<1>6. ASSUME NEW k \in DOMAIN order', NEW j \in DOMAIN order', order'[j] = order'[k]
      PROVE  j = k
  <2>1. \A i \in 1..Len(order) : order[i] # n
    BY <1>2 DEF Items
  <2> QED  BY <2>1, <1>2, <1>3, <1>4, <1>6 DEF OrderRespectsDependencies
<1> QED  BY <1>5, <1>6 DEF OrderRespectsDependencies

LEMMA RegistryTypes ==
    ASSUME FeatureTypeOK
    PROVE  /\ Registered \subseteq Feature
           /\ \A f \in Registered : deps[f] \subseteq Feature
           /\ IsFiniteSet(nodes)
           /\ \A f \in Registered : IsFiniteSet(deps[f])
<1>1. /\ DOMAIN deps \subseteq Feature
      /\ deps \in [DOMAIN deps -> SUBSET Feature]
  BY FeatureDagAssumption DEF FeatureTypeOK
<1>2. nodes \subseteq Feature
  BY <1>1 DEF FeatureTypeOK, Registered
<1> QED  BY <1>1, <1>2, FeatureDagAssumption, FS_Subset DEF Registered

-------------------------------------------------------------------------------
(* OrderInv is inductive: one lemma per step of topological_order, one for the  *)
(* steps that leave the order alone.                                            *)

LEMMA OrderInvInit == FeatureInit => OrderInv
<1> SUFFICES ASSUME FeatureInit PROVE OrderInv
  OBVIOUS
<1>1. order = <<>> /\ queue = <<>> /\ DOMAIN order = {} /\ DOMAIN queue = {}
  BY DEF FeatureInit
<1>2. FeatureTypeOK
  BY <1>1 DEF FeatureInit, FeatureTypeOK
<1> QED
  BY <1>1, <1>2 DEF FeatureInit, OrderInv, OrderRespectsDependencies, Counts, QueueReady,
     Stages, Sorting

LEMMA BuildDagKeepsOrderInv ==
    ASSUME OrderInv, BuildDag
    PROVE  OrderInv'
<1>1. order' = <<>> /\ queue' = <<>> /\ deps' = deps /\ nodes' = nodes
  BY DEF BuildDag, dagVars
<1>2. DOMAIN order' = {} /\ DOMAIN queue' = {} /\ Items(order') = {} /\ Items(queue') = {}
  BY <1>1 DEF Items
<1>3. OrderRespectsDependencies' /\ Injective(queue')
  BY <1>2 DEF OrderRespectsDependencies, Injective
<1>4. CASE pc' = "seed"
  <2>1. /\ \A f \in nodes : deps[f] \subseteq nodes
        /\ indeg' = [f \in nodes |-> Cardinality(deps[f])]
        /\ out' = {f \in nodes : deps[f] = {}}
    BY <1>4 DEF BuildDag, Fail
  <2>2. \A f \in nodes : Cardinality(deps[f]) \in Nat
    BY RegistryTypes, FS_CardinalityType DEF OrderInv, FeatureTypeOK
  <2>3. FeatureTypeOK'
    BY <1>1, <1>4, <2>1, <2>2
    DEF OrderInv, FeatureTypeOK, BuildDag, expandVars, computeVars, Registered
  <2>4. \A m \in nodes : deps[m] \ Counted(m)' = deps[m]
    BY <1>2, <1>4 DEF Counted
  <2>5. Counts'
    BY <1>1, <2>1, <2>4 DEF Counts
  <2>6. QueueReady'
    BY <1>2, <1>3 DEF QueueReady
  <2>7. Stages'
    BY <1>1, <1>4, <2>1 DEF Stages, OrderInv, BuildDag, computeVars
  <2> QED  BY <1>3, <2>3, <2>5, <2>6, <2>7 DEF OrderInv
<1>5. CASE pc' = "failed"
  <2>1. indeg' = indeg /\ out' = out
    BY <1>5 DEF BuildDag
  <2>2. FeatureTypeOK'
    BY <1>1, <1>5, <2>1
    DEF OrderInv, FeatureTypeOK, BuildDag, expandVars, computeVars, Registered
  <2> QED
    BY <1>3, <1>5, <2>2 DEF OrderInv, Counts, QueueReady, Stages, Sorting
<1> QED  BY <1>4, <1>5 DEF BuildDag, Fail

LEMMA SeedKeepsOrderInv ==
    ASSUME OrderInv, Seed
    PROVE  OrderInv'
<1>1. /\ order' = order /\ deps' = deps /\ nodes' = nodes /\ indeg' = indeg
      /\ ctx' = ctx /\ raised' = raised /\ errors' = errors
      /\ pc = "seed" /\ order = <<>> /\ Items(order) = {}
  BY DEF Seed, OrderInv, Stages, computeVars, Items
<1>2. OrderRespectsDependencies'
  BY <1>1 DEF OrderRespectsDependencies, OrderInv
<1>3. CASE out = {}
  <2>1. pc' = "pop" /\ queue' = queue /\ out' = out
    BY <1>3 DEF Seed
  <2>2. FeatureTypeOK'
    BY <1>1, <2>1 DEF OrderInv, FeatureTypeOK, Seed, expandVars, computeVars, Registered
  <2>3. \A m \in nodes : Counted(m)' = Counted(m)
    BY <1>1, <2>1 DEF Counted
  <2>4. Counts'
    BY <1>1, <2>1, <2>3 DEF OrderInv, Counts, Sorting
  <2>5. QueueReady' /\ Stages'
    BY <1>1, <2>1 DEF OrderInv, QueueReady, Stages, Sorting
  <2> QED  BY <1>2, <2>2, <2>4, <2>5 DEF OrderInv
<1>4. CASE out # {}
  <2>1. PICK f \in out : queue' = Append(queue, f) /\ out' = out \ {f} /\ pc' = pc
    BY <1>4 DEF Seed, First
  <2>2. f \in nodes /\ queue \in Seq(nodes) /\ f \notin Items(queue) /\ Injective(queue)
        /\ deps[f] = {}
    BY <1>1 DEF OrderInv, FeatureTypeOK, QueueReady, Sorting, Stages
  <2>3. /\ queue' \in Seq(nodes) /\ Injective(queue')
        /\ Items(queue') = Items(queue) \cup {f}
    BY <2>1, <2>2, ItemsAppend
  <2>4. FeatureTypeOK'
    BY <1>1, <2>1, <2>3 DEF OrderInv, FeatureTypeOK, Seed, expandVars, computeVars, Registered
  <2>5. \A m \in nodes : Counted(m)' = Counted(m)
    BY <1>1, <2>1 DEF Counted
  <2>6. Counts'
    BY <1>1, <2>1, <2>5 DEF OrderInv, Counts, Sorting
  <2>7. QueueReady'
    BY <1>1, <2>1, <2>2, <2>3 DEF OrderInv, QueueReady, Sorting
  <2>8. Stages'
    BY <1>1, <2>1 DEF OrderInv, Stages
  <2> QED  BY <1>2, <2>4, <2>6, <2>7, <2>8 DEF OrderInv
<1> QED  BY <1>3, <1>4

LEMMA PopKeepsOrderInv ==
    ASSUME OrderInv, Pop
    PROVE  OrderInv'
<1> DEFINE n == Head(queue)
<1>1. /\ pc = "pop" /\ pc' = "visit" /\ queue # <<>>
      /\ order' = Append(order, n) /\ queue' = Tail(queue)
      /\ out' = {m \in nodes : n \in deps[m]}
      /\ deps' = deps /\ nodes' = nodes /\ indeg' = indeg
      /\ ctx' = ctx /\ raised' = raised /\ errors' = errors
  BY DEF Pop, computeVars
<1>2. /\ order \in Seq(nodes) /\ queue \in Seq(nodes)
      /\ Injective(queue) /\ Injective(order)
  BY <1>1 DEF OrderInv, FeatureTypeOK, QueueReady, Sorting, Injective,
     OrderRespectsDependencies
<1>3. /\ n \in Items(queue) /\ n \in nodes
      /\ queue' \in Seq(nodes) /\ Injective(queue')
      /\ Items(queue') = Items(queue) \ {n}
  BY <1>1, <1>2, ItemsTail
<1>4. n \notin Items(order) /\ deps[n] \subseteq Items(order)
  BY <1>1, <1>3 DEF OrderInv, QueueReady, Sorting
<1>5. order' \in Seq(nodes) /\ Items(order') = Items(order) \cup {n}
  BY <1>1, <1>2, <1>3, ItemsAppend
<1>6. order'[Len(order')] = n /\ order' # <<>>
  BY <1>1, <1>2, <1>3
<1> HIDE DEF n
<1>7. FeatureTypeOK'
  BY <1>1, <1>3, <1>5 DEF OrderInv, FeatureTypeOK, Pop, expandVars, computeVars, Registered
<1>8. OrderRespectsDependencies'
  BY <1>1, <1>3, <1>4, OrderAppend DEF OrderInv
<1>9. ASSUME NEW m \in nodes
      PROVE  deps[m] \ Counted(m)' = deps[m] \ Counted(m)
  <2>1. CASE n \in deps[m]
    BY <2>1, <1>1, <1>4, <1>5, <1>6 DEF Counted
  <2>2. CASE n \notin deps[m]
    BY <2>2, <1>1, <1>5 DEF Counted
  <2> QED  BY <2>1, <2>2
<1>10. Counts'
  BY <1>1, <1>9 DEF OrderInv, Counts, Sorting
<1>11. ASSUME NEW m \in Items(queue) \cup Items(order)
       PROVE  deps[m] \subseteq Items(order) /\ m \in nodes
  <2>1. CASE m \in Items(queue)
    BY <2>1, <1>1, <1>2 DEF OrderInv, QueueReady, Sorting, Items
  <2>2. CASE m \in Items(order)
    <3>1. PICK k \in DOMAIN order : m = order[k]
      BY <2>2 DEF Items
    <3>2. deps[m] \subseteq {order[j] : j \in 1..(k - 1)} /\ k \in 1..Len(order)
      BY <3>1, <1>2 DEF OrderInv, OrderRespectsDependencies
    <3>3. 1..(k - 1) \subseteq DOMAIN order
      BY <3>2, <1>2
    <3> QED  BY <3>1, <3>2, <3>3, <1>2 DEF Items
  <2> QED  BY <2>1, <2>2
<1>12. QueueReady'
  <2>1. Items(queue') \cap Items(order') = {}
    BY <1>1, <1>3, <1>5 DEF OrderInv, QueueReady, Sorting
  <2>2. \A m \in Items(queue') : deps[m] \subseteq Items(order')
    BY <1>3, <1>5, <1>11
  <2>3. out' \cap (Items(queue') \cup Items(order')) = {}
    BY <1>1, <1>3, <1>4, <1>5, <1>11
  <2> QED  BY <1>1, <1>3, <2>1, <2>2, <2>3 DEF QueueReady
<1>13. Stages'
  BY <1>1, <1>6 DEF OrderInv, Stages
<1> QED  BY <1>7, <1>8, <1>10, <1>12, <1>13 DEF OrderInv

LEMMA VisitKeepsOrderInv ==
    ASSUME OrderInv, Visit
    PROVE  OrderInv'
<1>1. /\ pc = "visit" /\ order' = order /\ deps' = deps /\ nodes' = nodes
      /\ ctx' = ctx /\ raised' = raised /\ errors' = errors
  BY DEF Visit, computeVars
<1>2. OrderRespectsDependencies'
  BY <1>1 DEF OrderRespectsDependencies, OrderInv
<1>3. CASE out = {}
  <2>1. pc' = "pop" /\ queue' = queue /\ out' = out /\ indeg' = indeg
    BY <1>3 DEF Visit
  <2>2. FeatureTypeOK'
    BY <1>1, <2>1 DEF OrderInv, FeatureTypeOK, Visit, expandVars, computeVars, Registered
  <2>3. \A m \in nodes : Counted(m)' = Counted(m)
    BY <1>1, <1>3, <2>1 DEF Counted
  <2>4. Counts'
    BY <1>1, <2>1, <2>3 DEF OrderInv, Counts, Sorting
  <2>5. QueueReady' /\ Stages'
    BY <1>1, <2>1 DEF OrderInv, QueueReady, Stages, Sorting
  <2> QED  BY <1>2, <2>2, <2>4, <2>5 DEF OrderInv
<1>4. CASE out # {}
  <2>1. PICK m \in out :
          /\ indeg' = [indeg EXCEPT ![m] = @ - 1]
          /\ queue' = IF indeg'[m] = 0 THEN Append(queue, m) ELSE queue
          /\ out' = out \ {m}
          /\ pc' = pc
    BY <1>4 DEF Visit, First
  <2> DEFINE n == order[Len(order)]
  <2>2. /\ m \in nodes /\ n \in deps[m] /\ n \in Items(order)
        /\ deps[m] \subseteq nodes /\ IsFiniteSet(deps[m])
    <3>1. order \in Seq(nodes) /\ order # <<>> /\ m \in nodes
      BY <1>1 DEF OrderInv, Stages, FeatureTypeOK
    <3>2. Len(order) \in DOMAIN order
      BY <3>1
    <3> QED
      BY <1>1, <3>1, <3>2, RegistryTypes
      DEF OrderInv, Stages, FeatureTypeOK, Counts, Sorting, Items
  <2> HIDE DEF n
  <2>3. Counted(m) = Items(order) \ {n} /\ Counted(m)' = Items(order)
    BY <1>1, <2>1 DEF Counted, n
  <2>4. \A x \in nodes \ {m} : Counted(x)' = Counted(x)
    BY <1>1, <2>1 DEF Counted
  <2>5. indeg'[m] = Cardinality(deps[m] \ Items(order)) /\ indeg'[m] \in Nat
    <3>1. IsFiniteSet(deps[m] \ Counted(m)) /\ n \in deps[m] \ Counted(m)
      BY <2>2, <2>3, FS_Difference
    <3>2. (deps[m] \ Counted(m)) \ {n} = deps[m] \ Items(order)
      BY <2>2, <2>3
    <3>3. Cardinality(deps[m] \ Items(order)) = Cardinality(deps[m] \ Counted(m)) - 1
      <4> DEFINE W == deps[m] \ Counted(m)
      <4>1. Cardinality(W \ {n}) = Cardinality(W) - 1
        <5> HIDE DEF W
        <5> QED  BY <3>1, FS_RemoveElement DEF W
      <4> QED  BY <3>2, <4>1
    <3>4. indeg[m] = Cardinality(deps[m] \ Counted(m))
      BY <1>1, <2>2 DEF OrderInv, Counts, Sorting
    <3>5. Cardinality(deps[m] \ Items(order)) \in Nat
      BY <2>2, FS_Difference, FS_CardinalityType
    <3>6. indeg'[m] = indeg[m] - 1
      BY <2>1, <2>2 DEF OrderInv, FeatureTypeOK
    <3> QED  BY <3>3, <3>4, <3>5, <3>6
  <2>6. indeg' \in [nodes -> Nat] /\ \A x \in nodes \ {m} : indeg'[x] = indeg[x]
    BY <2>1, <2>2, <2>5 DEF OrderInv, FeatureTypeOK
  <2>7. Counts'
    BY <1>1, <2>1, <2>3, <2>4, <2>5, <2>6 DEF OrderInv, Counts, Sorting
  <2>8. /\ queue \in Seq(nodes) /\ Injective(queue)
        /\ m \notin Items(queue) /\ m \notin Items(order)
        /\ Items(queue) \cap Items(order) = {}
        /\ \A x \in Items(queue) : deps[x] \subseteq Items(order)
        /\ out \cap (Items(queue) \cup Items(order)) = {}
    BY <1>1, <2>1 DEF OrderInv, FeatureTypeOK, QueueReady, Sorting
  <2>9. ASSUME indeg'[m] = 0
        PROVE  queue' \in Seq(nodes) /\ QueueReady'
    <3>1. deps[m] \subseteq Items(order)
      BY <2>2, <2>5, <2>9, FS_Difference, FS_EmptySet
    <3>2. queue' = Append(queue, m)
      BY <2>1, <2>9
    <3>3. /\ queue' \in Seq(nodes) /\ Injective(queue')
          /\ Items(queue') = Items(queue) \cup {m}
      BY <2>2, <2>8, <3>2, ItemsAppend
    <3>4. QueueReady'
      BY <1>1, <2>1, <2>8, <3>1, <3>3 DEF QueueReady
    <3> QED  BY <3>3, <3>4
  <2>10. ASSUME indeg'[m] # 0
         PROVE  queue' \in Seq(nodes) /\ QueueReady'
    <3>1. queue' = queue
      BY <2>1, <2>10
    <3>2. QueueReady'
      BY <1>1, <2>1, <2>8, <3>1 DEF QueueReady
    <3> QED  BY <2>8, <3>1, <3>2
  <2>11. queue' \in Seq(nodes) /\ QueueReady'
    BY <2>9, <2>10
  <2>12. FeatureTypeOK'
    BY <1>1, <2>1, <2>6, <2>11
    DEF OrderInv, FeatureTypeOK, Visit, expandVars, computeVars, Registered
  <2>13. Stages'
    BY <1>1, <2>1 DEF OrderInv, Stages
  <2> QED  BY <1>2, <2>7, <2>11, <2>12, <2>13 DEF OrderInv
<1> QED  BY <1>3, <1>4

\* What comes after the sort leaves the order alone, or begins a new one.
LEMMA RestKeepsOrderInv ==
    ASSUME OrderInv,
           \/ Ordered \/ Request \/ Expand \/ Expanded
           \/ CheckComputers \/ LoadInputs \/ Compute \/ Computed
    PROVE  OrderInv'
<1>1. deps' = deps /\ computers' = computers
  BY DEF Ordered, Request, Expand, Expanded, CheckComputers, LoadInputs, Compute, Computed
<1>2. deps \in [Registered -> SUBSET Feature] /\ Registered \subseteq Feature
  BY FeatureDagAssumption DEF OrderInv, FeatureTypeOK, Registered
<1>3. CASE Ordered
  <2>1. pc' \in {"failed", "request", "check"} /\ UNCHANGED <<dagVars, expandVars, computeVars>>
    BY <1>3 DEF Ordered
  <2> QED
    BY <1>1, <1>3, <2>1
    DEF OrderInv, FeatureTypeOK, OrderRespectsDependencies, Counts, QueueReady, Stages,
        Sorting, dagVars, expandVars, computeVars, Registered, Ordered
<1>4. CASE Request
  <2>1. /\ pc = "request" /\ pc' \in {"failed", "expand"}
        /\ UNCHANGED <<dagVars, computeVars>>
        /\ needed' = {} /\ stack' = want' /\ want' \subseteq Feature
    BY <1>2, <1>4, FeatureDagAssumption DEF Request
  <2> QED
    BY <1>1, <2>1
    DEF OrderInv, FeatureTypeOK, OrderRespectsDependencies, Counts, QueueReady, Stages,
        Sorting, dagVars, computeVars, Registered
<1>5. CASE Expand
  <2>1. /\ pc = "expand" /\ pc' \in {"failed", "expand"}
        /\ UNCHANGED <<dagVars, want, computeVars>>
    BY <1>5 DEF Expand, Fail
  <2>2. stack' \subseteq Feature /\ needed' \subseteq Registered
    BY <1>2, <1>5 DEF Expand, OrderInv, FeatureTypeOK
  <2>3. FeatureTypeOK'
    BY <1>1, <2>1, <2>2
    DEF OrderInv, FeatureTypeOK, dagVars, computeVars, Registered
  <2>4. OrderRespectsDependencies' /\ Counts' /\ QueueReady' /\ Stages'
    BY <1>1, <2>1
    DEF OrderInv, OrderRespectsDependencies, Counts, QueueReady, Stages, Sorting,
        dagVars, computeVars
  <2> QED  BY <2>3, <2>4 DEF OrderInv
<1>6. CASE Expanded
  <2>1. /\ pc = "expand" /\ pc' = "build" /\ UNCHANGED <<expandVars, computeVars>>
        /\ stage' = "run" /\ nodes' = needed
        /\ indeg' = [f \in needed |-> 0] /\ out' = {} /\ queue' = <<>> /\ order' = <<>>
    BY <1>6 DEF Expanded
  <2>2. ctx' = {} /\ raised' = {} /\ errors' = {}
    BY <2>1 DEF OrderInv, Stages, computeVars
  <2>3. FeatureTypeOK'
    BY <1>1, <2>1, <2>2 DEF OrderInv, FeatureTypeOK, expandVars, Registered
  <2>4. OrderRespectsDependencies' /\ Counts' /\ QueueReady' /\ Stages'
    BY <2>1, <2>2 DEF OrderRespectsDependencies, Counts, QueueReady, Stages, Sorting
  <2> QED  BY <2>3, <2>4 DEF OrderInv
<1>7. CASE CheckComputers \/ LoadInputs \/ Computed
  <2>1. /\ pc \in {"check", "load", "compute"}
        /\ pc' \in {"load", "compute", "failed", "computed"}
        /\ pc' = "load" => pc = "check"
        /\ UNCHANGED <<dagVars, expandVars, computeVars>>
    BY <1>7 DEF CheckComputers, LoadInputs, Computed
  <2> QED
    BY <1>1, <2>1
    DEF OrderInv, FeatureTypeOK, OrderRespectsDependencies, Counts, QueueReady, Stages,
        Sorting, dagVars, expandVars, computeVars, Registered
<1>8. CASE Compute
  <2>1. pc = "compute" /\ pc' = pc /\ UNCHANGED <<dagVars, expandVars>>
    BY <1>8 DEF Compute
  <2>2. PICK k \in DOMAIN order :
          /\ ctx' \subseteq ctx \cup {order[k]} /\ raised' \subseteq raised \cup {order[k]}
          /\ errors' \subseteq errors \cup {order[k]}
    BY <1>8 DEF Compute
  <2>3. order[k] \in nodes
    BY DEF OrderInv, FeatureTypeOK
  <2> QED
    BY <1>1, <2>1, <2>2, <2>3
    DEF OrderInv, FeatureTypeOK, OrderRespectsDependencies, Counts, QueueReady, Stages,
        Sorting, dagVars, expandVars, Registered
<1> QED  BY <1>3, <1>4, <1>5, <1>6, <1>7, <1>8

THEOREM OrderInvariant == FeatureSpec => []OrderInv
<1>1. FeatureInit => OrderInv
  BY OrderInvInit
<1>2. OrderInv /\ [FeatureNext]_runVars => OrderInv'
  <2> SUFFICES ASSUME OrderInv, [FeatureNext]_runVars PROVE OrderInv'
    OBVIOUS
  <2>1. CASE FeatureNext
    BY <2>1, BuildDagKeepsOrderInv, SeedKeepsOrderInv, PopKeepsOrderInv,
       VisitKeepsOrderInv, RestKeepsOrderInv DEF FeatureNext
  <2>2. CASE UNCHANGED runVars
    <3>1. UNCHANGED <<deps, computers, pc, stage, nodes, indeg, out, queue, order, stack,
                      want, needed, ctx, raised, errors>>
      BY <2>2 DEF runVars, dagVars, expandVars, computeVars
    <3>2. FeatureTypeOK' /\ OrderRespectsDependencies' /\ Stages'
      BY <3>1 DEF OrderInv, FeatureTypeOK, OrderRespectsDependencies, Stages, Registered
    <3>3. QueueReady'
      BY <3>1 DEF OrderInv, QueueReady, Sorting
    <3>4. \A m \in nodes : Counted(m)' = Counted(m)
      BY <3>1 DEF Counted
    <3>5. Counts'
      BY <3>1, <3>4 DEF OrderInv, Counts, Sorting
    <3> QED  BY <3>2, <3>3, <3>5 DEF OrderInv
  <2> QED  BY <2>1, <2>2
<1> QED  BY <1>1, <1>2, PTL DEF FeatureSpec

\* Every variable of a feature run keeps its type: in particular no count of
\* dependencies is ever lowered below zero (topological_order).
THEOREM TypeCorrect == FeatureSpec => []FeatureTypeOK
<1>1. OrderInv => FeatureTypeOK
  BY DEF OrderInv
<1> QED  BY <1>1, OrderInvariant, PTL

\* Whatever the registry, with cycles or without, every feature in the order
\* comes once and after everything it depends on (topological_order).
THEOREM DependenciesFirst == FeatureSpec => []OrderRespectsDependencies
<1>1. OrderInv => OrderRespectsDependencies
  BY DEF OrderInv
<1> QED  BY <1>1, OrderInvariant, PTL

-------------------------------------------------------------------------------
(* The closure of a request: needed grows inside every closed set that holds   *)
(* the request, and what is missing for needed to be closed is on the stack.   *)

Closing ==
    /\ want \subseteq needed \cup stack
    /\ \A f \in needed : deps[f] \subseteq needed \cup stack
    /\ \A S \in SUBSET Registered :
         (want \subseteq S /\ \A f \in S : deps[f] \subseteq S) => needed \cup stack \subseteq S

ClosureInv ==
    /\ pc \in {"request", "expand"} => stage = "registry"
    /\ pc = "expand" => Closing
    /\ ClosureIsLeast

LEMMA ExpandKeepsClosing ==
    ASSUME FeatureTypeOK, Closing, Expand, pc' = "expand"
    PROVE  Closing'
<1>1. PICK f \in stack : /\ f \in Registered
                         /\ needed' = needed \cup {f}
                         /\ stack' = (stack \ {f}) \cup (deps[f] \ needed')
  BY DEF Expand, Fail
<1>2. deps' = deps /\ want' = want /\ Registered' = Registered
  BY DEF Expand, Registered
<1>3. needed' \cup stack' = needed \cup stack \cup deps[f]
  BY <1>1
<1>4. want' \subseteq needed' \cup stack'
  BY <1>2, <1>3 DEF Closing
<1>5. \A g \in needed' : deps'[g] \subseteq needed' \cup stack'
  BY <1>1, <1>2, <1>3 DEF Closing
<1>6. ASSUME NEW S \in SUBSET Registered, want \subseteq S, \A g \in S : deps[g] \subseteq S
      PROVE  needed' \cup stack' \subseteq S
  <2>1. needed \cup stack \subseteq S
    BY <1>6 DEF Closing
  <2> QED  BY <2>1, <1>1, <1>3, <1>6
<1> QED  BY <1>2, <1>4, <1>5, <1>6 DEF Closing

LEMMA ClosureInvStep ==
    ASSUME FeatureTypeOK, ClosureInv, FeatureNext
    PROVE  ClosureInv'
<1>1. deps' = deps /\ Registered' = Registered
  BY DEF FeatureNext, BuildDag, Seed, Pop, Visit, Ordered, Request, Expand, Expanded,
     CheckComputers, LoadInputs, Compute, Computed, Registered
<1>2. CASE BuildDag \/ Seed \/ Pop \/ Visit \/ CheckComputers \/ LoadInputs \/ Compute \/ Computed
  <2>1. /\ pc' \notin {"request", "expand"}
        /\ UNCHANGED <<stage, nodes, want>>
    BY <1>2 DEF BuildDag, Seed, Pop, Visit, CheckComputers, LoadInputs, Compute, Computed,
       Fail, dagVars, expandVars
  <2> QED  BY <1>1, <2>1 DEF ClosureInv, ClosureIsLeast
<1>3. CASE Ordered
  <2>1. /\ pc' # "expand"
        /\ pc' = "request" => stage = "registry"
        /\ UNCHANGED <<stage, nodes, want>>
    BY <1>3 DEF Ordered, dagVars, expandVars
  <2> QED  BY <1>1, <2>1 DEF ClosureInv, ClosureIsLeast
<1>4. CASE Request
  <2>1. /\ stage = "registry" /\ stage' = stage
        /\ needed' = {} /\ stack' = want' /\ pc' # "request"
    BY <1>4 DEF Request, ClosureInv, dagVars
  <2>2. Closing'
    BY <2>1 DEF Closing
  <2> QED  BY <2>1, <2>2 DEF ClosureInv, ClosureIsLeast
<1>5. CASE Expand
  <2>1. pc = "expand" /\ pc' \in {"expand", "failed"} /\ stage' = stage /\ stage = "registry"
    BY <1>5 DEF Expand, Fail, dagVars, ClosureInv
  <2>2. pc' = "expand" => Closing'
    BY <1>5, <2>1, ExpandKeepsClosing DEF ClosureInv
  <2> QED  BY <2>1, <2>2 DEF ClosureInv, ClosureIsLeast
<1>6. CASE Expanded
  <2>1. /\ Closing /\ stack = {} /\ nodes' = needed /\ want' = want /\ pc' = "build"
    BY <1>6 DEF Expanded, ClosureInv, expandVars
  <2>2. needed \subseteq Registered
    BY DEF FeatureTypeOK
  <2>3. /\ want \subseteq needed
        /\ \A f \in needed : deps[f] \subseteq needed
    BY <2>1 DEF Closing
  <2>4. ASSUME NEW S \in SUBSET needed, want \subseteq S, \A f \in S : deps[f] \subseteq S
        PROVE  S = needed
    BY <2>1, <2>2, <2>4 DEF Closing
  <2>5. ClosureIsLeast'
    BY <1>1, <2>1, <2>3, <2>4 DEF ClosureIsLeast
  <2> QED  BY <2>1, <2>5 DEF ClosureInv
<1> QED  BY <1>2, <1>3, <1>4, <1>5, <1>6 DEF FeatureNext

LEMMA ClosureInvHolds == FeatureSpec => []ClosureInv
<1>1. FeatureInit => ClosureInv
  BY DEF FeatureInit, ClosureInv, ClosureIsLeast
<1>2. FeatureTypeOK /\ ClosureInv /\ [FeatureNext]_runVars => ClosureInv'
  <2> SUFFICES ASSUME FeatureTypeOK, ClosureInv, [FeatureNext]_runVars PROVE ClosureInv'
    OBVIOUS
  <2>1. CASE FeatureNext
    BY <2>1, ClosureInvStep
  <2>2. CASE UNCHANGED runVars
    BY <2>2 DEF runVars, dagVars, expandVars, computeVars, ClosureInv, ClosureIsLeast,
       Closing, Registered
  <2> QED  BY <2>1, <2>2
<1> QED  BY <1>1, <1>2, TypeCorrect, PTL DEF FeatureSpec

\* For every registry and request, the run computes the least set of features
\* that holds the request and is closed under dependencies (expand_feature_ids).
THEOREM LeastClosure == FeatureSpec => []ClosureIsLeast
<1>1. ClosureInv => ClosureIsLeast
  BY DEF ClosureInv
<1> QED  BY <1>1, ClosureInvHolds, PTL

-------------------------------------------------------------------------------
(* Cycles: what is in order holds no knot, and what is ready is in the queue or *)
(* in order, so what is left when the queue is empty depends on itself.         *)

NoKnotInOrder == \A S \in SUBSET Items(order) : ~Knot(S)

ReadyIsQueued ==
    Sorting =>
        \A m \in nodes : deps[m] \subseteq Counted(m) =>
            \/ m \in Items(queue) \cup Items(order)
            \/ pc = "seed" /\ m \in out

\* A graph past its ordering is in order; one given up is not begun, in order, or
\* has a knot.
Settled ==
    /\ pc \in {"request", "expand", "check", "load", "compute", "computed"} =>
         Items(order) = nodes
    /\ pc = "failed" =>
         order = <<>> \/ Items(order) = nodes \/ Knot(nodes \ Items(order))

CycleInv == NoKnotInOrder /\ ReadyIsQueued /\ Settled

\* What is in order depends on what is in order.
LEMMA OrderClosed ==
    ASSUME OrderInv
    PROVE  /\ Items(order) \subseteq nodes
           /\ \A m \in Items(order) : deps[m] \subseteq Items(order)
           /\ Injective(order)
<1>1. order \in Seq(nodes) /\ DOMAIN order = 1..Len(order) /\ Len(order) \in Nat
  BY DEF OrderInv, FeatureTypeOK
<1>2. ASSUME NEW k \in DOMAIN order
      PROVE  deps[order[k]] \subseteq Items(order) /\ order[k] \in nodes
  <2>1. deps[order[k]] \subseteq {order[j] : j \in 1..(k - 1)}
    BY DEF OrderInv, OrderRespectsDependencies
  <2>2. 1..(k - 1) \subseteq DOMAIN order
    BY <1>1
  <2> QED  BY <1>1, <2>1, <2>2 DEF Items
<1> QED  BY <1>2 DEF Items, Injective, OrderInv, OrderRespectsDependencies

\* An order as long as its set is large has every member of the set.
LEMMA FullOrder ==
    ASSUME NEW S, IsFiniteSet(S), NEW s \in Seq(S), Injective(s), Len(s) = Cardinality(S)
    PROVE  Items(s) = S
<1>1. /\ s \in [1..Len(s) -> S] /\ Len(s) \in Nat
  OBVIOUS
<1>2. s \in Injection(1..Len(s), S)
  BY <1>1 DEF Injection, IsInjective, Injective
<1>3. IsFiniteSet(1..Len(s)) /\ Cardinality(1..Len(s)) = Len(s)
  BY <1>1, FS_Interval
<1>4. s \in Surjection(1..Len(s), S)
  BY <1>2, <1>3, FS_Injection
<1> QED  BY <1>1, <1>4 DEF Surjection, Items

LEMMA FullOrderConverse ==
    ASSUME OrderInv, Len(order) = Cardinality(nodes)
    PROVE  Items(order) = nodes
<1>1. order \in Seq(nodes) /\ IsFiniteSet(nodes) /\ Injective(order)
  BY OrderClosed, RegistryTypes DEF OrderInv, FeatureTypeOK
<1> QED  BY <1>1, FullOrder

\* A feature that comes after all it depends on ties no knot.
LEMMA NoKnotGrows ==
    ASSUME NEW O, NEW n, n \notin O, deps[n] \subseteq O,
           \A m \in O : deps[m] \subseteq O,
           \A S \in SUBSET O : ~Knot(S)
    PROVE  \A S \in SUBSET (O \cup {n}) : ~Knot(S)
<1> SUFFICES ASSUME NEW S \in SUBSET (O \cup {n}), Knot(S) PROVE FALSE
  OBVIOUS
<1>1. n \in S
  BY DEF Knot
<1>2. PICK d : d \in deps[n] \cap S
  BY <1>1 DEF Knot
<1>3. d \in S \ {n} /\ S \ {n} \in SUBSET O
  BY <1>2
<1>4. ASSUME NEW f \in S \ {n} PROVE deps[f] \cap (S \ {n}) # {}
  <2>1. PICK e : e \in deps[f] \cap S
    BY DEF Knot
  <2>2. e \in O
    BY <1>3, <2>1
  <2> QED  BY <2>1, <2>2
<1>5. Knot(S \ {n})
  BY <1>3, <1>4 DEF Knot
<1> QED  BY <1>3, <1>5

LEMMA SameKnots ==
    ASSUME deps' = deps
    PROVE  \A S : Knot(S)' <=> Knot(S)
BY DEF Knot

LEMMA NoKnotKept ==
    ASSUME NoKnotInOrder, deps' = deps, Items(order') \subseteq Items(order)
    PROVE  NoKnotInOrder'
<1>1. \A S : Knot(S)' <=> Knot(S)
  BY SameKnots
<1> SUFFICES ASSUME NEW S \in SUBSET Items(order') PROVE ~Knot(S)'
  BY DEF NoKnotInOrder
<1> QED  BY <1>1 DEF NoKnotInOrder

LEMMA BuildDagKeepsCycleInv ==
    ASSUME CycleInv, BuildDag
    PROVE  CycleInv'
<1>1. /\ order' = <<>> /\ deps' = deps /\ nodes' = nodes /\ Items(order') = {}
      /\ pc' \in {"seed", "failed"}
  BY DEF BuildDag, Fail, Items
<1>2. NoKnotInOrder'
  BY <1>1, NoKnotKept DEF CycleInv
<1>3. pc' = "seed" => out' = {f \in nodes : deps[f] = {}}
  BY DEF BuildDag, Fail
<1>4. pc' = "seed" => \A m \in nodes : Counted(m)' = {}
  BY <1>1 DEF Counted
<1>5. ReadyIsQueued'
  BY <1>1, <1>3, <1>4 DEF ReadyIsQueued, Sorting
<1>6. Settled'
  BY <1>1 DEF Settled
<1> QED  BY <1>2, <1>5, <1>6 DEF CycleInv

LEMMA SeedKeepsCycleInv ==
    ASSUME OrderInv, CycleInv, Seed
    PROVE  CycleInv'
<1>1. /\ order' = order /\ deps' = deps /\ nodes' = nodes /\ pc = "seed"
      /\ pc' \in {"seed", "pop"}
  BY DEF Seed
<1>2. NoKnotInOrder'
  BY <1>1, NoKnotKept DEF CycleInv
<1>3. \A m \in nodes : Counted(m)' = Counted(m)
  BY <1>1 DEF Counted
<1>4. ASSUME NEW m \in nodes, deps[m] \subseteq Counted(m)
      PROVE  m \in Items(queue') \cup Items(order') \/ (pc' = "seed" /\ m \in out')
  <2>1. m \in Items(queue) \cup Items(order) \/ m \in out
    BY <1>1, <1>4 DEF CycleInv, ReadyIsQueued, Sorting
  <2>2. CASE out = {}
    BY <1>1, <2>1, <2>2 DEF Seed
  <2>3. CASE out # {}
    <3>1. PICK f \in out : queue' = Append(queue, f) /\ out' = out \ {f} /\ pc' = pc
      BY <2>3 DEF Seed, First
    <3>2. f \in nodes /\ queue \in Seq(nodes)
      BY <3>1 DEF OrderInv, FeatureTypeOK
    <3>3. Items(queue') = Items(queue) \cup {f}
      BY <3>1, <3>2, ItemsAppend
    <3> QED  BY <1>1, <2>1, <3>1, <3>3
  <2> QED  BY <2>2, <2>3
<1>5. ReadyIsQueued'
  BY <1>1, <1>3, <1>4 DEF ReadyIsQueued
<1>6. Settled'
  BY <1>1 DEF Settled
<1> QED  BY <1>2, <1>5, <1>6 DEF CycleInv

LEMMA PopKeepsCycleInv ==
    ASSUME OrderInv, CycleInv, Pop
    PROVE  CycleInv'
<1> DEFINE n == Head(queue)
<1>1. /\ pc = "pop" /\ pc' = "visit" /\ queue # <<>>
      /\ order' = Append(order, n) /\ queue' = Tail(queue)
      /\ out' = {m \in nodes : n \in deps[m]}
      /\ deps' = deps /\ nodes' = nodes
  BY DEF Pop
<1>2. order \in Seq(nodes) /\ queue \in Seq(nodes) /\ Injective(queue)
  BY <1>1 DEF OrderInv, FeatureTypeOK, QueueReady, Sorting
<1>3. n \in Items(queue) /\ n \in nodes /\ Items(queue') = Items(queue) \ {n}
  BY <1>1, <1>2, ItemsTail
<1>4. n \notin Items(order) /\ deps[n] \subseteq Items(order)
  BY <1>1, <1>3 DEF OrderInv, QueueReady, Sorting
<1>5. Items(order') = Items(order) \cup {n} /\ order'[Len(order')] = n
  BY <1>1, <1>2, <1>3, ItemsAppend
<1> HIDE DEF n
<1>6. NoKnotInOrder'
  <2>1. \A S \in SUBSET (Items(order) \cup {n}) : ~Knot(S)
    BY <1>4, OrderClosed, NoKnotGrows DEF CycleInv, NoKnotInOrder
  <2>2. \A S : Knot(S)' <=> Knot(S)
    BY <1>1, SameKnots
  <2> SUFFICES ASSUME NEW S \in SUBSET Items(order') PROVE ~Knot(S)'
    BY DEF NoKnotInOrder
  <2> QED  BY <1>5, <2>1, <2>2
<1>7. ASSUME NEW m \in nodes, deps[m] \subseteq Counted(m)'
      PROVE  m \in Items(queue') \cup Items(order')
  <2>1. deps[m] \subseteq Items(order)
    <3>1. CASE n \in deps[m]
      BY <1>1, <1>4, <1>5, <1>7, <3>1 DEF Counted
    <3>2. CASE n \notin deps[m]
      BY <1>1, <1>5, <1>7, <3>2 DEF Counted
    <3> QED  BY <3>1, <3>2
  <2>2. m \in Items(queue) \cup Items(order)
    BY <1>1, <2>1 DEF CycleInv, ReadyIsQueued, Sorting, Counted
  <2> QED  BY <1>3, <1>5, <2>2
<1>8. ReadyIsQueued'
  BY <1>1, <1>7 DEF ReadyIsQueued
<1>9. Settled'
  BY <1>1 DEF Settled
<1> QED  BY <1>6, <1>8, <1>9 DEF CycleInv

LEMMA VisitKeepsCycleInv ==
    ASSUME OrderInv, OrderInv', CycleInv, Visit
    PROVE  CycleInv'
<1>1. /\ order' = order /\ deps' = deps /\ nodes' = nodes /\ pc = "visit"
      /\ pc' \in {"visit", "pop"}
  BY DEF Visit
<1>2. NoKnotInOrder'
  BY <1>1, NoKnotKept DEF CycleInv
<1>3. ASSUME NEW x \in nodes, deps[x] \subseteq Counted(x)'
      PROVE  x \in Items(queue') \cup Items(order')
  <2>1. CASE out = {}
    <3>1. queue' = queue /\ out' = out
      BY <2>1 DEF Visit
    <3>2. Counted(x)' = Counted(x)
      BY <1>1, <2>1, <3>1 DEF Counted
    <3> QED
      BY <1>1, <1>3, <3>1, <3>2 DEF CycleInv, ReadyIsQueued, Sorting
  <2>2. CASE out # {}
    <3>1. PICK m \in out :
            /\ indeg' = [indeg EXCEPT ![m] = @ - 1]
            /\ queue' = IF indeg'[m] = 0 THEN Append(queue, m) ELSE queue
            /\ out' = out \ {m}
            /\ pc' = pc
      BY <2>2 DEF Visit, First
    <3>2. m \in nodes /\ queue \in Seq(nodes) /\ IsFiniteSet(deps[x])
      BY <3>1, RegistryTypes DEF OrderInv, FeatureTypeOK
    <3>3. Items(queue) \subseteq Items(queue')
      <4>1. Items(Append(queue, m)) = Items(queue) \cup {m}
        BY <3>2, ItemsAppend
      <4> QED  BY <3>1, <4>1
    <3>4. CASE x # m
      <4>1. Counted(x)' = Counted(x)
        BY <1>1, <3>1, <3>4 DEF Counted
      <4> QED
        BY <1>1, <1>3, <3>3, <4>1 DEF CycleInv, ReadyIsQueued, Sorting
    <3>5. CASE x = m
      <4>1. indeg'[x] = Cardinality(deps[x] \ Counted(x)')
        BY <1>1, <3>1 DEF OrderInv, Counts, Sorting
      <4>2. deps[x] \ Counted(x)' = {}
        BY <1>3
      <4>3. indeg'[x] = 0
        BY <4>1, <4>2, FS_EmptySet
      <4>4. Items(queue') = Items(queue) \cup {x}
        BY <3>1, <3>2, <3>5, <4>3, ItemsAppend
      <4> QED  BY <4>4
    <3> QED  BY <3>4, <3>5
  <2> QED  BY <2>1, <2>2
<1>4. ReadyIsQueued'
  BY <1>1, <1>3 DEF ReadyIsQueued
<1>5. Settled'
  BY <1>1 DEF Settled
<1> QED  BY <1>2, <1>4, <1>5 DEF CycleInv

\* An ordering that stops with features left leaves a knot.
LEMMA OrderedKeepsCycleInv ==
    ASSUME OrderInv, CycleInv, Ordered
    PROVE  CycleInv'
<1>1. /\ pc = "pop" /\ queue = <<>> /\ UNCHANGED dagVars /\ deps' = deps
      /\ pc' \in {"failed", "request", "check"}
      /\ Len(order) # Cardinality(nodes) <=> pc' = "failed"
  BY DEF Ordered
<1>2. NoKnotInOrder'
  BY <1>1, NoKnotKept DEF CycleInv, dagVars
<1>3. ReadyIsQueued'
  BY <1>1 DEF ReadyIsQueued, Sorting
<1>4. Items(order) \subseteq nodes
  BY OrderClosed
<1>5. ASSUME Items(order) # nodes PROVE Knot(nodes \ Items(order))
  <2>1. ASSUME NEW f \in nodes \ Items(order) PROVE deps[f] \cap (nodes \ Items(order)) # {}
    <3>1. deps[f] \subseteq nodes
      BY <1>1 DEF OrderInv, Counts, Sorting
    <3>2. Items(queue) = {}
      BY <1>1 DEF Items
    <3>3. ~(deps[f] \subseteq Items(order))
      BY <1>1, <2>1, <3>2 DEF CycleInv, ReadyIsQueued, Sorting, Counted
    <3> QED  BY <3>1, <3>3
  <2> QED  BY <1>4, <1>5, <2>1 DEF Knot
<1>6. pc' # "failed" => Items(order) = nodes
  BY <1>1, FullOrderConverse
<1>7. \A S : Knot(S)' <=> Knot(S)
  BY <1>1, SameKnots
<1>8. Settled'
  <2>1. order' = order /\ nodes' = nodes
    BY <1>1 DEF dagVars
  <2>2. Items(order)' = Items(order)
    BY <2>1 DEF Items
  <2>3. Knot(nodes \ Items(order))' <=> Knot(nodes \ Items(order))
    BY <1>1, <2>1 DEF Knot, Items
  <2> QED  BY <1>1, <1>5, <1>6, <2>1, <2>2, <2>3 DEF Settled
<1> QED  BY <1>2, <1>3, <1>8 DEF CycleInv

LEMMA RestKeepsCycleInv ==
    ASSUME CycleInv,
           \/ Request \/ Expand \/ Expanded
           \/ CheckComputers \/ LoadInputs \/ Compute \/ Computed
    PROVE  CycleInv'
<1>1. CASE Request \/ Expand \/ CheckComputers \/ LoadInputs \/ Compute \/ Computed
  <2>1. /\ UNCHANGED dagVars /\ deps' = deps
        /\ pc \in {"request", "expand", "check", "load", "compute"}
        /\ pc' \in {"failed", "request", "expand", "check", "load", "compute", "computed"}
    BY <1>1 DEF Request, Expand, CheckComputers, LoadInputs, Compute, Computed, Fail
  <2>2. NoKnotInOrder'
    BY <2>1, NoKnotKept DEF CycleInv, dagVars
  <2>3. ReadyIsQueued'
    BY <2>1 DEF ReadyIsQueued, Sorting
  <2>4. Settled'
    BY <2>1 DEF CycleInv, Settled, dagVars
  <2> QED  BY <2>2, <2>3, <2>4 DEF CycleInv
<1>2. CASE Expanded
  <2>1. deps' = deps /\ pc' = "build" /\ order' = <<>> /\ Items(order') = {}
    BY <1>2 DEF Expanded, Items
  <2>2. NoKnotInOrder'
    BY <2>1, NoKnotKept DEF CycleInv
  <2> QED  BY <2>1, <2>2 DEF CycleInv, ReadyIsQueued, Sorting, Settled
<1> QED  BY <1>1, <1>2

LEMMA CycleInvHolds == FeatureSpec => []CycleInv
<1>1. FeatureInit => CycleInv
  BY DEF FeatureInit, CycleInv, NoKnotInOrder, ReadyIsQueued, Settled, Sorting, Items, Knot
<1>2. OrderInv /\ OrderInv' /\ CycleInv /\ [FeatureNext]_runVars => CycleInv'
  <2> SUFFICES ASSUME OrderInv, OrderInv', CycleInv, [FeatureNext]_runVars PROVE CycleInv'
    OBVIOUS
  <2>1. CASE FeatureNext
    BY <2>1, BuildDagKeepsCycleInv, SeedKeepsCycleInv, PopKeepsCycleInv, VisitKeepsCycleInv,
       OrderedKeepsCycleInv, RestKeepsCycleInv DEF FeatureNext
  <2>2. CASE UNCHANGED runVars
    <3>1. UNCHANGED <<deps, pc, nodes, out, queue, order>>
      BY <2>2 DEF runVars, dagVars
    <3>2. NoKnotInOrder'
      BY <3>1, NoKnotKept DEF CycleInv
    <3>3. \A m \in nodes : Counted(m)' = Counted(m)
      BY <3>1 DEF Counted
    <3>4. ReadyIsQueued'
      BY <3>1, <3>3 DEF CycleInv, ReadyIsQueued, Sorting
    <3>5. Knot(nodes \ Items(order))' <=> Knot(nodes \ Items(order))
      BY <3>1 DEF Knot, Items
    <3>6. Settled'
      BY <3>1, <3>5 DEF CycleInv, Settled
    <3> QED  BY <3>2, <3>4, <3>6 DEF CycleInv
  <2> QED  BY <2>1, <2>2
<1> QED  BY <1>1, <1>2, OrderInvariant, PTL DEF FeatureSpec

\* For every registry: a graph is ordered exactly when no set of its features ties a
\* knot, and one that is given up with features left has a cycle among those left
\* (topological_order; ADR 05 section 7, "cycles forbidden").
THEOREM CyclesFound == FeatureSpec => []CyclesAreRefused
<1>1. CycleInv => CyclesAreRefused
  BY DEF CycleInv, NoKnotInOrder, Settled, CyclesAreRefused
<1> QED  BY <1>1, CycleInvHolds, PTL

-------------------------------------------------------------------------------
(* The compute loop: what was attempted is a prefix of the order, and nothing   *)
(* that failed was read by a feature that was computed.                         *)

ReadsDeclared == \A f \in nodes : Reads[f] \subseteq deps[f]

Prefix ==
    \A k \in DOMAIN order :
        order[k] \in Attempted => \A j \in 1..(k - 1) : order[j] \in Attempted

ReadsEarlier ==
    /\ \A f \in ctx : Reads[f] \subseteq ctx
    /\ \A k \in DOMAIN order :
         order[k] \in ctx => Reads[order[k]] \subseteq {order[j] : j \in 1..(k - 1)}

ErrorsHaveCauses ==
    /\ raised \subseteq errors
    /\ ctx \cap errors = {}
    /\ ReadsDeclared => \A f \in errors : f \in raised \/ Reads[f] \cap errors # {}

\* A loop that has ended has attempted every feature.
LoopEnded ==
    /\ pc = "computed" => errors = {} /\ nodes \subseteq Attempted
    /\ pc = "failed" /\ Attempted # {} => nodes \subseteq Attempted

LoopInv ==
    /\ Prefix /\ ReadsEarlier /\ ErrorsHaveCauses /\ LoopEnded
    /\ pc \in {"check", "load", "compute", "computed"} => stage = "run"

LEMMA ComputeKeepsLoopInv ==
    ASSUME OrderInv, CycleInv, LoopInv, Compute
    PROVE  LoopInv'
<1>1. /\ pc = "compute" /\ pc' = pc /\ deps' = deps
      /\ UNCHANGED <<stage, nodes, order>>
  BY DEF Compute, dagVars
<1>2. PICK k \in DOMAIN order :
        /\ Due(k)
        /\ \/ /\ Reads[order[k]] \subseteq ctx
              /\ ctx' = ctx \cup {order[k]}
              /\ UNCHANGED <<raised, errors>>
           \/ /\ errors' = errors \cup {order[k]}
              /\ raised' = IF Reads[order[k]] \subseteq ctx THEN raised \cup {order[k]} ELSE raised
              /\ UNCHANGED ctx
  BY DEF Compute
<1>3. PICK f : f = order[k]
  OBVIOUS
<1>4. /\ f \notin Attempted /\ f \in nodes
      /\ \A j \in 1..(k - 1) : order[j] \in Attempted
      /\ Attempted' = Attempted \cup {f}
  BY <1>2, <1>3 DEF Due, Attempted, OrderInv, FeatureTypeOK
<1>5. /\ \A i, j \in DOMAIN order : order[i] = order[j] => i = j
      /\ Items(order) = nodes
      /\ DOMAIN order = 1..Len(order) /\ Len(order) \in Nat
  BY <1>1, OrderClosed DEF CycleInv, Settled, OrderInv, FeatureTypeOK, Injective
<1>6. Prefix'
  <2>1. ASSUME NEW i \in DOMAIN order, order[i] \in Attempted \cup {f}
        PROVE  \A j \in 1..(i - 1) : order[j] \in Attempted \cup {f}
    <3>1. CASE order[i] \in Attempted
      BY <3>1 DEF LoopInv, Prefix
    <3>2. CASE order[i] = f
      BY <1>3, <1>4, <1>5, <3>2
    <3> QED  BY <2>1, <3>1, <3>2
  <2> QED  BY <1>1, <1>4, <2>1 DEF Prefix
<1>7. ctx \subseteq {order[j] : j \in 1..(k - 1)}
  <2> SUFFICES ASSUME NEW x \in ctx PROVE x \in {order[j] : j \in 1..(k - 1)}
    OBVIOUS
  <2>1. PICK i \in DOMAIN order : x = order[i]
    BY <1>5 DEF Items, OrderInv, FeatureTypeOK
  <2>2. x \in Attempted
    BY DEF Attempted
  <2>3. ~(k \in 1..(i - 1)) /\ i # k
    BY <1>3, <1>4, <2>1, <2>2 DEF LoopInv, Prefix
  <2>4. i \in 1..(k - 1)
    BY <1>5, <2>3
  <2> QED  BY <2>1, <2>4
<1>8. CASE /\ Reads[f] \subseteq ctx
           /\ ctx' = ctx \cup {f} /\ UNCHANGED <<raised, errors>>
  <2>1. ReadsEarlier'
    <3>1. \A x \in ctx' : Reads[x] \subseteq ctx'
      BY <1>8 DEF LoopInv, ReadsEarlier
    <3>2. ASSUME NEW i \in DOMAIN order, order[i] \in ctx'
          PROVE  Reads[order[i]] \subseteq {order[j] : j \in 1..(i - 1)}
      <4>1. CASE order[i] \in ctx
        BY <4>1 DEF LoopInv, ReadsEarlier
      <4>2. CASE order[i] = f
        BY <1>3, <1>5, <1>7, <1>8, <4>2
      <4> QED  BY <1>8, <3>2, <4>1, <4>2
    <3> QED  BY <1>1, <3>1, <3>2 DEF ReadsEarlier
  <2>2. ErrorsHaveCauses'
    <3>1. f \notin errors
      BY <1>4 DEF Attempted
    <3>2. ReadsDeclared' <=> ReadsDeclared
      BY <1>1 DEF ReadsDeclared
    <3> QED  BY <1>8, <3>1, <3>2 DEF LoopInv, ErrorsHaveCauses
  <2>3. LoopEnded'
    BY <1>1 DEF LoopEnded
  <2> QED  BY <1>1, <1>6, <2>1, <2>2, <2>3 DEF LoopInv
<1>9. CASE /\ errors' = errors \cup {f}
           /\ raised' = IF Reads[f] \subseteq ctx THEN raised \cup {f} ELSE raised
           /\ UNCHANGED ctx
  <2>1. ReadsEarlier'
    BY <1>1, <1>9 DEF LoopInv, ReadsEarlier
  <2>2. ErrorsHaveCauses'
    <3>1. f \notin ctx
      BY <1>4 DEF Attempted
    <3>2. ReadsDeclared' <=> ReadsDeclared
      BY <1>1 DEF ReadsDeclared
    <3>3. ASSUME ReadsDeclared, ~(Reads[f] \subseteq ctx) PROVE Reads[f] \cap errors # {}
      <4>1. deps[f] \subseteq {order[j] : j \in 1..(k - 1)}
        BY <1>3 DEF OrderInv, OrderRespectsDependencies
      <4>2. Reads[f] \subseteq Attempted
        BY <1>4, <3>3, <4>1 DEF ReadsDeclared
      <4> QED  BY <3>3, <4>2 DEF Attempted
    <3>4. raised' \subseteq errors' /\ ctx' \cap errors' = {}
      BY <1>9, <3>1 DEF LoopInv, ErrorsHaveCauses
    <3>5. ASSUME ReadsDeclared', NEW x \in errors'
          PROVE  x \in raised' \/ Reads[x] \cap errors' # {}
      <4>1. CASE x \in errors
        <5>1. x \in raised \/ Reads[x] \cap errors # {}
          BY <3>2, <3>5, <4>1 DEF LoopInv, ErrorsHaveCauses
        <5> QED  BY <1>9, <5>1
      <4>2. CASE x = f
        BY <1>9, <3>2, <3>3, <3>5, <4>2
      <4> QED  BY <1>9, <3>5, <4>1, <4>2
    <3> QED  BY <3>4, <3>5 DEF ErrorsHaveCauses
  <2>3. LoopEnded'
    BY <1>1 DEF LoopEnded
  <2> QED  BY <1>1, <1>6, <2>1, <2>2, <2>3 DEF LoopInv
<1> QED  BY <1>2, <1>3, <1>8, <1>9

\* The steps before the loop, and those around it.
LEMMA OtherStepsKeepLoopInv ==
    ASSUME OrderInv, OrderInv', CycleInv, ClosureInv, LoopInv,
           \/ BuildDag \/ Seed \/ Pop \/ Visit \/ Ordered \/ Request \/ Expand \/ Expanded
           \/ CheckComputers \/ LoadInputs \/ Computed
    PROVE  LoopInv'
<1>1. CASE BuildDag \/ Seed \/ Pop \/ Visit \/ Ordered \/ Request \/ Expand \/ Expanded
           \/ CheckComputers \/ LoadInputs
  <2>1. /\ UNCHANGED computeVars /\ pc' # "computed"
        /\ pc \notin {"compute", "computed", "failed"}
    BY <1>1 DEF BuildDag, Seed, Pop, Visit, Ordered, Request, Expand, Expanded,
       CheckComputers, LoadInputs, Fail
  <2>2. ctx' = {} /\ raised' = {} /\ errors' = {}
    BY <2>1 DEF OrderInv, Stages, computeVars
  <2>3. Prefix' /\ ReadsEarlier' /\ ErrorsHaveCauses' /\ LoopEnded'
    BY <2>1, <2>2 DEF Prefix, ReadsEarlier, ErrorsHaveCauses, LoopEnded, Attempted
  <2>4. pc' \in {"check", "load", "compute"} => stage' = "run"
    <3>1. CASE Ordered
      BY <3>1 DEF Ordered, dagVars, OrderInv, FeatureTypeOK
    <3>2. CASE CheckComputers \/ LoadInputs
      BY <3>2 DEF CheckComputers, LoadInputs, dagVars, LoopInv
    <3>3. CASE BuildDag \/ Seed \/ Pop \/ Visit \/ Request \/ Expand \/ Expanded
      BY <3>3 DEF BuildDag, Seed, Pop, Visit, Request, Expand, Expanded, Fail
    <3> QED  BY <1>1, <3>1, <3>2, <3>3
  <2> QED  BY <2>1, <2>3, <2>4 DEF LoopInv
<1>2. CASE Computed
  <2>1. /\ deps' = deps /\ UNCHANGED <<stage, nodes, order, ctx, raised, errors>>
        /\ pc = "compute" /\ Items(order) \subseteq Attempted
        /\ pc' = IF errors = {} THEN "computed" ELSE "failed"
    BY <1>2 DEF Computed, dagVars, computeVars
  <2>2. Items(order) = nodes
    BY <2>1 DEF CycleInv, Settled
  <2>3. LoopEnded'
    BY <2>1, <2>2 DEF LoopEnded, Attempted
  <2>4. Prefix' /\ ReadsEarlier' /\ ErrorsHaveCauses'
    BY <2>1 DEF LoopInv, Prefix, ReadsEarlier, ErrorsHaveCauses, ReadsDeclared, Attempted
  <2> QED  BY <2>1, <2>3, <2>4 DEF LoopInv
<1> QED  BY <1>1, <1>2

LEMMA LoopInvHolds == FeatureSpec => []LoopInv
<1>1. FeatureInit => LoopInv
  BY DEF FeatureInit, LoopInv, Prefix, ReadsEarlier, ErrorsHaveCauses, LoopEnded, Attempted
<1>2. /\ OrderInv /\ OrderInv' /\ CycleInv /\ ClosureInv /\ LoopInv
      /\ [FeatureNext]_runVars
      => LoopInv'
  <2> SUFFICES ASSUME OrderInv, OrderInv', CycleInv, ClosureInv, LoopInv, [FeatureNext]_runVars
               PROVE  LoopInv'
    OBVIOUS
  <2>1. CASE FeatureNext
    BY <2>1, ComputeKeepsLoopInv, OtherStepsKeepLoopInv DEF FeatureNext
  <2>2. CASE UNCHANGED runVars
    BY <2>2 DEF runVars, dagVars, computeVars, LoopInv, Prefix, ReadsEarlier,
       ErrorsHaveCauses, ReadsDeclared, LoopEnded, Attempted
  <2> QED  BY <2>1, <2>2
<1> QED
  BY <1>1, <1>2, OrderInvariant, CycleInvHolds, ClosureInvHolds, PTL DEF FeatureSpec

\* Where computers read no more than is declared, the errors of a run are the
\* computers that raised and what reads them, directly or not (run_feature_publish).
THEOREM ErrorsExplained == FeatureSpec => []ErrorsAreExplained
<1>1. OrderInv /\ LoopInv => ErrorsAreExplained
  <2> SUFFICES ASSUME OrderInv, LoopInv, pc \in {"computed", "failed"}, Attempted # {},
                      \A f \in nodes : Reads[f] \subseteq deps[f]
               PROVE  /\ raised \subseteq errors
                      /\ \A f \in nodes : f \in errors <=> f \in raised \/ Reads[f] \cap errors # {}
    BY DEF ErrorsAreExplained
  <2>1. nodes \subseteq Attempted
    BY DEF LoopInv, LoopEnded
  <2>2. raised \subseteq errors /\ ctx \cap errors = {}
    BY DEF LoopInv, ErrorsHaveCauses
  <2>3. ASSUME NEW f \in nodes, f \in errors PROVE f \in raised \/ Reads[f] \cap errors # {}
    BY <2>3 DEF LoopInv, ErrorsHaveCauses, ReadsDeclared
  <2>4. ASSUME NEW f \in nodes, f \notin errors PROVE Reads[f] \cap errors = {}
    <3>1. f \in ctx
      BY <2>1, <2>4 DEF Attempted
    <3> QED  BY <2>2, <3>1 DEF LoopInv, ReadsEarlier
  <2> QED  BY <2>2, <2>3, <2>4
<1> QED  BY <1>1, OrderInvariant, LoopInvHolds, PTL

\* A published frame has every feature asked for, each computed from frames computed
\* before it, whether or not the registry declares what the computers read.
THEOREM FramesComplete == FeatureSpec => []ComputedIsComplete
<1>1. OrderInv /\ ClosureInv /\ CycleInv /\ LoopInv => ComputedIsComplete
  <2> SUFFICES ASSUME OrderInv, ClosureInv, CycleInv, LoopInv, pc = "computed"
               PROVE  /\ want \subseteq ctx /\ ctx = nodes
                      /\ \A k \in DOMAIN order :
                           Reads[order[k]] \subseteq {order[j] : j \in 1..(k - 1)}
    BY DEF ComputedIsComplete
  <2>1. ctx = nodes
    BY DEF LoopInv, LoopEnded, Attempted, OrderInv, FeatureTypeOK
  <2>2. want \subseteq nodes
    BY DEF LoopInv, ClosureInv, ClosureIsLeast
  <2>3. \A k \in DOMAIN order : order[k] \in ctx
    BY <2>1 DEF OrderInv, FeatureTypeOK
  <2> QED  BY <2>1, <2>2, <2>3 DEF LoopInv, ReadsEarlier
<1> QED  BY <1>1, OrderInvariant, CycleInvHolds, ClosureInvHolds, LoopInvHolds, PTL
===============================================================================
