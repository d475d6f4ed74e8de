--------------------------- MODULE TargetSelection ---------------------------
(* The strategy selector of pkg/accesspolicy/strategy.go: it picks a Pod or   *)
(* an endpoint for a connection through an Access and counts the connection.  *)
(* AccessLogin composes it with the resolver that calls it.                   *)
(*                                                                            *)
(* Random, Newest and Oldest are one strategy, "Any", that may take every     *)
(* candidate; all connections through an Access share one affinity key.       *)
EXTENDS Integers, FiniteSetsExt

CONSTANTS
  Names,        \* names of the Accesses
  Pods,         \* the Pods, in key order: 1..n
  Endpoints,    \* the External endpoints, in key order: n+1..m
  Weight        \* the weight of every target, at least 1

Targets == Pods \cup Endpoints

ASSUME TargetsAssumption ==
  /\ Targets \subseteq Nat \ {0}
  /\ Weight \in [Targets -> Nat \ {0}]
  /\ Pods \cap Endpoints = {}

VARIABLES
  connections,  \* strategySelector.connections, of an Access and a target
  roundRobin,   \* strategySelector.roundRobin of each Access
  affinity      \* strategySelector.affinity of each Access's key, or 0

selectorVars == <<connections, roundRobin, affinity>>

PodStates == {"absent", "pending", "ready", "ended"}

SelectorInit ==
  /\ connections = [n \in Names |-> [t \in Targets |-> 0]]
  /\ roundRobin = [n \in Names |-> 0]
  /\ affinity = [n \in Names |-> 0]

\* states: the state of every Pod in the informer's cache.
ActivePods(listed, states) == {p \in listed : states[p] \in {"pending", "ready"}}
ReadyPods(listed, states) == {p \in listed : states[p] = "ready"}
CandidatePods(listed, states) ==
  IF ReadyPods(listed, states) # {} THEN ReadyPods(listed, states)
                                    ELSE ActivePods(listed, states)

TotalCandidateWeight(cands) == MapThenSumSet(LAMBDA t : Weight[t], cands)

WeightedCandidate(cands, index) ==
  LET before(t) == TotalCandidateWeight({u \in cands : u < t}) IN
  CHOOSE t \in cands : before(t) <= index /\ index < before(t) + Weight[t]

\* The comparison of leastConnectionsCandidateIndex.
Better(n, t, best) ==
  \/ connections[n][t] * Weight[best] < connections[n][best] * Weight[t]
  \/ connections[n][t] * Weight[best] = connections[n][best] * Weight[t] /\ t < best

\* Its loop, over the candidates in key order.
LeastConnectionsCandidate(n, cands) ==
  MapThenFoldSet(LAMBDA t, best : IF Better(n, t, best) THEN t ELSE best, Min(cands),
                 LAMBDA t : t, Max, cands)

\* Random, Newest and Oldest.
AnyCandidate(cands) == cands

StrategyTargets(n, strategy, cands) ==
  CASE strategy = "RoundRobin" ->
         {WeightedCandidate(cands, roundRobin[n] % TotalCandidateWeight(cands))}
    [] strategy = "LeastConnections" -> {LeastConnectionsCandidate(n, cands)}
    [] OTHER -> AnyCandidate(cands)

TrackTarget(n, t) == connections' = [connections EXCEPT ![n][t] = @ + 1]

\* fresh: the affinity entry has not expired.
AffinityCandidate(n, spec, cands, fresh) == spec.affinity /\ fresh /\ affinity[n] \in cands

SelectTarget(n, spec, cands, fresh, t) ==
  LET kept == AffinityCandidate(n, spec, cands, fresh) IN
  /\ t \in IF kept THEN {affinity[n]} ELSE StrategyTargets(n, spec.strategy, cands)
  /\ TrackTarget(n, t)
  /\ affinity' = IF spec.affinity THEN [affinity EXCEPT ![n] = t] ELSE affinity
  /\ roundRobin' = IF ~kept /\ spec.strategy = "RoundRobin"
                   THEN [roundRobin EXCEPT ![n] = @ + 1] ELSE roundRobin

\* selectPodByName bypasses the strategy and the affinity, not the count.
SelectPodByName(n, p) == TrackTarget(n, p) /\ UNCHANGED <<roundRobin, affinity>>

\* release: a count of 1 is deleted, which reads as 0.
Released(n, t) ==
  /\ connections' = [connections EXCEPT ![n][t] = @ - 1]
  /\ UNCHANGED <<roundRobin, affinity>>
==============================================================================
