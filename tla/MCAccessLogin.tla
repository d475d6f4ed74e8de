---------------------------- MODULE MCAccessLogin ----------------------------
(* A small instance of AccessLogin: the Accesses "a" and "a.c", two Pods of    *)
(* which one is also called "a", and two connections, of which the second      *)
(* only asks for "a".                                                          *)
EXTENDS AccessLogin

CONSTANTS c1, c2

a == <<"a">>
b == <<"b">>
c == <<"c">>
d == <<"d">>
All == <<"*">>

MCConns == {c1, c2}
MCNames == {<<a>>, <<a, c>>}
User(name, pod) == [name |-> name, pod |-> pod]
Plain == User(<<a>>, <<>>)
MCUsersOf == [x \in MCConns |->
  IF x = c2 THEN {Plain}
  ELSE {Plain, User(<<a, c>>, <<>>), User(<<a>>, <<b, c>>), User(<<>>, <<>>)}]

MCPods == {1, 2}
MCEndpoints == {3, 4}
MCWeight == [t \in 1..4 |-> IF t = 4 THEN 2 ELSE 1]
MCPodNames == [p \in MCPods |-> IF p = 1 THEN <<a>> ELSE <<b>>]
MCContainers == [p \in MCPods |-> IF p = 1 THEN {d} ELSE {c, d}]
MCDefaultContainer == [p \in MCPods |-> d]

MCKeys == {"key"}
MCPasswords == {"token"}
MCInitialSecret == [present |-> TRUE, lines |-> {"token"}]
MCSecretStates == {[present |-> FALSE, lines |-> {}], MCInitialSecret}

Alice == [username |-> "alice", keys |-> {"key"}, keysFrom |-> FALSE, passwords |-> {},
          passwordsFrom |-> FALSE, containers |-> {}, allow |-> {}, destinations |-> {},
          binds |-> {}]
Bob == [Alice EXCEPT !.username = "bob", !.keys = {}, !.passwordsFrom = TRUE,
                     !.containers = {<<"c", "*">>}, !.allow = {"shell"}]
Carol == [Alice EXCEPT !.username = "carol", !.keys = {}, !.passwords = {"token"}]

PodSpec == [type |-> "Pod", mine |-> TRUE, strategy |-> "Any", affinity |-> TRUE,
            selector |-> {2}, containers |-> {}, creds |-> {Alice}, shell |-> <<>>,
            env |-> [given |-> FALSE, list |-> {}]]
SharedSpec == [PodSpec EXCEPT !.creds = {Alice, Bob}, !.containers = {All}, !.shell = b]
ClashSpec == [PodSpec EXCEPT !.creds = {Bob, Carol}]
ExternalSpec == [PodSpec EXCEPT !.type = "External", !.strategy = "LeastConnections"]
RobinSpec == [ExternalSpec EXCEPT !.strategy = "RoundRobin", !.affinity = FALSE,
                               !.shell = b]
ForeignSpec == [PodSpec EXCEPT !.mine = FALSE]
MCSpecs == [n \in MCNames |->
  IF n = <<a>> THEN {PodSpec, SharedSpec, ClashSpec, ExternalSpec, RobinSpec, ForeignSpec}
  ELSE {PodSpec}]

\* "a" is given the other specs later, and "a.c" appears later, if at all.
MCInitialSpecs == [n \in MCNames |->
  {NoSpec} \cup IF n = <<a>> THEN {PodSpec, ExternalSpec} ELSE {}]

Hint == [pod |-> 2, container |-> c, aliases |-> {}]
MCWebhookInfos == {[NoInfo EXCEPT !.user = "dave", !.hints = <<Hint>>]}

Defaults == [capabilities |-> {"shell"}, destinations |-> {}, binds |-> {},
             containers |-> "KubernetesDefault", shell |-> a, env |-> {<<"L", "*">>}]
Limits == [capabilities |-> {"shell", "local_forward"}, destinations |-> {<<"a", "*">>},
           binds |-> {}, containers |-> "All", shells |-> {All}, env |-> {All}]
Closed == [keys |-> << >>, passwords |-> [p \in {"token"} |-> "erin"], anonymous |-> FALSE,
           webhook |-> FALSE, methods |-> {"publickey", "password"}, defaults |-> Defaults,
           limits |-> Limits, authz |-> "none"]
Open == [Closed EXCEPT !.passwords = << >>, !.webhook = TRUE, !.authz = "webhook+sar",
                       !.limits.containers = "KubernetesDefault", !.limits.shells = {a}]
MCConfigs == {Closed, Open}

MCRequests == {[kind |-> "shell", address |-> <<>>], [kind |-> "direct-tcpip", address |-> b]}
MCEnvNames == {<<"L">>, <<"L", "C">>, <<"P">>}
==============================================================================
