----------------------------- MODULE AccessLogin -----------------------------
(* How a client gets from an SSH user name and a credential to a running      *)
(* operation: the authenticators (pkg/authn, pkg/accesspolicy), the target    *)
(* resolvers (pkg/accesspolicy, pkg/podtarget, pkg/target), the session       *)
(* policy and acceptAuthenticated of pkg/gateway, the External connector      *)
(* (pkg/sshproxy) and the authorizers every operation is put to (pkg/authz).  *)
(*                                                                            *)
(* Each of them reads the informer caches for itself, so the Accesses, the    *)
(* Secret and the Pods may differ from one read to the next.  A name, a       *)
(* container, an address is a word, a sequence of characters; an SSH user is  *)
(* namespace.name or namespace.name~pod in one namespace, and name and pod    *)
(* are sequences of words, with a dot between them.  Webhooks and the         *)
(* SubjectAccessReview are external: they give any answer.                    *)
EXTENDS TargetSelection, FiniteSets, Wildcard

CONSTANTS
  Conns,        \* the SSH connections
  UsersOf,      \* the SSH users each connection may ask for
  Specs,        \* the specs each Access may be given
  InitialSpecs, \* those it may have at first, or NoSpec
  SecretStates, \* what the Secret may hold
  InitialSecret,
  Keys,         \* public keys; other lines of authorized_keys are invalid
  Passwords,
  WebhookInfos, \* identities an authentication webhook may return
  Configs,      \* configurations of the gateway
  Requests,     \* operations clients ask for
  PodNames, Containers, DefaultContainer,  \* of each Pod
  EnvNames,     \* names of environment variables
  MaxAttempts,  \* bound: attempts that get as far as a target (x/crypto allows 6)
  MaxEvents     \* bound: connections accepted and changes of the caches

VARIABLES
  conf,         \* the configuration in force
  cache,        \* the Accesses in the informer's cache
  secret,       \* the Secret in the informer's cache
  pods,         \* the state of every Pod
  conn,         \* the connections
  changes       \* how often the caches have changed

cacheVars == <<conf, cache, secret, pods, changes>>
vars == <<cacheVars, selectorVars, conn>>

NoName == <<>>
NoWord == <<>>
Absent == [uid |-> 0]
NoSpec == [type |-> "none"]
NoRequest == [kind |-> "none"]
NoInfo == [user |-> "", access |-> NoName, credential |-> "", hints |-> <<>>]
NoTarget == [kind |-> "none", id |-> 0, container |-> NoWord, explicit |-> FALSE,
             via |-> NoName, uid |-> 0, gen |-> 0]
NoSession == [access |-> NoName, shell |-> NoWord, env |-> {}, read |-> 0]

Unused ==
  [pc |-> "idle", user |-> [name |-> NoName, pod |-> NoName], offered |-> {},
   key |-> "", candidate |-> NoInfo, info |-> NoInfo, attempts |-> 0, target |-> NoTarget,
   spec |-> NoSpec, read |-> 0, session |-> NoSession, used |-> NoSpec, request |-> NoRequest,
   held |-> <<>>, ctx |-> TRUE]

\* No Access has an empty name.
ASSUME NamesAssumption == NoName \notin Names

ASSUME SpecsAssumption == \A n \in Names : InitialSpecs[n] \subseteq Specs[n] \cup {NoSpec}

\* splitSecretLines drops empty lines, and an empty line is no key.
ASSUME MaterialAssumption ==
  "" \notin Keys /\ \A s \in SecretStates \cup {InitialSecret} : "" \notin s.lines

\* A webhook's answer has no Extra and so names no Access (authenticate of webhook.go).
ASSUME WebhookAssumption == \A info \in WebhookInfos : info.access = NoName

Init ==
  /\ conf \in Configs
  /\ \E specs \in [Names -> UNION {InitialSpecs[n] : n \in Names}] :
       /\ \A n \in Names : specs[n] \in InitialSpecs[n]
       /\ cache = [n \in Names |-> IF specs[n] = NoSpec THEN Absent
                                   ELSE [uid |-> 1, gen |-> 1, spec |-> specs[n]]]
  /\ secret = InitialSecret
  /\ pods = [p \in Pods |-> "ready"]
  /\ conn = [c \in Conns |-> Unused]
  /\ changes = 0
  /\ SelectorInit

-----------------------------------------------------------------------------
(* Events of the informers.                                                  *)

EventLeft == changes + Cardinality({c \in Conns : conn[c].pc # "idle"}) < MaxEvents
Changed == EventLeft /\ changes' = changes + 1

AccessEvent(n) ==
  /\ Changed
  /\ \/ /\ cache[n] = Absent
        /\ \E s \in Specs[n] :
             cache' = [cache EXCEPT ![n] = [uid |-> changes + 2, gen |-> 1, spec |-> s]]
     \/ /\ cache[n] # Absent
        /\ cache' = [cache EXCEPT ![n] = Absent]
     \/ /\ cache[n] # Absent
        /\ \E s \in Specs[n] \ {cache[n].spec} :
             cache' = [cache EXCEPT ![n] = [uid |-> @.uid, gen |-> @.gen + 1, spec |-> s]]
  /\ UNCHANGED <<conf, secret, pods, conn, selectorVars>>

SecretEvent ==
  /\ Changed
  /\ secret' \in SecretStates \ {secret}
  /\ UNCHANGED <<conf, cache, pods, conn, selectorVars>>

PodEvent ==
  /\ Changed
  /\ \E p \in Pods, s \in PodStates : s # pods[p] /\ pods' = [pods EXCEPT ![p] = s]
  /\ UNCHANGED <<conf, cache, secret, conn, selectorVars>>

\* PolicyCache.Get finds the Access: it is cached and of this gateway's class.
Exists(n) == n \in Names /\ cache[n] # Absent /\ cache[n].spec.mine

-----------------------------------------------------------------------------
(* Locators                                                                  *)

Locator(access, pod, container) == [access |-> access, pod |-> pod, container |-> container]
NotProvided == Locator(NoName, NoName, NoWord)

\* An exact name wins; otherwise the last word may be a container.
ResolveAccessLocator(user) ==
  CASE Exists(user.name) -> Locator(user.name, user.pod, NoWord)
    [] /\ ~Exists(user.name) /\ user.pod = NoName /\ Len(user.name) > 1
       /\ Exists(Front(user.name)) -> Locator(Front(user.name), NoName, Last(user.name))
    [] OTHER -> NotProvided

\* The same user name, read as a locator of the Access the identity is bound to.
LocatorsFor(user, name) ==
  CASE user.name = name -> {Locator(name, user.pod, NoWord)}
    [] user.pod = NoName /\ user.name # NoName /\ Front(user.name) = name ->
         {Locator(name, NoName, Last(user.name))}
    [] OTHER -> {}

-----------------------------------------------------------------------------
(* Authentication                                                            *)

\* splitSecretLines drops empty lines; keyFingerprint knows the keys.
CredentialPublicKeys(cred) == cred.keys \cup IF cred.keysFrom THEN secret.lines ELSE {}
PublicKeysReadable(cred) ==
  (cred.keysFrom => secret.present) /\ CredentialPublicKeys(cred) \subseteq Keys

\* Inline tokens that are empty never match.
CredentialPasswords(cred) ==
  (cred.passwords \ {""}) \cup IF cred.passwordsFrom THEN secret.lines ELSE {}
PasswordsReadable(cred) == cred.passwordsFrom => secret.present

Answer(kind, info) == [kind |-> kind, info |-> info]
NoAnswer == Answer("not provided", NoInfo)
Failure == Answer("error", NoInfo)
Provided(info) == Answer("info", info)

\* authExtra and matchUser.
AccessIdentity(n, cred) ==
  [user |-> cred.username, access |-> n, credential |-> cred.username, hints |-> <<>>]

MatchesFirst(n, matches) ==
  IF matches = {} THEN NoAnswer ELSE Provided(AccessIdentity(n, CHOOSE cred \in matches : TRUE))
CredentialMatch(n, matches) ==
  CASE matches = {} -> NoAnswer
    [] \E cred, other \in matches : cred # other -> Failure
    [] OTHER -> Provided(AccessIdentity(n, CHOOSE cred \in matches : TRUE))

\* A credential that cannot be read, whoever's it is, fails the login.
MatchPublicKey(user, key) ==
  LET n == ResolveAccessLocator(user).access
      creds == cache[n].spec.creds IN
  IF n = NoName THEN NoAnswer
  ELSE IF \E cred \in creds : ~PublicKeysReadable(cred) THEN Failure
  ELSE CredentialMatch(n, {cred \in creds : key \in CredentialPublicKeys(cred)})

MatchPassword(user, token) ==
  LET n == ResolveAccessLocator(user).access
      creds == cache[n].spec.creds IN
  IF token = "" \/ n = NoName THEN NoAnswer
  ELSE IF \E cred \in creds : ~PasswordsReadable(cred) THEN Failure
  ELSE CredentialMatch(n, {cred \in creds : token \in CredentialPasswords(cred)})

\* The static authenticators: the subject configured for a key or password.
StaticPublicKey(key) ==
  IF key \in DOMAIN conf.keys THEN Provided([NoInfo EXCEPT !.user = conf.keys[key]])
                              ELSE NoAnswer
StaticPassword(token) ==
  IF token \in DOMAIN conf.passwords
  THEN Provided([NoInfo EXCEPT !.user = conf.passwords[token]]) ELSE NoAnswer
Anonymous == IF conf.anonymous THEN Provided([NoInfo EXCEPT !.user = "anonymous"]) ELSE NoAnswer

\* A webhook fails or names a user; it never passes.
WebhookAuthenticate ==
  IF conf.webhook THEN {Failure} \cup {Provided(info) : info \in WebhookInfos} ELSE {NoAnswer}

\* authn.Chain: the first answer other than "not provided".
FirstAnswer(answers) ==
  LET given == {i \in DOMAIN answers : answers[i].kind # "not provided"} IN
  IF given = {} THEN NoAnswer ELSE answers[Min(given)]

AuthenticatePublicKey(user, key, webhook) ==
  FirstAnswer(<<StaticPublicKey(key), MatchPublicKey(user, key), webhook, Anonymous>>)
AuthenticateBasic(user, token, webhook) ==
  FirstAnswer(<<StaticPassword(token), MatchPassword(user, token), webhook,
                Anonymous>>)

\* The methods an Access's credentials call for; Secret references count unread.
AccessMethods(creds) ==
  {m \in {"publickey", "password"} : \E cred \in creds :
     IF m = "publickey" THEN cred.keysFrom \/ cred.keys \ {""} # {}
                        ELSE cred.passwordsFrom \/ cred.passwords \ {""} # {}}
AuthenticationMethods(user) ==
  LET n == ResolveAccessLocator(user).access IN
  conf.methods \cap IF n = NoName THEN conf.methods ELSE AccessMethods(cache[n].spec.creds)

\* validateCredential and validateAccess of the status controller.
ValidateCredential(cred) ==
  /\ cred.keys # {} \/ cred.passwords # {} \/ cred.keysFrom \/ cred.passwordsFrom
  /\ "" \notin cred.passwords /\ PasswordsReadable(cred) /\ PublicKeysReadable(cred)
  /\ cred.keysFrom \/ cred.passwordsFrom => secret.lines # {}
MaterialIsUnique(creds) ==
  \A a, b \in creds : a # b =>
    /\ CredentialPublicKeys(a) \cap CredentialPublicKeys(b) = {}
    /\ CredentialPasswords(a) \cap CredentialPasswords(b) = {}
ValidateAccess(spec) ==
  /\ spec.creds # {} /\ (\A cred \in spec.creds : ValidateCredential(cred))
  /\ MaterialIsUnique(spec.creds)
  /\ spec.type = "Pod" /\ spec.containers # {} =>
       \A cred \in spec.creds : \A container \in cred.containers \ {<<"*">>} :
         MatchAny(spec.containers, container)

\* A connection that has ended, outside acceptAuthenticated, has only its targets left.
Remains(s) ==
  IF s.ctx \/ s.pc \in {"resolve", "selected", "policy"} THEN s
  ELSE [Unused EXCEPT !.pc = "closed", !.ctx = FALSE, !.held = s.held]
Update(c, s) == conn' = [conn EXCEPT ![c] = Remains(s)]
Live(c, pc) == conn[c].pc = pc /\ conn[c].ctx

Accept(c) ==
  /\ conn[c].pc = "idle" /\ EventLeft
  /\ \E user \in UsersOf[c] : Update(c, [conn[c] EXCEPT !.pc = "auth", !.user = user])
  /\ UNCHANGED <<cacheVars, selectorVars>>

\* The guarded "none" callback.  With no method to offer, the client may ask again.
NoClientAuth(c) ==
  /\ Live(c, "auth") /\ conn[c].offered = {}
  /\ AuthenticationMethods(conn[c].user) # {}
  /\ Update(c, [conn[c] EXCEPT !.offered = AuthenticationMethods(conn[c].user)])
  /\ UNCHANGED <<cacheVars, selectorVars>>

\* The public key callback: its verdict stays in x/crypto's cache until the client signs.
PublicKeyCallback(c, key) ==
  /\ Live(c, "auth") /\ "publickey" \in conn[c].offered /\ conn[c].key # key
  /\ \E webhook \in WebhookAuthenticate :
       LET answer == AuthenticatePublicKey(conn[c].user, key, webhook) IN
       /\ answer.kind = "info"
       /\ Update(c, [conn[c] EXCEPT !.key = key, !.candidate = answer.info])
  /\ UNCHANGED <<cacheVars, selectorVars>>

\* finish, up to acceptAuthenticated.
Accepted(c, info) == Update(c, [conn[c] EXCEPT !.pc = "resolve", !.info = info])
VerifiedPublicKey(c) ==
  /\ Live(c, "auth") /\ conn[c].key # "" /\ conn[c].attempts < MaxAttempts
  /\ Accepted(c, conn[c].candidate)
  /\ UNCHANGED <<cacheVars, selectorVars>>

PasswordCallback(c, token) ==
  /\ Live(c, "auth") /\ "password" \in conn[c].offered /\ conn[c].attempts < MaxAttempts
  /\ \E webhook \in WebhookAuthenticate :
       LET answer == AuthenticateBasic(conn[c].user, token, webhook) IN
       answer.kind = "info" /\ Accepted(c, answer.info)
  /\ UNCHANGED <<cacheVars, selectorVars>>

\* acceptAuthenticated returns FALSE: the client may try again.
Rejecting(c, held) ==
  Update(c, [conn[c] EXCEPT !.pc = "auth", !.attempts = @ + 1, !.info = NoInfo,
                            !.target = NoTarget, !.spec = NoSpec, !.held = held])
Rejected(c) == Rejecting(c, conn[c].held)

-----------------------------------------------------------------------------
(* Target resolution                                                         *)

\* resolveRequestedAccess.  An identity whose Access is gone is passed on.
RequestedAccess(user, info) ==
  CASE info.access = NoName -> {ResolveAccessLocator(user)}
    [] info.access # NoName /\ ~Exists(info.access) ->
         {NotProvided : loc \in LocatorsFor(user, info.access)}
    [] OTHER -> LocatorsFor(user, info.access)

PodNamed(listed, name) == {p \in listed : PodNames[p] = name}

\* resolveExplicitPodLocator: an exact Pod name wins; otherwise the last word is a container.
ExplicitPods(active, pod) ==
  IF PodNamed(active, pod) # {} THEN {<<p, NoWord>> : p \in PodNamed(active, pod)}
  ELSE {<<p, Last(pod)>> : p \in IF Len(pod) > 1 THEN PodNamed(active, Front(pod)) ELSE {}}

\* ResolveContainer: the requested container or the Pod's default one, if the Pod has it.
ResolveContainer(p, requested) ==
  {IF requested = NoWord THEN DefaultContainer[p] ELSE requested} \cap Containers[p]

\* The mode of a global container policy.
ContainerAllowed(mode, explicit, container, default) ==
  CASE mode = "All" -> TRUE
    [] mode = "KubernetesDefault" -> ~explicit \/ container = default
    [] OTHER -> FALSE

ListAllows(allow, container) == allow = {} \/ MatchAny(allow, container)

FindCredential(spec, username) == {cred \in spec.creds : cred.username = username}

\* The container rules of Resolver.Resolve, of the Access it has read.
AccessContainerAllowed(spec, username, p, container, explicit) ==
  /\ IF spec.containers # {} THEN MatchAny(spec.containers, container)
     ELSE ContainerAllowed(conf.defaults.containers, explicit, container, DefaultContainer[p])
  /\ ContainerAllowed(conf.limits.containers, explicit, container, DefaultContainer[p])
  /\ \A cred \in FindCredential(spec, username) : ListAllows(cred.containers, container)

PodTarget(p, container, explicit, via) ==
  [NoTarget EXCEPT !.kind = "pod", !.id = p, !.container = container, !.explicit = explicit,
                   !.via = via]

\* sshproxy.NewTarget binds the endpoint to the revision of the Access.
NewTarget(t, n) ==
  [NoTarget EXCEPT !.kind = "external", !.id = t, !.via = n, !.uid = cache[n].uid,
                   !.gen = cache[n].gen]

\* A target has been selected and counted.
Selected(c, n, target) ==
  Update(c, [conn[c] EXCEPT !.pc = "selected", !.target = target, !.spec = cache[n].spec,
                            !.read = changes, !.held = Append(@, <<n, target.id>>)])

ResolveExternal(c) ==
  /\ conn[c].pc = "resolve"
  /\ \E loc \in RequestedAccess(conn[c].user, conn[c].info) :
       /\ loc # NotProvided /\ cache[loc.access].spec.type = "External"
       /\ IF loc.pod # NoName \/ loc.container # NoWord
          THEN Rejected(c) /\ UNCHANGED selectorVars
          ELSE \E fresh \in BOOLEAN, t \in Endpoints :
                 /\ SelectTarget(loc.access, cache[loc.access].spec, Endpoints, fresh, t)
                 /\ Selected(c, loc.access, NewTarget(t, loc.access))
  /\ UNCHANGED cacheVars

ResolvePod(c) ==
  /\ conn[c].pc = "resolve"
  /\ \E loc \in RequestedAccess(conn[c].user, conn[c].info) :
       /\ loc # NotProvided /\ cache[loc.access].spec.type = "Pod"
       /\ LET n == loc.access
              listed == cache[n].spec.selector
              active == ActivePods(listed, pods)
              cands == CandidatePods(listed, pods) IN
          \/ /\ loc.pod # NoName
             /\ \E found \in ExplicitPods(active, loc.pod) :
                  /\ SelectPodByName(n, found[1])
                  /\ Selected(c, n, PodTarget(found[1], found[2], found[2] # NoWord, n))
          \/ /\ loc.pod # NoName /\ ExplicitPods(active, loc.pod) = {}
             /\ Rejected(c) /\ UNCHANGED selectorVars
          \/ /\ loc.pod = NoName /\ cands = {}
             /\ Rejected(c) /\ UNCHANGED selectorVars
          \/ /\ loc.pod = NoName /\ cands # {}
             /\ \E fresh \in BOOLEAN, p \in cands :
                  /\ SelectTarget(n, cache[n].spec, cands, fresh, p)
                  /\ Selected(c, n, PodTarget(p, loc.container, loc.container # NoWord, n))
  /\ UNCHANGED cacheVars

NotReleased(c) ==
  /\ Rejecting(c, Front(conn[c].held))
  /\ UNCHANGED selectorVars
\* release is called before the error is returned.
ReleaseRefused(c) ==
  LET key == Last(conn[c].held) IN
  /\ Released(key[1], key[2])
  /\ Rejecting(c, Front(conn[c].held))

\* The rest of Resolve: the container of a Pod is found and allowed, or the target is given back.
ResolveReturns(c) ==
  /\ conn[c].pc = "selected"
  /\ LET t == conn[c].target
         containers == IF t.kind = "external" THEN {NoWord}
                       ELSE {d \in ResolveContainer(t.id, t.container) :
                               AccessContainerAllowed(conn[c].spec, conn[c].info.credential, t.id,
                                                      d, t.explicit)} IN
     IF containers = {} THEN ReleaseRefused(c)
     ELSE \E d \in containers :
            /\ Update(c, [conn[c] EXCEPT !.pc = "policy", !.target.container = d])
            /\ UNCHANGED selectorVars
  /\ UNCHANGED cacheVars

\* Without an Access: namespace.pod or namespace.pod.container, else the hints of the
\* identity, of kind "kube", by alias or because there is only one.  No Pod has a "~" in its name.
UsernameTargets(user) ==
  IF user.pod # NoName THEN {}
  ELSE CASE Len(user.name) = 1 -> {<<p, NoWord>> : p \in PodNamed(Pods, user.name)}
         [] Len(user.name) = 2 -> {<<p, Last(user.name)>> : p \in PodNamed(Pods, Front(user.name))}
         [] OTHER -> {}
HintTargets(hints, user) ==
  LET aliased == SelectSeq(hints, LAMBDA hint : user \in hint.aliases)
      chosen == IF aliased # <<>> THEN <<Head(aliased)>>
                ELSE IF Len(hints) = 1 THEN hints ELSE <<>> IN
  {<<hint.pod, hint.container>> : hint \in Range(chosen)}

\* BindingResolver: the Pod exists, and the container is within both global policies.
BindContainers(p, requested) ==
  {d \in ResolveContainer(p, requested) : \A policy \in {conf.defaults, conf.limits} :
     ContainerAllowed(policy.containers, requested # NoWord, d, DefaultContainer[p])}
BindTargets(refs) ==
  UNION {{PodTarget(ref[1], d, ref[2] # NoWord, NoName) : d \in BindContainers(ref[1], ref[2])} :
           ref \in {r \in refs : pods[r[1]] # "absent"}}

ResolveDirect(c) ==
  /\ conn[c].pc = "resolve"
  /\ NotProvided \in RequestedAccess(conn[c].user, conn[c].info)
  /\ LET user == conn[c].user
         refs == IF user.name # NoName THEN UsernameTargets(user)
                 ELSE HintTargets(conn[c].info.hints, user)
         targets == BindTargets(refs) IN
     IF targets = {} THEN Rejected(c)
     ELSE \E t \in targets :
            Update(c, [conn[c] EXCEPT !.pc = "policy", !.target = t, !.read = changes])
  /\ UNCHANGED <<cacheVars, selectorVars>>

-----------------------------------------------------------------------------
(* Session policy and publication                                            *)

\* For a bound identity the Access must still exist.  Otherwise the whole user name is
\* looked up, without a suffix, and a miss means the global policy.
IgnoresMissing(user, info) ==
  LET n == IF info.access = NoName /\ user.pod = NoName THEN user.name ELSE info.access IN
  {IF Exists(n) THEN n ELSE NoName}
SessionPolicyAccess(user, info) ==
  IF info.access # NoName THEN {info.access} \cap {n \in Names : Exists(n)}
  ELSE {IF user.pod = NoName /\ Exists(user.name) THEN user.name ELSE NoName}

\* buildAccessSessionPolicy, without the durations (see SessionPolicyConn).  read is history.
AccessSessionPolicy(n) ==
  LET own == n # NoName IN
  [access |-> n,
   shell |-> IF own /\ cache[n].spec.shell # NoWord THEN cache[n].spec.shell
             ELSE conf.defaults.shell,
   env |-> IF own /\ cache[n].spec.env.given THEN cache[n].spec.env.list ELSE conf.defaults.env,
   read |-> changes]

EnvAllowed(session, key) ==
  EnvAllowlistAllows(conf.limits.env, key) /\ EnvAllowlistAllows(session.env, key)

\* The protocol is selected and the connection published.
Published(c, session) ==
  Update(c, [conn[c] EXCEPT !.pc = "open", !.session = session, !.candidate = NoInfo, !.key = ""])

ResolveSessionPolicy(c) ==
  /\ conn[c].pc = "policy"
  /\ LET sessions == {AccessSessionPolicy(n) : n \in SessionPolicyAccess(conn[c].user, conn[c].info)}
         allowed == {s \in sessions : MatchAny(conf.limits.shells, s.shell)} IN
     IF allowed = {} THEN Rejected(c)
     ELSE \E s \in allowed : Published(c, s)
  /\ UNCHANGED <<cacheVars, selectorVars>>

-----------------------------------------------------------------------------
(* Operations                                                                *)

\* connectionOperationSpec
Capability(request) ==
  CASE request.kind = "direct-tcpip" -> "local_forward"
    [] request.kind = "tcpip-forward" -> "remote_forward"
    [] request.kind = "auth-agent-req" -> "agent_forward"
    [] request.kind \in {"shell", "exec", "scp", "sftp"} -> request.kind
    [] OTHER -> "ssh_extension"

Lists(list, capability) == "*" \in list \/ capability \in list

\* PolicyLimits.Authorize.  An empty list allows nothing.
WithinPolicy(policy, request) ==
  /\ Lists(policy.capabilities, Capability(request))
  /\ Capability(request) = "local_forward" => MatchAny(policy.destinations, request.address)
  /\ Capability(request) = "remote_forward" => MatchAny(policy.binds, request.address)
PolicyLimits(policy, skipAccess, info, request) ==
  IF (skipAccess /\ info.access # NoName) \/ WithinPolicy(policy, request)
  THEN "NoOpinion" ELSE "Deny"

\* capabilityAllowed.  An empty list inherits the default, an empty default allows all.
Inherited(own, default) == IF own # {} THEN own ELSE default
CapabilityAllowed(cred, request) ==
  LET capability == Capability(request)
      allow == Inherited(cred.allow, conf.defaults.capabilities)
      addresses == CASE capability = "local_forward" ->
                          Inherited(cred.destinations, conf.defaults.destinations)
                     [] capability = "remote_forward" -> Inherited(cred.binds, conf.defaults.binds)
                     [] OTHER -> {} IN
  /\ allow # {} => Lists(allow, capability)
  /\ addresses # {} => MatchAny(addresses, request.address)

\* The Access authorizer, of a spec of the Access.
SpecAllows(spec, info, target, request) ==
  \E cred \in FindCredential(spec, info.credential) :
    /\ target.container # NoWord => /\ ListAllows(spec.containers, target.container)
                                    /\ ListAllows(cred.containers, target.container)
    /\ CapabilityAllowed(cred, request)

UsesLoginAccess(c, request) ==
  CASE conn[c].info.access = NoName -> "NoOpinion"
    [] /\ conn[c].spec # NoSpec
       /\ SpecAllows(conn[c].spec, conn[c].info, conn[c].target, request) -> "Allow"
    [] OTHER -> "Deny"
AccessAuthorize(c, request) ==
  LET info == conn[c].info IN
  CASE info.access = NoName -> "NoOpinion"
    [] /\ info.access # NoName /\ Exists(info.access)
       /\ SpecAllows(cache[info.access].spec, info, conn[c].target, request) -> "Allow"
    [] OTHER -> "Deny"

\* The SubjectAccessReview is asked about Pods, and not about extensions.
SARAnswers(target, request) ==
  IF target.kind # "pod" \/ Capability(request) = "ssh_extension" THEN {"NoOpinion"}
  ELSE {"Allow", "Deny", "error"}
WebhookDecisions == {"Allow", "Deny", "NoOpinion", "error"}

\* buildAuthorizer: the authorizers after the Access's.
FurtherAuthorizers(target, request) ==
  CASE conf.authz = "sar" -> {<<a>> : a \in SARAnswers(target, request)}
    [] conf.authz = "webhook+sar" ->
         WebhookDecisions \X SARAnswers(target, request)
    [] conf.authz = "webhook" -> {<<a>> : a \in WebhookDecisions}
    [] conf.authz = "allowall" -> {<<"Allow">>}
    [] OTHER -> {<<>>}

\* authz.Chain: the first decision or error counts.
FirstDecision(decisions) ==
  LET decisive == {i \in DOMAIN decisions : decisions[i] # "NoOpinion"} IN
  IF decisive = {} THEN "NoOpinion" ELSE decisions[Min(decisive)]

\* withPolicyGuards: limits, defaults for identities without an Access, then the chain.
GuardsLast(c, request, further) ==
  FirstDecision(<<AccessAuthorize(c, request)>> \o further \o
                <<PolicyLimits(conf.limits, FALSE, conn[c].info, request),
                  PolicyLimits(conf.defaults, TRUE, conn[c].info, request)>>)
Authorize(c, request, further) ==
  FirstDecision(<<PolicyLimits(conf.limits, FALSE, conn[c].info, request),
                  PolicyLimits(conf.defaults, TRUE, conn[c].info, request),
                  AccessAuthorize(c, request)>> \o further)

\* beginConnectionOperation: the operation runs if the decision is Allow.
BeginOperation(c, request) ==
  /\ Live(c, "open") /\ conn[c].request = NoRequest
  /\ \E further \in FurtherAuthorizers(conn[c].target, request) :
       Authorize(c, request, further) = "Allow"
  /\ Update(c, [conn[c] EXCEPT !.request = request])
  /\ UNCHANGED <<cacheVars, selectorVars>>

EndOperation(c) ==
  /\ conn[c].request # NoRequest
  /\ Update(c, [conn[c] EXCEPT !.request = NoRequest])
  /\ UNCHANGED <<cacheVars, selectorVars>>

GenerationOnly(target, access) == access.gen = target.gen
\* The check of Connector.Connect against the revision bound by NewTarget.
SameRevision(target, access) == access.uid = target.uid /\ access.gen = target.gen

\* The first operation on an External target connects to its endpoint.
Connect(c) ==
  /\ Live(c, "open") /\ conn[c].request # NoRequest
  /\ LET t == conn[c].target IN
     /\ t.kind = "external" /\ conn[c].used = NoSpec
     /\ Exists(t.via) /\ SameRevision(t, cache[t.via]) /\ cache[t.via].spec.type = "External"
     /\ Update(c, [conn[c] EXCEPT !.used = cache[t.via].spec])
  /\ UNCHANGED <<cacheVars, selectorVars>>

\* The Access is gone or changed, or the endpoint cannot be configured, dialled or
\* authenticated: the operation fails.
ConnectFails(c) ==
  /\ conn[c].request # NoRequest /\ conn[c].target.kind = "external" /\ conn[c].used = NoSpec
  /\ Update(c, [conn[c] EXCEPT !.request = NoRequest])
  /\ UNCHANGED <<cacheVars, selectorVars>>

ConnectionEnds(c) ==
  /\ conn[c].pc # "idle" /\ conn[c].ctx
  /\ Update(c, [conn[c] EXCEPT !.ctx = FALSE])
  /\ UNCHANGED <<cacheVars, selectorVars>>

\* context.AfterFunc runs release once the connection's context is done.
AfterFunc(c) ==
  /\ ~conn[c].ctx /\ conn[c].held # <<>> /\ conn[c].pc # "selected"
  /\ LET key == Head(conn[c].held) IN Released(key[1], key[2])
  /\ Update(c, [conn[c] EXCEPT !.held = Tail(@)])
  /\ UNCHANGED cacheVars

-----------------------------------------------------------------------------
Login(c) ==
  \/ Accept(c) \/ NoClientAuth(c)
  \/ (\E key \in Keys : PublicKeyCallback(c, key)) \/ VerifiedPublicKey(c)
  \/ (\E token \in Passwords : PasswordCallback(c, token))
  \/ ResolveExternal(c) \/ ResolvePod(c) \/ ResolveReturns(c) \/ ResolveDirect(c)
  \/ ResolveSessionPolicy(c)
Serve(c) ==
  \/ (\E request \in Requests : BeginOperation(c, request)) \/ EndOperation(c)
  \/ Connect(c) \/ ConnectFails(c) \/ ConnectionEnds(c) \/ AfterFunc(c)

Next ==
  \/ (\E n \in Names : AccessEvent(n)) \/ SecretEvent \/ PodEvent
  \/ \E c \in Conns : Login(c) \/ Serve(c)

Spec == Init /\ [][Next]_vars

-----------------------------------------------------------------------------
(* Properties                                                                *)

\* The targets that connections hold of an Access: every one Resolve has selected, also for
\* an attempt that was refused afterwards, until its container is refused or the connection
\* ends.
Holding(n, t) ==
  Cardinality({h \in Conns \X (1..MaxAttempts) :
                 h[2] \in DOMAIN conn[h[1]].held /\ conn[h[1]].held[h[2]] = <<n, t>>})

\* The selector counts what connections hold (trackTargetLocked and the release it returns),
\* so the scan of leastConnectionsCandidateIndex finds a candidate with the fewest holders per
\* weight, whatever order logins, refusals and ends came in.
ConnectionsCounted ==
  /\ \A n \in Names, t \in Targets : connections[n][t] = Holding(n, t)
  /\ \A n \in {m \in Names : Exists(m) /\ cache[m].spec.strategy = "LeastConnections"} :
       LET spec == cache[n].spec
           cands == IF spec.type = "External" THEN Endpoints
                    ELSE CandidatePods(spec.selector, pods)
           best == LeastConnectionsCandidate(n, cands)
       IN \A t \in cands : Holding(n, best) * Weight[t] <= Holding(n, t) * Weight[best]

\* Connector.Connect reads the endpoint and its credentials from a spec that is the one the
\* connection's target was selected from, although the Access may have been edited, or
\* deleted and created again, in between.
ConnectsResolvedSpec ==
  \A c \in Conns : conn[c].used # NoSpec => conn[c].used = conn[c].spec

\* What is authenticated, resolved and governed is one Access.  The user name always means
\* the Access the identity is bound to, also when an Access with a longer name has appeared
\* since; an open connection has that Access's session policy and a target it selects,
\* unless the Access was missing during resolution and is back when the policy is read.  An
\* identity without an Access is governed by the Access its target came through, if the
\* user name has no suffix and the caches did not change in between.
OneAccess ==
  \A c \in Conns :
    LET s == conn[c] IN
    /\ s.pc = "resolve" => RequestedAccess(s.user, s.info) # {}
    /\ s.pc = "open" /\ s.info.access # NoName =>
         /\ s.session.access = s.info.access
         /\ s.target.via = s.info.access \/ (s.target.via = NoName /\ s.read # s.session.read)
    /\ s.pc = "open" /\ s.target.via # NoName /\ s.session.access # s.target.via =>
         \/ s.user # [name |-> s.target.via, pod |-> NoName]
         \/ s.read # s.session.read

\* The answer to a key or password that the credentials "owners" of an Access list: the identity
\* of the only owner, or a failure unless the status controller calls the Access valid.
OwnersAnswer(n, owners, answer) ==
  \/ answer = Failure /\ ~ValidateAccess(cache[n].spec)
  \/ \E cred \in owners : owners = {cred} /\ answer = Provided(AccessIdentity(n, cred))
Decided(n, owners, static, answer) ==
  IF static # NoAnswer THEN answer = static ELSE owners # {} => OwnersAnswer(n, owners, answer)
Offered(method, user) == method \in conf.methods => method \in AuthenticationMethods(user)

\* A key or password listed by a credential of the Access a user name means, inline or in the
\* Secret, decides the login, unless it is configured in the gateway as well: it is never left
\* to the webhook or to anonymous access, two credentials that list it fail, whichever edit
\* made them so, and in an Access whose status says valid it logs in as its credential.  The
\* client is offered the method for it if the gateway has the method.
ListedMaterialDecides ==
  \A user \in UNION {UsersOf[c] : c \in Conns}, webhook \in WebhookAuthenticate :
    LET n == ResolveAccessLocator(user).access
        creds == cache[n].spec.creds IN
    n # NoName =>
      /\ \A key \in Keys :
           LET owners == {cred \in creds : key \in CredentialPublicKeys(cred)} IN
           /\ Decided(n, owners, StaticPublicKey(key), AuthenticatePublicKey(user, key, webhook))
           /\ owners # {} => Offered("publickey", user)
      /\ \A token \in Passwords :
           LET owners == {cred \in creds : token \in CredentialPasswords(cred)} IN
           /\ Decided(n, owners, StaticPassword(token), AuthenticateBasic(user, token, webhook))
           /\ owners # {} => Offered("password", user)

\* Whoever authenticated the client, and whatever the Access and the other authorizers say,
\* nothing exceeds the limits of the gateway: the operation that runs, the container and
\* the shell of the session.
LimitsHold ==
  \A c \in Conns :
    LET s == conn[c] IN
    /\ s.request # NoRequest => WithinPolicy(conf.limits, s.request)
    /\ s.pc = "open" =>
         /\ \E p \in conf.limits.shells : Glob(p, s.session.shell)
         /\ s.target.kind = "pod" /\ conf.limits.containers # "All" =>
              conf.limits.containers = "KubernetesDefault"
              /\ s.target.container = DefaultContainer[s.target.id]

\* Patterns mean what pattern.go says of them: Match finds exactly the texts that fit, for
\* every short pattern and text, and an open session takes exactly the environment names that
\* fit both its own list and the limits, although envAllowlistAllows matches for itself.
MatchIsGlob ==
  /\ ScanIsGlob
  /\ \A c \in {d \in Conns : conn[d].pc = "open"}, key \in EnvNames :
       EnvAllowed(conn[c].session, key) <=>
         \A list \in {conf.limits.env, conn[c].session.env} : \E p \in list : Glob(p, key)

\* An operation begins only while the Access the client was authenticated by, and the
\* credential, are there and allow its capability and container now, whenever during the
\* login or after it they were edited or taken away.
RevokedStartsNothing ==
  [][\A c \in Conns :
       LET info == conn[c].info IN
       conn[c].request = NoRequest /\ conn'[c].request # NoRequest /\ info.access # NoName =>
         /\ Exists(info.access)
         /\ SpecAllows(cache[info.access].spec, info, conn[c].target, conn'[c].request)]_vars
==============================================================================
