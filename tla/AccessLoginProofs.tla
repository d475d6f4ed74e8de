-------------------------- MODULE AccessLoginProofs --------------------------
(* Theorems about AccessLogin, for any connections, Accesses, Pods, endpoints, *)
(* configurations and any number of events and attempts.                       *)
EXTENDS AccessLogin, TLAPS

-----------------------------------------------------------------------------
(* The inductive invariant                                                   *)

Fields == {"pc", "user", "offered", "key", "candidate", "info", "attempts", "target", "spec",
           "read", "session", "used", "request", "held", "ctx"}
TargetFields == {"kind", "id", "container", "explicit", "via", "uid", "gen"}

\* The shape of a connection's record and of its target.
Shape(s) ==
  /\ s = [f \in Fields |-> s[f]]
  /\ s.target = [f \in TargetFields |-> s.target[f]]

\* What the caches can hold.  A new Access gets a uid that no target was bound to.
CacheInv ==
  /\ conf \in Configs /\ changes \in Nat
  /\ secret \in SecretStates \cup {InitialSecret}
  /\ cache = [n \in Names |-> cache[n]]
  /\ \A n \in Names : cache[n] # Absent =>
       /\ cache[n] = [uid |-> cache[n].uid, gen |-> cache[n].gen, spec |-> cache[n].spec]
       /\ cache[n].uid \in Nat /\ cache[n].uid <= changes + 1 /\ cache[n].gen \in Nat
       /\ cache[n].spec \in Specs[n]

\* A connection that has not been accepted has nothing, and only an open one has connected.
StageInv(s) ==
  /\ s.pc = "idle" => s = Unused
  /\ s.pc # "open" => s.used = NoSpec
  /\ s.used # NoSpec => s.used = s.spec

\* The Access an External target is bound to has a later revision than the target, or the
\* target's revision and then the spec it was resolved from.
RevisionInv(s) ==
  LET t == s.target
      a == cache[t.via] IN
  t.kind = "external" =>
    /\ t.via \in Names
    /\ t.uid \in Nat /\ t.gen \in Nat /\ t.uid <= changes + 1
    /\ a # Absent => \/ a.uid > t.uid
                     \/ a.uid = t.uid /\ a.gen > t.gen
                     \/ a.uid = t.uid /\ a.gen = t.gen /\ a.spec = s.spec

\* The identity is one the user name can mean, and until the session policy has been read
\* the target is still right if the caches have not changed.
AccessInv(s) ==
  /\ s.candidate.access # NoName => LocatorsFor(s.user, s.candidate.access) # {}
  /\ s.info.access # NoName => LocatorsFor(s.user, s.info.access) # {}
  /\ s.read \in Nat /\ s.read <= changes
  /\ s.pc \in {"selected", "policy"} /\ s.target.via # NoName =>
       /\ s.info.access # NoName => s.target.via = s.info.access
       /\ s.read = changes => Exists(s.target.via)
  /\ s.pc = "selected" => s.target.via # NoName
  /\ s.pc = "policy" /\ s.target.via = NoName /\ s.info.access # NoName =>
       (s.read = changes => ~Exists(s.info.access))
  /\ s.pc = "open" /\ s.info.access # NoName =>
       /\ s.session.access = s.info.access
       /\ s.target.via = s.info.access \/ (s.target.via = NoName /\ s.read # s.session.read)
  /\ s.pc = "open" /\ s.target.via # NoName /\ s.session.access # s.target.via =>
       s.user # [name |-> s.target.via, pod |-> NoName] \/ s.read # s.session.read

\* The shells a session can be given.
Shells ==
  {cf.defaults.shell : cf \in Configs} \cup
  {spec.shell : spec \in UNION {Specs[n] : n \in Names}}

\* The limits, before and after the container of a Pod is known.
LimitsInv(s) ==
  /\ s.request # NoRequest => WithinPolicy(conf.limits, s.request)
  /\ s.pc = "selected" /\ s.target.kind = "pod" /\ ~s.target.explicit =>
       s.target.container = NoWord
  /\ s.pc \in {"policy", "open"} /\ s.target.kind = "pod" /\ conf.limits.containers # "All" =>
       conf.limits.containers = "KubernetesDefault"
       /\ s.target.container = DefaultContainer[s.target.id]
  /\ s.pc = "open" => s.session.shell \in Shells /\ MatchAny(conf.limits.shells, s.session.shell)

ConnInv(s) == Shape(s) /\ StageInv(s) /\ RevisionInv(s) /\ AccessInv(s) /\ LimitsInv(s)

IInv ==
  /\ CacheInv
  /\ conn = [c \in Conns |-> conn[c]]
  /\ \A c \in Conns : ConnInv(conn[c])

-----------------------------------------------------------------------------
(* Steps of a connection                                                     *)

\* What is left of a connection that has ended keeps the invariant.
LEMMA RemainsKeeps ==
  ASSUME CacheInv, NEW t, ConnInv(t)
  PROVE  ConnInv(Remains(t))
<1>1. CASE t.ctx \/ t.pc \in {"resolve", "selected", "policy"}
  BY <1>1, Zenon DEF Remains
<1>2. CASE ~(t.ctx \/ t.pc \in {"resolve", "selected", "policy"})
  <2>1. PICK r : r = [Unused EXCEPT !.pc = "closed", !.ctx = FALSE, !.held = t.held]
    BY Zenon
  <2>2. /\ r.pc = "closed" /\ r.target = NoTarget /\ r.candidate = NoInfo /\ r.info = NoInfo
        /\ r.read = 0 /\ r.request = NoRequest /\ r.used = NoSpec
    BY <2>1, Zenon DEF Unused
  <2>3. Shape(r)
    BY <2>1, <2>2, Zenon DEF Shape, Fields, TargetFields, Unused, NoTarget
  <2>4. NoTarget.kind = "none" /\ NoTarget.via = NoName /\ NoInfo.access = NoName
    BY Zenon DEF NoTarget, NoInfo
  <2>5. StageInv(r) /\ RevisionInv(r) /\ LimitsInv(r)
    BY <2>2, <2>4, Zenon DEF StageInv, RevisionInv, LimitsInv
  <2>6. r.read \in Nat /\ r.read <= changes
    BY <2>2 DEF CacheInv
  <2>7. AccessInv(r)
    BY <2>2, <2>4, <2>6, Zenon DEF AccessInv
  <2>8. Remains(t) = r
    BY <1>2, <2>1, Zenon DEF Remains
  <2> QED BY <2>3, <2>5, <2>7, <2>8, Zenon DEF ConnInv
<1> QED BY <1>1, <1>2, Zenon

\* What is known of a connection stays true while the caches do.
LEMMA SameCaches ==
  ASSUME conf' = conf, cache' = cache, changes' = changes, NEW s, ConnInv(s)
  PROVE  ConnInv(s)'
<1>1. RevisionInv(s)'
  BY Zenon DEF ConnInv, RevisionInv
<1>2. AccessInv(s)'
  <2>1. \A n : Exists(n)' <=> Exists(n)
    BY Zenon DEF Exists
  <2> QED BY <2>1, Zenon DEF ConnInv, AccessInv
<1>3. LimitsInv(s)'
  BY Zenon DEF ConnInv, LimitsInv
<1> QED BY <1>1, <1>2, <1>3, Zenon DEF ConnInv, Shape, StageInv

\* A step that changes one connection and no cache.
LEMMA UpdateKeeps ==
  ASSUME IInv, NEW c \in Conns, UNCHANGED cacheVars, \E t : ConnInv(t) /\ Update(c, t)
  PROVE  IInv'
<1>1. PICK t : ConnInv(t) /\ Update(c, t)
  BY Zenon
<1>2. ConnInv(Remains(t))
  BY <1>1, RemainsKeeps, Zenon DEF IInv
<1>3. PICK r : r = Remains(t)
  BY Zenon
<1>4. /\ conn' = [d \in Conns |-> conn'[d]] /\ conn'[c] = r
      /\ \A d \in Conns \ {c} : conn'[d] = conn[d]
  BY <1>1, <1>3, Zenon DEF Update, IInv
<1>5. CacheInv'
  BY Zenon DEF CacheInv, cacheVars, IInv
<1>6. ASSUME NEW s, ConnInv(s) PROVE ConnInv(s)'
  <2>1. conf' = conf /\ cache' = cache /\ changes' = changes
    BY Zenon DEF cacheVars
  <2> QED BY <1>6, <2>1, SameCaches, Zenon
<1>7. ConnInv(r)'
  BY <1>2, <1>3, <1>6, Zenon
<1>8. ASSUME NEW d \in Conns PROVE ConnInv(conn[d])'
  <2>1. CASE d = c
    BY <1>4, <1>7, <2>1, Zenon
  <2>2. CASE d # c
    <3>1. PICK s : s = conn[d] /\ s = conn'[d]
      BY <1>4, <2>2, Zenon
    <3>2. ConnInv(s)'
      BY <1>6, <3>1, Zenon DEF IInv
    <3> QED BY <3>1, <3>2, Zenon
  <2> QED BY <2>1, <2>2, Zenon
<1> QED BY <1>4, <1>5, <1>8, Zenon DEF IInv

-----------------------------------------------------------------------------
(* Locators                                                                  *)

\* A user name is resolved to an Access that exists, and can be read as a locator of it.
LEMMA Located ==
  ASSUME NEW user, ResolveAccessLocator(user) # NotProvided
  PROVE  LET loc == ResolveAccessLocator(user) IN
         loc.access # NoName /\ Exists(loc.access) /\ LocatorsFor(user, loc.access) # {}
<1>1. CASE Exists(user.name)
  <2>1. ResolveAccessLocator(user).access = user.name
    BY <1>1, Zenon DEF ResolveAccessLocator, Locator
  <2>2. LocatorsFor(user, user.name) # {}
    BY DEF LocatorsFor
  <2>3. user.name # NoName
    BY <1>1, NamesAssumption, Zenon DEF Exists
  <2> QED BY <1>1, <2>1, <2>2, <2>3, Zenon
<1>2. CASE ~Exists(user.name)
  <2>1. /\ user.pod = NoName /\ Len(user.name) > 1 /\ Exists(Front(user.name))
        /\ ResolveAccessLocator(user) = Locator(Front(user.name), NoName, Last(user.name))
    BY <1>2 DEF ResolveAccessLocator
  <2>2. ResolveAccessLocator(user).access = Front(user.name)
    BY <2>1 DEF Locator
  <2>3. user.name # NoName
    BY <2>1 DEF NoName
  <2>4. LocatorsFor(user, Front(user.name)) # {}
    BY <2>1, <2>3 DEF LocatorsFor
  <2>5. Front(user.name) # NoName
    BY <2>1, NamesAssumption, Zenon DEF Exists
  <2> QED BY <2>1, <2>2, <2>4, <2>5, Zenon
<1> QED BY <1>1, <1>2, Zenon

\* Resolve is asked for an Access that exists, the one the identity is bound to if there is
\* one; it is passed on only if that one is gone.
LEMMA Requested ==
  ASSUME NEW user, NEW info, NEW loc \in RequestedAccess(user, info)
  PROVE  /\ loc # NotProvided => /\ Exists(loc.access)
                                 /\ info.access # NoName => loc.access = info.access
         /\ loc = NotProvided /\ info.access # NoName => ~Exists(info.access)
<1>1. CASE info.access = NoName
  <2>1. loc = ResolveAccessLocator(user)
    BY <1>1, Zenon DEF RequestedAccess
  <2> QED BY <1>1, <2>1, Located, Zenon
<1>2. CASE info.access # NoName /\ ~Exists(info.access)
  BY <1>2 DEF RequestedAccess
<1>3. CASE info.access # NoName /\ Exists(info.access)
  <2>1. loc \in LocatorsFor(user, info.access)
    BY <1>3 DEF RequestedAccess
  <2>2. loc.access = info.access
    BY <2>1 DEF LocatorsFor, Locator
  <2>3. loc # NotProvided
    BY <1>3, <2>2 DEF NotProvided, Locator
  <2> QED BY <1>3, <2>2, <2>3, Zenon
<1> QED BY <1>1, <1>2, <1>3, Zenon

\* Resolve always has something to look at.
LEMMA RequestedSome ==
  ASSUME NEW user, NEW info, info.access # NoName => LocatorsFor(user, info.access) # {}
  PROVE  RequestedAccess(user, info) # {}
  BY DEF RequestedAccess

-----------------------------------------------------------------------------
(* Authentication                                                            *)

\* The first of several positions in a short chain.
LEMMA MinIn ==
  ASSUME NEW S \in SUBSET (1..5), S # {}
  PROVE  Min(S) \in S /\ \A n \in S : Min(S) <= n
<1>1. \E x \in S : \A y \in S : x <= y
  <2>1. \A x \in S : x = 1 \/ x = 2 \/ x = 3 \/ x = 4 \/ x = 5
    OBVIOUS
  <2>2. CASE 1 \in S
    BY <2>2
  <2>3. CASE 1 \notin S /\ 2 \in S
    BY <2>1, <2>3
  <2>4. CASE 1 \notin S /\ 2 \notin S /\ 3 \in S
    BY <2>1, <2>4
  <2>5. CASE 1 \notin S /\ 2 \notin S /\ 3 \notin S /\ 4 \in S
    BY <2>1, <2>5
  <2>6. CASE 1 \notin S /\ 2 \notin S /\ 3 \notin S /\ 4 \notin S
    <3>1. \A x \in S : x = 5
      BY <2>1, <2>6, Zenon
    <3>2. 5 <= 5
      OBVIOUS
    <3> QED BY <3>1, <3>2, Zenon
  <2> QED BY <2>2, <2>3, <2>4, <2>5, <2>6, Zenon
<1> QED BY <1>1, Zenon DEF Min

\* The chain's answer is one of its authenticators' or none.
LEMMA FirstAnswerGiven ==
  ASSUME NEW a1, NEW a2, NEW a3, NEW a4
  PROVE  FirstAnswer(<<a1, a2, a3, a4>>) \in {a1, a2, a3, a4, NoAnswer}
<1>1. PICK answers : answers = <<a1, a2, a3, a4>>
  BY Zenon
<1>2. PICK given : given = {i \in DOMAIN answers : answers[i].kind # "not provided"}
  BY Zenon
<1>3. /\ DOMAIN answers = 1..4
      /\ answers[1] = a1 /\ answers[2] = a2 /\ answers[3] = a3 /\ answers[4] = a4
  BY <1>1
<1>4. given \subseteq 1..4
  BY <1>2, <1>3, Zenon
<1>5. given \in SUBSET (1..5) /\ \A i \in given : i = 1 \/ i = 2 \/ i = 3 \/ i = 4
  BY <1>4
<1>6. given # {} => Min(given) \in given
  BY <1>5, MinIn, Zenon
<1>7. FirstAnswer(answers) = IF given = {} THEN NoAnswer ELSE answers[Min(given)]
  BY <1>2, Zenon DEF FirstAnswer
<1> QED BY <1>1, <1>3, <1>5, <1>6, <1>7, Zenon

\* The identity of a credential is bound to the Access the user name means.
LEMMA MatchBound ==
  ASSUME NEW user, NEW matches, LET n == ResolveAccessLocator(user).access IN n # NoName
  PROVE  LET n == ResolveAccessLocator(user).access
             info == CredentialMatch(n, matches).info IN
         info.access # NoName => LocatorsFor(user, info.access) # {}
<1>1. PICK n : n = ResolveAccessLocator(user).access /\ n # NoName
  BY Zenon
<1>2. ResolveAccessLocator(user) # NotProvided
  BY <1>1 DEF NotProvided, Locator
<1>3. LocatorsFor(user, n) # {}
  BY <1>1, <1>2, Located, Zenon
<1>4. CredentialMatch(n, matches).info = NoInfo \/ CredentialMatch(n, matches).info.access = n
  BY DEF CredentialMatch, NoAnswer, Failure, Provided, Answer, AccessIdentity
<1>5. NoInfo.access = NoName
  BY Zenon DEF NoInfo
<1> QED BY <1>1, <1>3, <1>4, <1>5, Zenon

\* Whoever answers, an identity bound to an Access is one the user name can mean.
LEMMA AnswerBound ==
  ASSUME NEW user, NEW key, NEW webhook \in WebhookAuthenticate, NEW answer,
         answer \in {AuthenticatePublicKey(user, key, webhook), AuthenticateBasic(user, key, webhook)}
  PROVE  answer.info.access # NoName => LocatorsFor(user, answer.info.access) # {}
<1>1. /\ NoAnswer.info.access = NoName /\ Failure.info.access = NoName
      /\ StaticPublicKey(key).info.access = NoName /\ StaticPassword(key).info.access = NoName
      /\ Anonymous.info.access = NoName
  <2>1. NoAnswer.info.access = NoName /\ Failure.info.access = NoName
    BY Zenon DEF NoAnswer, Failure, Answer, NoInfo
  <2>2. \A name : [NoInfo EXCEPT !.user = name].access = NoName
    BY Zenon DEF NoInfo
  <2>3. \A info : Provided(info).info = info
    BY Zenon DEF Provided, Answer
  <2>4. StaticPublicKey(key).info.access = NoName
    BY <2>1, <2>2, <2>3, Zenon DEF StaticPublicKey
  <2>5. StaticPassword(key).info.access = NoName
    BY <2>1, <2>2, <2>3, Zenon DEF StaticPassword
  <2>6. Anonymous.info.access = NoName
    <3>1. PICK info : info = [NoInfo EXCEPT !.user = "anonymous"]
      BY Zenon
    <3>2. info.access = NoName
      BY <2>2, <3>1, Zenon
    <3>3. Anonymous \in {NoAnswer, Provided(info)}
      BY <3>1, Zenon DEF Anonymous
    <3>4. CASE Anonymous = NoAnswer
      BY <2>1, <3>4, Zenon
    <3>5. CASE Anonymous = Provided(info)
      BY <2>3, <3>2, <3>5, Zenon
    <3> QED BY <3>3, <3>4, <3>5, Zenon
  <2> QED BY <2>1, <2>4, <2>5, <2>6, Zenon
<1>2. webhook.info.access = NoName
  BY <1>1, WebhookAssumption DEF WebhookAuthenticate, Provided, Answer
<1>3. ASSUME NEW m \in {MatchPublicKey(user, key), MatchPassword(user, key)}
      PROVE  m.info.access # NoName => LocatorsFor(user, m.info.access) # {}
  <2>1. CASE ResolveAccessLocator(user).access = NoName
    BY <1>1, <2>1, Zenon DEF MatchPublicKey, MatchPassword
  <2>2. CASE ResolveAccessLocator(user).access # NoName
    BY <1>1, <2>2, MatchBound, Zenon DEF MatchPublicKey, MatchPassword
  <2> QED BY <2>1, <2>2, Zenon
<1>4. answer \in {StaticPublicKey(key), StaticPassword(key), MatchPublicKey(user, key),
                  MatchPassword(user, key), webhook, Anonymous, NoAnswer}
  BY FirstAnswerGiven, Zenon DEF AuthenticatePublicKey, AuthenticateBasic
<1> QED BY <1>1, <1>2, <1>3, <1>4, Zenon

-----------------------------------------------------------------------------
(* A connection before it is open                                            *)

\* An identity is bound to no Access or to one the user name can mean.
Bound(user, info) == info.access # NoName => LocatorsFor(user, info.access) # {}

\* A connection without a target.
LEMMA EarlyKeeps ==
  ASSUME CacheInv, NEW s, ConnInv(s), NEW t, Shape(t), t.pc \in {"auth", "resolve"},
         Bound(t.user, t.candidate), Bound(t.user, t.info), t.read = s.read, t.used = NoSpec,
         t.request = NoRequest \/ t.request = s.request,
         t.target = NoTarget \/ (t.target = s.target /\ t.spec = s.spec)
  PROVE  ConnInv(t)
<1>1. t.pc \notin {"idle", "selected", "policy", "open"}
  BY Zenon
<1>2. NoTarget.kind # "external"
  BY Zenon DEF NoTarget
<1>3. RevisionInv(t)
  BY <1>2, Zenon DEF RevisionInv, ConnInv
<1>4. AccessInv(t)
  BY <1>1, Zenon DEF AccessInv, ConnInv, Bound
<1>5. LimitsInv(t)
  BY <1>1, Zenon DEF LimitsInv, ConnInv
<1>6. StageInv(t)
  BY <1>1, Zenon DEF StageInv
<1> QED BY <1>3, <1>4, <1>5, <1>6, Zenon DEF ConnInv

\* What the records of the identities and of an unused connection say.
LEMMA UnusedIs ==
  /\ Shape(Unused) /\ Unused.pc = "idle" /\ Unused.used = NoSpec /\ Unused.read = 0
  /\ Unused.request = NoRequest /\ Unused.target = NoTarget /\ Unused.ctx = TRUE
  /\ Unused.candidate = NoInfo /\ Unused.info = NoInfo
  /\ NoInfo.access = NoName
<1>1. /\ Unused.pc = "idle" /\ Unused.used = NoSpec /\ Unused.read = 0
      /\ Unused.request = NoRequest /\ Unused.target = NoTarget /\ Unused.ctx = TRUE
      /\ Unused.candidate = NoInfo /\ Unused.info = NoInfo
  BY Zenon DEF Unused
<1>2. Unused = [f \in Fields |-> Unused[f]]
  BY Zenon DEF Unused, Fields
<1>3. NoTarget = [f \in TargetFields |-> NoTarget[f]]
  BY Zenon DEF NoTarget, TargetFields
<1>4. NoInfo.access = NoName
  BY Zenon DEF NoInfo
<1> QED BY <1>1, <1>2, <1>3, <1>4, Zenon DEF Shape

\* A client connects.
LEMMA AcceptKeeps ==
  ASSUME IInv, NEW c \in Conns, Accept(c)
  PROVE  IInv'
<1>1. conn[c] = Unused /\ ConnInv(conn[c]) /\ CacheInv /\ UNCHANGED cacheVars
  BY Zenon DEF Accept, IInv, ConnInv, StageInv
<1>2. PICK user : Update(c, [conn[c] EXCEPT !.pc = "auth", !.user = user])
  BY Zenon DEF Accept
<1>3. PICK s : s = conn[c]
  BY Zenon
<1>4. PICK t : t = [s EXCEPT !.pc = "auth", !.user = user]
  BY Zenon
<1>5. /\ Shape(t) /\ t.pc = "auth" /\ t.user = user /\ t.candidate = NoInfo /\ t.info = NoInfo
      /\ t.read = s.read /\ t.used = NoSpec /\ t.request = NoRequest /\ t.target = NoTarget
  BY <1>1, <1>3, <1>4, UnusedIs, Zenon DEF Shape, Fields
<1>6. ConnInv(t)
  <2>1. Bound(t.user, t.candidate) /\ Bound(t.user, t.info)
    BY <1>5, UnusedIs, Zenon DEF Bound
  <2> QED BY <1>1, <1>3, <1>5, <2>1, EarlyKeeps, Zenon
<1>7. Update(c, t)
  BY <1>2, <1>3, <1>4, Zenon
<1> QED BY <1>1, <1>6, <1>7, UpdateKeeps, Zenon

\* A connection that is authenticating, whichever of its own fields the step changes.
LEMMA AuthKeeps ==
  ASSUME IInv, NEW c \in Conns, conn[c].pc = "auth", UNCHANGED cacheVars,
         NEW t, Update(c, t), Shape(t), t.pc \in {"auth", "resolve"}, t.user = conn[c].user,
         \A f \in {"target", "spec", "read", "used", "request"} : t[f] = conn[c][f],
         Bound(t.user, t.candidate), Bound(t.user, t.info)
  PROVE  IInv'
<1>1. PICK s : s = conn[c]
  BY Zenon
<1>2. CacheInv /\ ConnInv(s)
  BY <1>1, Zenon DEF IInv
<1>3. /\ t.target = s.target /\ t.spec = s.spec /\ t.read = s.read /\ t.used = s.used
      /\ t.request = s.request
  BY <1>1, Zenon
<1>4. s.used = NoSpec
  BY <1>1, <1>2, Zenon DEF ConnInv, StageInv
<1>5. ConnInv(t)
  BY <1>2, <1>3, <1>4, EarlyKeeps, Zenon
<1> QED BY <1>5, UpdateKeeps, Zenon

\* The "none" callback.
LEMMA NoClientAuthKeeps ==
  ASSUME IInv, NEW c \in Conns, NoClientAuth(c)
  PROVE  IInv'
<1>1. conn[c].pc = "auth" /\ ConnInv(conn[c]) /\ UNCHANGED cacheVars
  BY Zenon DEF NoClientAuth, Live, IInv
<1>2. PICK t : t = [conn[c] EXCEPT !.offered = AuthenticationMethods(conn[c].user)]
  BY Zenon
<1>3. Update(c, t)
  BY <1>2, Zenon DEF NoClientAuth
<1>4. /\ t.pc = "auth" /\ t.user = conn[c].user
      /\ t.candidate = conn[c].candidate /\ t.info = conn[c].info
      /\ t = [f \in Fields |-> t[f]] /\ t.target = conn[c].target
      /\ \A f \in {"target", "spec", "read", "used", "request"} : t[f] = conn[c][f]
  BY <1>1, <1>2, Zenon DEF ConnInv, Shape, Fields
<1>5. Shape(t) /\ Bound(t.user, t.candidate) /\ Bound(t.user, t.info)
  BY <1>1, <1>4, Zenon DEF ConnInv, Shape, AccessInv, Bound
<1> QED BY <1>1, <1>3, <1>4, <1>5, AuthKeeps, Zenon

\* The public key callback.
LEMMA PublicKeyCallbackKeeps ==
  ASSUME IInv, NEW c \in Conns, NEW key \in Keys, PublicKeyCallback(c, key)
  PROVE  IInv'
<1>1. conn[c].pc = "auth" /\ ConnInv(conn[c]) /\ UNCHANGED cacheVars
  BY Zenon DEF PublicKeyCallback, Live, IInv
<1>2. PICK webhook \in WebhookAuthenticate :
        Update(c, [conn[c] EXCEPT !.key = key,
          !.candidate = AuthenticatePublicKey(conn[c].user, key, webhook).info])
  BY Zenon DEF PublicKeyCallback
<1>3. PICK answer : answer = AuthenticatePublicKey(conn[c].user, key, webhook)
  BY Zenon
<1>4. PICK t : t = [conn[c] EXCEPT !.key = key, !.candidate = answer.info]
  BY Zenon
<1>5. Update(c, t)
  BY <1>2, <1>3, <1>4, Zenon
<1>6. /\ t.pc = "auth" /\ t.user = conn[c].user /\ t.candidate = answer.info
      /\ t.info = conn[c].info /\ t = [f \in Fields |-> t[f]] /\ t.target = conn[c].target
      /\ \A f \in {"target", "spec", "read", "used", "request"} : t[f] = conn[c][f]
  BY <1>1, <1>4, Zenon DEF ConnInv, Shape, Fields
<1>7. Shape(t) /\ Bound(t.user, t.candidate) /\ Bound(t.user, t.info)
  <2>1. Bound(conn[c].user, answer.info)
    BY <1>3, AnswerBound, Zenon DEF Bound
  <2> QED BY <1>1, <1>6, <2>1, Zenon DEF ConnInv, Shape, AccessInv, Bound
<1> QED BY <1>1, <1>5, <1>6, <1>7, AuthKeeps, Zenon

\* A credential has been accepted.
LEMMA AcceptedKeeps ==
  ASSUME IInv, NEW c \in Conns, conn[c].pc = "auth", UNCHANGED cacheVars,
         NEW info, Bound(conn[c].user, info), Accepted(c, info)
  PROVE  IInv'
<1>1. ConnInv(conn[c])
  BY Zenon DEF IInv
<1>2. PICK t : t = [conn[c] EXCEPT !.pc = "resolve", !.info = info]
  BY Zenon
<1>3. Update(c, t)
  BY <1>2, Zenon DEF Accepted
<1>4. /\ t.pc = "resolve" /\ t.user = conn[c].user /\ t.candidate = conn[c].candidate
      /\ t.info = info /\ t = [f \in Fields |-> t[f]] /\ t.target = conn[c].target
      /\ \A f \in {"target", "spec", "read", "used", "request"} : t[f] = conn[c][f]
  BY <1>1, <1>2, Zenon DEF ConnInv, Shape, Fields
<1>5. Shape(t) /\ Bound(t.user, t.candidate) /\ Bound(t.user, t.info)
  BY <1>1, <1>4, Zenon DEF ConnInv, Shape, AccessInv, Bound
<1> QED BY <1>3, <1>4, <1>5, AuthKeeps, Zenon

\* A signature verifies, or the password callback accepts.
LEMMA AuthenticatedKeeps ==
  ASSUME IInv, NEW c \in Conns,
         VerifiedPublicKey(c) \/ \E token \in Passwords : PasswordCallback(c, token)
  PROVE  IInv'
<1>1. CASE VerifiedPublicKey(c)
  <2>1. conn[c].pc = "auth" /\ UNCHANGED cacheVars /\ Accepted(c, conn[c].candidate)
    BY <1>1, Zenon DEF VerifiedPublicKey, Live
  <2>2. PICK info : info = conn[c].candidate
    BY Zenon
  <2>3. Bound(conn[c].user, info) /\ Accepted(c, info)
    BY <2>1, <2>2, Zenon DEF IInv, ConnInv, AccessInv, Bound
  <2> QED BY <2>1, <2>3, AcceptedKeeps, Zenon
<1>2. ASSUME NEW token \in Passwords, PasswordCallback(c, token) PROVE IInv'
  <2>1. conn[c].pc = "auth" /\ UNCHANGED cacheVars
    BY <1>2, Zenon DEF PasswordCallback, Live
  <2>2. PICK webhook \in WebhookAuthenticate :
          Accepted(c, AuthenticateBasic(conn[c].user, token, webhook).info)
    BY <1>2, Zenon DEF PasswordCallback
  <2>3. PICK answer : answer = AuthenticateBasic(conn[c].user, token, webhook)
    BY Zenon
  <2>4. Bound(conn[c].user, answer.info)
    BY <2>3, AnswerBound, Zenon DEF Bound
  <2>5. Accepted(c, answer.info)
    BY <2>2, <2>3, Zenon
  <2> QED BY <2>1, <2>4, <2>5, AcceptedKeeps, Zenon
<1> QED BY <1>1, <1>2, Zenon

\* The client may try again.
LEMMA RejectingKeeps ==
  ASSUME IInv, NEW c \in Conns, conn[c].pc \in {"resolve", "selected", "policy"},
         UNCHANGED cacheVars, NEW held, Rejecting(c, held)
  PROVE  IInv'
<1>1. PICK s : s = conn[c]
  BY Zenon
<1>2. CacheInv /\ ConnInv(s) /\ s.used = NoSpec
  BY <1>1, Zenon DEF IInv, ConnInv, StageInv
<1>3. PICK t : t = [s EXCEPT !.pc = "auth", !.attempts = @ + 1, !.info = NoInfo,
                             !.target = NoTarget, !.spec = NoSpec, !.held = held]
  BY Zenon
<1>4. Update(c, t)
  BY <1>1, <1>3, Zenon DEF Rejecting
<1>5. /\ t.pc = "auth" /\ t.user = s.user /\ t.candidate = s.candidate /\ t.info = NoInfo
      /\ t.read = s.read /\ t.used = s.used /\ t.request = s.request /\ t.target = NoTarget
      /\ t = [f \in Fields |-> t[f]]
  BY <1>2, <1>3, Zenon DEF ConnInv, Shape, Fields
<1>6. Shape(t)
  BY <1>5, UnusedIs, Zenon DEF Shape
<1>7. Bound(t.user, t.candidate) /\ Bound(t.user, t.info)
  BY <1>2, <1>5, UnusedIs, Zenon DEF Bound, ConnInv, AccessInv
<1>8. ConnInv(t)
  BY <1>2, <1>5, <1>6, <1>7, EarlyKeeps, Zenon
<1> QED BY <1>4, <1>8, UpdateKeeps, Zenon

-----------------------------------------------------------------------------
(* Resolution                                                                *)

\* Resolve has selected a target of an Access that exists.
LEMMA SelectedKeeps ==
  ASSUME IInv, NEW c \in Conns, conn[c].pc = "resolve", UNCHANGED cacheVars,
         NEW n, Exists(n), conn[c].info.access # NoName => n = conn[c].info.access,
         NEW target, target = [f \in TargetFields |-> target[f]], target.via = n,
         \/ target.kind = "external" /\ target.uid = cache[n].uid /\ target.gen = cache[n].gen
         \/ target.kind = "pod" /\ (~target.explicit => target.container = NoWord),
         Selected(c, n, target)
  PROVE  IInv'
<1>1. PICK s : s = conn[c]
  BY Zenon
<1>2. CacheInv /\ ConnInv(s) /\ s.used = NoSpec
  BY <1>1, Zenon DEF IInv, ConnInv, StageInv
<1>3. PICK t : t = [s EXCEPT !.pc = "selected", !.target = target, !.spec = cache[n].spec,
                             !.read = changes, !.held = Append(@, <<n, target.id>>)]
  BY Zenon
<1>4. Update(c, t)
  BY <1>1, <1>3, Zenon DEF Selected
<1>5. /\ t.pc = "selected" /\ t.user = s.user /\ t.candidate = s.candidate /\ t.info = s.info
      /\ t.read = changes /\ t.used = s.used /\ t.request = s.request /\ t.target = target
      /\ t.spec = cache[n].spec /\ t = [f \in Fields |-> t[f]]
  BY <1>2, <1>3, Zenon DEF ConnInv, Shape, Fields
<1>6. Shape(t) /\ StageInv(t)
  BY <1>2, <1>5, Zenon DEF Shape, StageInv
<1>7. n \in Names /\ cache[n] # Absent /\ n # NoName
  BY NamesAssumption, Zenon DEF Exists
<1>8. /\ cache[n].uid \in Nat /\ cache[n].uid <= changes + 1 /\ cache[n].gen \in Nat
      /\ changes \in Nat
  BY <1>2, <1>7, Zenon DEF CacheInv
<1>9. RevisionInv(t)
  BY <1>5, <1>7, <1>8, Zenon DEF RevisionInv
<1>10. changes <= changes
  BY <1>8
<1>11. AccessInv(t)
  BY <1>1, <1>2, <1>5, <1>7, <1>8, <1>10, Zenon DEF AccessInv, ConnInv
<1>12. LimitsInv(t)
  BY <1>2, <1>5, Zenon DEF LimitsInv, ConnInv
<1>13. ConnInv(t)
  BY <1>6, <1>9, <1>11, <1>12, Zenon DEF ConnInv
<1> QED BY <1>4, <1>13, UpdateKeeps, Zenon

\* Resolve of an External Access.
LEMMA ResolveExternalKeeps ==
  ASSUME IInv, NEW c \in Conns, ResolveExternal(c)
  PROVE  IInv'
<1>1. conn[c].pc = "resolve" /\ UNCHANGED cacheVars
  BY Zenon DEF ResolveExternal
<1>2. PICK loc \in RequestedAccess(conn[c].user, conn[c].info) :
        /\ loc # NotProvided
        /\ \/ Rejected(c)
           \/ \E t \in Endpoints : Selected(c, loc.access, NewTarget(t, loc.access))
  BY Zenon DEF ResolveExternal
<1>3. Exists(loc.access) /\ (conn[c].info.access # NoName => loc.access = conn[c].info.access)
  BY <1>2, Requested, Zenon
<1>4. CASE Rejected(c)
  BY <1>1, <1>4, RejectingKeeps, Zenon DEF Rejected
<1>5. ASSUME NEW t \in Endpoints, Selected(c, loc.access, NewTarget(t, loc.access)) PROVE IInv'
  <2>1. PICK n, target : n = loc.access /\ target = NewTarget(t, n)
    BY Zenon
  <2>2. /\ target = [f \in TargetFields |-> target[f]] /\ target.kind = "external"
        /\ target.via = n /\ target.uid = cache[n].uid /\ target.gen = cache[n].gen
    BY <2>1, Zenon DEF NewTarget, NoTarget, TargetFields
  <2>3. Selected(c, n, target) /\ Exists(n)
    BY <1>3, <1>5, <2>1, Zenon
  <2> QED BY <1>1, <1>3, <2>1, <2>2, <2>3, SelectedKeeps, Zenon
<1> QED BY <1>2, <1>4, <1>5, Zenon

\* Resolve of a Pod Access.
LEMMA ResolvePodKeeps ==
  ASSUME IInv, NEW c \in Conns, ResolvePod(c)
  PROVE  IInv'
<1>1. conn[c].pc = "resolve" /\ UNCHANGED cacheVars
  BY Zenon DEF ResolvePod
<1>2. PICK loc \in RequestedAccess(conn[c].user, conn[c].info) :
        /\ loc # NotProvided
        /\ \/ Rejected(c)
           \/ \E p, container :
                Selected(c, loc.access, PodTarget(p, container, container # NoWord, loc.access))
  BY Zenon DEF ResolvePod
<1>3. Exists(loc.access) /\ (conn[c].info.access # NoName => loc.access = conn[c].info.access)
  BY <1>2, Requested, Zenon
<1>4. CASE Rejected(c)
  BY <1>1, <1>4, RejectingKeeps, Zenon DEF Rejected
<1>5. CASE \E p, container :
              Selected(c, loc.access, PodTarget(p, container, container # NoWord, loc.access))
  <2>0. PICK p, container :
          Selected(c, loc.access, PodTarget(p, container, container # NoWord, loc.access))
    BY <1>5, Zenon
  <2>1. PICK n, target : n = loc.access /\ target = PodTarget(p, container, container # NoWord, n)
    BY Zenon
  <2>2. /\ target = [f \in TargetFields |-> target[f]] /\ target.kind = "pod"
        /\ target.via = n /\ target.container = container /\ target.explicit = (container # NoWord)
    BY <2>1, Zenon DEF PodTarget, NoTarget, TargetFields
  <2>3. Selected(c, n, target) /\ Exists(n)
    BY <1>3, <2>0, <2>1, Zenon
  <2>4. ~target.explicit => target.container = NoWord
    BY <2>2, Zenon
  <2> QED BY <1>1, <1>3, <2>1, <2>2, <2>3, <2>4, SelectedKeeps, Zenon
<1> QED BY <1>2, <1>4, <1>5, Zenon

\* A container within the limits is the default one unless the limits allow all.
LEMMA ContainerWithin ==
  ASSUME NEW p, NEW requested, NEW explicit, ~explicit => requested = NoWord,
         NEW d \in ResolveContainer(p, requested),
         ContainerAllowed(conf.limits.containers, explicit, d, DefaultContainer[p])
  PROVE  conf.limits.containers # "All" =>
           conf.limits.containers = "KubernetesDefault" /\ d = DefaultContainer[p]
<1>1. ~explicit => d = DefaultContainer[p]
  BY Zenon DEF ResolveContainer
<1> QED BY <1>1, Zenon DEF ContainerAllowed

\* Resolve has returned a target.
LEMMA PolicyKeeps ==
  ASSUME CacheInv, NEW s, ConnInv(s), s.pc \in {"resolve", "selected"},
         NEW t, Shape(t), t.pc = "policy",
         t.user = s.user, t.candidate = s.candidate, t.info = s.info, t.spec = s.spec,
         t.used = s.used, t.request = s.request, RevisionInv(t), t.read \in Nat, t.read <= changes,
         t.target.via # NoName =>
           /\ t.info.access # NoName => t.target.via = t.info.access
           /\ t.read = changes => Exists(t.target.via),
         t.target.via = NoName /\ t.info.access # NoName =>
           (t.read = changes => ~Exists(t.info.access)),
         t.target.kind = "pod" /\ conf.limits.containers # "All" =>
           conf.limits.containers = "KubernetesDefault"
           /\ t.target.container = DefaultContainer[t.target.id]
  PROVE  ConnInv(t)
<1>1. t.pc \notin {"idle", "selected", "open"} /\ s.pc \notin {"idle", "policy", "open"}
  BY Zenon
<1>2. StageInv(t)
  BY <1>1, Zenon DEF StageInv, ConnInv
<1>3. AccessInv(t)
  BY <1>1, Zenon DEF AccessInv, ConnInv
<1>4. LimitsInv(t)
  BY <1>1, Zenon DEF LimitsInv, ConnInv
<1> QED BY <1>2, <1>3, <1>4, Zenon DEF ConnInv

\* The rest of Resolve.
LEMMA ResolveReturnsKeeps ==
  ASSUME IInv, NEW c \in Conns, ResolveReturns(c)
  PROVE  IInv'
<1>1. PICK s : s = conn[c]
  BY Zenon
<1>2. CacheInv /\ ConnInv(s) /\ s.pc = "selected" /\ UNCHANGED cacheVars
  BY <1>1, Zenon DEF IInv, ResolveReturns
<1>3. CASE ReleaseRefused(c)
  <2>1. PICK held : Rejecting(c, held)
    BY <1>3, Zenon DEF ReleaseRefused
  <2> QED BY <1>1, <1>2, <2>1, RejectingKeeps, Zenon
<1>4. CASE ~ReleaseRefused(c)
  <2>1. PICK d : /\ Update(c, [s EXCEPT !.pc = "policy", !.target.container = d])
                 /\ s.target.kind # "external" =>
                      /\ d \in ResolveContainer(s.target.id, s.target.container)
                      /\ AccessContainerAllowed(s.spec, s.info.credential, s.target.id, d,
                                                s.target.explicit)
    BY <1>1, <1>4, Zenon DEF ResolveReturns
  <2>2. PICK t : t = [s EXCEPT !.pc = "policy", !.target.container = d]
    BY Zenon
  <2>3. PICK u : u = [s.target EXCEPT !.container = d]
    BY Zenon
  <2>4. /\ u.kind = s.target.kind /\ u.id = s.target.id /\ u.container = d /\ u.via = s.target.via
        /\ u.uid = s.target.uid /\ u.gen = s.target.gen /\ u = [f \in TargetFields |-> u[f]]
    BY <1>2, <2>3, Zenon DEF ConnInv, Shape, TargetFields
  <2>5. /\ t.pc = "policy" /\ t.user = s.user /\ t.candidate = s.candidate /\ t.info = s.info
        /\ t.spec = s.spec /\ t.used = s.used /\ t.request = s.request /\ t.read = s.read
        /\ t.target = u /\ t = [f \in Fields |-> t[f]]
    BY <1>2, <2>2, <2>3, Zenon DEF ConnInv, Shape, Fields
  <2>6. Shape(t)
    BY <2>4, <2>5, Zenon DEF Shape
  <2>7. RevisionInv(t)
    BY <1>2, <2>4, <2>5, Zenon DEF ConnInv, RevisionInv
  <2>8. t.target.kind = "pod" /\ conf.limits.containers # "All" =>
          conf.limits.containers = "KubernetesDefault"
          /\ t.target.container = DefaultContainer[t.target.id]
    <3>1. SUFFICES ASSUME s.target.kind = "pod"
                   PROVE  conf.limits.containers # "All" =>
                            conf.limits.containers = "KubernetesDefault"
                            /\ d = DefaultContainer[s.target.id]
      BY <2>4, <2>5, Zenon
    <3>2. /\ d \in ResolveContainer(s.target.id, s.target.container)
          /\ ContainerAllowed(conf.limits.containers, s.target.explicit, d,
                              DefaultContainer[s.target.id])
      BY <2>1, <3>1, Zenon DEF AccessContainerAllowed
    <3>3. ~s.target.explicit => s.target.container = NoWord
      BY <1>2, <3>1, Zenon DEF ConnInv, LimitsInv
    <3> QED BY <3>2, <3>3, ContainerWithin, Zenon
  <2>9. ConnInv(t)
    <3>1. /\ t.read \in Nat /\ t.read <= changes
          /\ t.target.via # NoName
          /\ t.info.access # NoName => t.target.via = t.info.access
          /\ t.read = changes => Exists(t.target.via)
      BY <1>2, <2>4, <2>5, Zenon DEF ConnInv, AccessInv
    <3> QED BY <1>2, <2>5, <2>6, <2>7, <2>8, <3>1, PolicyKeeps, Zenon
  <2> QED BY <1>1, <1>2, <2>1, <2>2, <2>9, UpdateKeeps, Zenon
<1> QED BY <1>3, <1>4, Zenon

\* A Pod named without an Access.
LEMMA ResolveDirectKeeps ==
  ASSUME IInv, NEW c \in Conns, ResolveDirect(c)
  PROVE  IInv'
<1>1. PICK s : s = conn[c]
  BY Zenon
<1>2. CacheInv /\ ConnInv(s) /\ s.pc = "resolve" /\ UNCHANGED cacheVars
  BY <1>1, Zenon DEF IInv, ResolveDirect
<1>3. s.info.access # NoName => ~Exists(s.info.access)
  <2>1. NotProvided \in RequestedAccess(s.user, s.info)
    BY <1>1, Zenon DEF ResolveDirect
  <2> QED BY <2>1, Requested, Zenon
<1>4. CASE Rejected(c)
  BY <1>1, <1>2, <1>4, RejectingKeeps, Zenon DEF Rejected
<1>5. CASE ~Rejected(c)
  <2>1. PICK refs : \E u \in BindTargets(refs) :
          Update(c, [s EXCEPT !.pc = "policy", !.target = u, !.read = changes])
    BY <1>1, <1>5, Zenon DEF ResolveDirect
  <2>2. PICK u \in BindTargets(refs) :
          Update(c, [s EXCEPT !.pc = "policy", !.target = u, !.read = changes])
    BY <2>1, Zenon
  <2>3. PICK p, requested, d : /\ d \in BindContainers(p, requested)
                               /\ u = PodTarget(p, d, requested # NoWord, NoName)
    <3>1. PICK ref : u \in {PodTarget(ref[1], d, ref[2] # NoWord, NoName) :
                               d \in BindContainers(ref[1], ref[2])}
      BY <2>2, Zenon DEF BindTargets
    <3>2. PICK d \in BindContainers(ref[1], ref[2]) : u = PodTarget(ref[1], d, ref[2] # NoWord, NoName)
      BY <3>1, Zenon
    <3> QED BY <3>2
  <2>4. /\ u.kind = "pod" /\ u.id = p /\ u.container = d /\ u.via = NoName
        /\ u = [f \in TargetFields |-> u[f]]
    BY <2>3, Zenon DEF PodTarget, NoTarget, TargetFields
  <2>5. PICK t : t = [s EXCEPT !.pc = "policy", !.target = u, !.read = changes]
    BY Zenon
  <2>6. /\ t.pc = "policy" /\ t.user = s.user /\ t.candidate = s.candidate /\ t.info = s.info
        /\ t.spec = s.spec /\ t.used = s.used /\ t.request = s.request /\ t.read = changes
        /\ t.target = u /\ t = [f \in Fields |-> t[f]]
    BY <1>2, <2>5, Zenon DEF ConnInv, Shape, Fields
  <2>7. Shape(t)
    BY <2>4, <2>6, Zenon DEF Shape
  <2>8. RevisionInv(t)
    BY <2>4, <2>6, Zenon DEF RevisionInv
  <2>9. conf.limits.containers # "All" =>
          conf.limits.containers = "KubernetesDefault"
          /\ t.target.container = DefaultContainer[t.target.id]
    <3>1. /\ d \in ResolveContainer(p, requested)
          /\ ContainerAllowed(conf.limits.containers, requested # NoWord, d, DefaultContainer[p])
      BY <2>3, Zenon DEF BindContainers
    <3>2. PICK explicit : explicit = (requested # NoWord)
      BY Zenon
    <3>3. ~explicit => requested = NoWord
      BY <3>2, Zenon
    <3>4. ContainerAllowed(conf.limits.containers, explicit, d, DefaultContainer[p])
      BY <3>1, <3>2, Zenon
    <3>5. conf.limits.containers # "All" =>
            conf.limits.containers = "KubernetesDefault" /\ d = DefaultContainer[p]
      BY <3>1, <3>3, <3>4, ContainerWithin, Zenon
    <3> QED BY <2>4, <2>6, <3>5, Zenon
  <2>10. ConnInv(t)
    <3>1. changes \in Nat /\ changes <= changes
      BY <1>2 DEF CacheInv
    <3> QED BY <1>2, <1>3, <2>4, <2>6, <2>7, <2>8, <2>9, <3>1, PolicyKeeps, Zenon
  <2> QED BY <1>1, <1>2, <2>2, <2>5, <2>10, UpdateKeeps, Zenon
<1> QED BY <1>4, <1>5, Zenon

\* The session policy is that of the Access of the identity, which exists now, or else of the
\* Access the whole user name means, if there is one.
LEMMA SessionPolicyOf ==
  ASSUME CacheInv, NEW user, NEW info, NEW n \in SessionPolicyAccess(user, info),
         NEW session, session = AccessSessionPolicy(n)
  PROVE  /\ session.access = n /\ session.read = changes /\ session.shell \in Shells
         /\ info.access # NoName => n = info.access /\ Exists(n)
         /\ info.access = NoName => \A via : user = [name |-> via, pod |-> NoName] /\ Exists(via) => n = via
<1>2. session.access = n /\ session.read = changes
  BY Zenon DEF AccessSessionPolicy
<1>3. info.access # NoName => n = info.access /\ Exists(n)
  BY Zenon DEF SessionPolicyAccess
<1>4. ASSUME info.access = NoName, NEW via, user = [name |-> via, pod |-> NoName], Exists(via)
      PROVE  n = via
  <2>1. user.name = via /\ user.pod = NoName
    BY <1>4, Zenon
  <2> QED BY <1>4, <2>1, Zenon DEF SessionPolicyAccess
<1>5. n # NoName => Exists(n)
  BY <1>3, Zenon DEF SessionPolicyAccess
<1>6. session.shell \in Shells
  <2>1. CASE n # NoName /\ cache[n].spec.shell # NoWord
    <3>1. session.shell = cache[n].spec.shell
      BY <2>1, Zenon DEF AccessSessionPolicy
    <3>2. n \in Names /\ cache[n].spec \in Specs[n]
      BY <1>5, <2>1, Zenon DEF CacheInv, Exists
    <3> QED BY <3>1, <3>2, Zenon DEF Shells
  <2>2. CASE ~(n # NoName /\ cache[n].spec.shell # NoWord)
    <3>1. session.shell = conf.defaults.shell
      BY <2>2, Zenon DEF AccessSessionPolicy
    <3> QED BY <3>1, Zenon DEF Shells, CacheInv
  <2> QED BY <2>1, <2>2, Zenon
<1> QED BY <1>2, <1>3, <1>4, <1>6, Zenon

\* The session policy is read and the connection published.
LEMMA ResolveSessionPolicyKeeps ==
  ASSUME IInv, NEW c \in Conns, ResolveSessionPolicy(c)
  PROVE  IInv'
<1>1. PICK s : s = conn[c]
  BY Zenon
<1>2. CacheInv /\ ConnInv(s) /\ s.pc = "policy" /\ UNCHANGED cacheVars
  BY <1>1, Zenon DEF IInv, ResolveSessionPolicy
<1>3. CASE Rejected(c)
  BY <1>1, <1>2, <1>3, RejectingKeeps, Zenon DEF Rejected
<1>4. CASE ~Rejected(c)
  <2>1. PICK n, session :
          /\ n \in SessionPolicyAccess(s.user, s.info)
          /\ session = AccessSessionPolicy(n) /\ MatchAny(conf.limits.shells, session.shell)
          /\ Published(c, session)
    BY <1>1, <1>4, Zenon DEF ResolveSessionPolicy
  <2>2. /\ session.access = n /\ session.read = changes /\ session.shell \in Shells
        /\ s.info.access # NoName => n = s.info.access /\ Exists(n)
        /\ s.info.access = NoName =>
             \A via : s.user = [name |-> via, pod |-> NoName] /\ Exists(via) => n = via
    BY <1>2, <2>1, SessionPolicyOf
  <2>3. PICK t : t = [s EXCEPT !.pc = "open", !.session = session, !.candidate = NoInfo, !.key = ""]
    BY Zenon
  <2>4. /\ t.pc = "open" /\ t.user = s.user /\ t.candidate = NoInfo /\ t.info = s.info
        /\ t.spec = s.spec /\ t.used = s.used /\ t.request = s.request /\ t.read = s.read
        /\ t.target = s.target /\ t.session = session /\ t = [f \in Fields |-> t[f]]
    BY <1>2, <2>3, Zenon DEF ConnInv, Shape, Fields
  <2>5. Shape(t) /\ StageInv(t) /\ RevisionInv(t)
    BY <1>2, <2>4, Zenon DEF ConnInv, Shape, StageInv, RevisionInv
  <2>6. LimitsInv(t)
    BY <1>2, <2>1, <2>2, <2>4, Zenon DEF ConnInv, LimitsInv
  <2>7. /\ t.info.access # NoName =>
             /\ session.access = t.info.access
             /\ t.target.via = t.info.access \/ (t.target.via = NoName /\ t.read # session.read)
    BY <1>2, <2>2, <2>4, Zenon DEF ConnInv, AccessInv
  <2>8. t.target.via # NoName /\ session.access # t.target.via =>
          t.user # [name |-> t.target.via, pod |-> NoName] \/ t.read # session.read
    <3>1. SUFFICES ASSUME s.target.via # NoName, n # s.target.via, s.read = changes,
                          s.user = [name |-> s.target.via, pod |-> NoName]
                   PROVE  FALSE
      BY <2>2, <2>4, Zenon
    <3>2. Exists(s.target.via)
      BY <1>2, <3>1, Zenon DEF ConnInv, AccessInv
    <3>3. s.info.access # NoName => n = s.target.via
      BY <1>2, <2>2, <3>1, Zenon DEF ConnInv, AccessInv
    <3> QED BY <2>2, <3>1, <3>2, <3>3, Zenon
  <2>9. AccessInv(t)
    BY <1>2, <2>4, <2>7, <2>8, UnusedIs, Zenon DEF ConnInv, AccessInv
  <2>10. ConnInv(t)
    BY <2>5, <2>6, <2>9, Zenon DEF ConnInv
  <2>11. Update(c, t)
    BY <1>1, <2>1, <2>3, Zenon DEF Published
  <2> QED BY <1>2, <2>10, <2>11, UpdateKeeps, Zenon
<1> QED BY <1>3, <1>4, Zenon

-----------------------------------------------------------------------------
(* Operations                                                                *)

\* The chain allows only what the limits and, for an identity bound to an Access, that
\* Access allow: an authorizer in front of the others cannot be overruled.
LEMMA AllowedBy ==
  ASSUME NEW c, NEW request, NEW further \in Seq(WebhookDecisions), Len(further) <= 2,
         Authorize(c, request, further) = "Allow"
  PROVE  /\ WithinPolicy(conf.limits, request)
         /\ conn[c].info.access # NoName => AccessAuthorize(c, request) = "Allow"
<1>1. PICK limits : limits = PolicyLimits(conf.limits, FALSE, conn[c].info, request)
  BY Zenon
<1>2. PICK defaults : defaults = PolicyLimits(conf.defaults, TRUE, conn[c].info, request)
  BY Zenon
<1>3. PICK access : access = AccessAuthorize(c, request)
  BY Zenon
<1>4. PICK ds : ds = <<limits, defaults, access>> \o further
  BY Zenon
<1>5. /\ DOMAIN ds = 1..(3 + Len(further)) /\ Len(further) \in Nat
      /\ 3 + Len(further) <= 5 /\ ds[1] = limits /\ ds[2] = defaults /\ ds[3] = access
  BY <1>4
<1>6. PICK decisive : decisive = {i \in DOMAIN ds : ds[i] # "NoOpinion"}
  BY Zenon
<1>7. FirstDecision(ds) = IF decisive = {} THEN "NoOpinion" ELSE ds[Min(decisive)]
  BY <1>6, Zenon DEF FirstDecision
<1>8. FirstDecision(ds) = "Allow"
  BY <1>1, <1>2, <1>3, <1>4, Zenon DEF Authorize
<1>9. decisive # {} /\ ds[Min(decisive)] = "Allow"
  BY <1>7, <1>8
<1>10. decisive \subseteq DOMAIN ds /\ 1 \in DOMAIN ds /\ 3 \in DOMAIN ds /\ DOMAIN ds \subseteq 1..5
  BY <1>5, <1>6
<1>11. /\ Min(decisive) \in 1..5 /\ (1 \in decisive => Min(decisive) <= 1)
       /\ (3 \in decisive => Min(decisive) <= 3)
  <2>1. decisive \in SUBSET (1..5)
    BY <1>10, Zenon
  <2> QED BY <1>9, <1>10, <2>1, MinIn, Zenon
<1>12. limits # "Allow" /\ defaults # "Allow"
  BY <1>1, <1>2, Zenon DEF PolicyLimits
<1>13. limits = "NoOpinion"
  <2>1. SUFFICES ASSUME 1 \in decisive PROVE FALSE
    BY <1>5, <1>6, <1>10, Zenon
  <2>2. Min(decisive) = 1
    BY <1>11, <2>1
  <2> QED BY <1>5, <1>9, <1>12, <2>2, Zenon
<1>14. WithinPolicy(conf.limits, request)
  BY <1>1, <1>13, Zenon DEF PolicyLimits
<1>15. ASSUME conn[c].info.access # NoName PROVE access = "Allow"
  <2>1. access # "NoOpinion"
    BY <1>3, <1>15, Zenon DEF AccessAuthorize
  <2>2. 3 \in decisive
    BY <1>5, <1>6, <1>10, <2>1, Zenon
  <2>3. Min(decisive) = 1 \/ Min(decisive) = 2 \/ Min(decisive) = 3
    BY <1>11, <2>2
  <2> QED BY <1>5, <1>9, <1>12, <2>3, Zenon
<1> QED BY <1>3, <1>14, <1>15, Zenon

\* The answers of the authorizers after the Access's are a sequence of decisions.
LEMMA FurtherIs ==
  ASSUME NEW target, NEW request, NEW further \in FurtherAuthorizers(target, request)
  PROVE  further \in Seq(WebhookDecisions) /\ Len(further) <= 2
<1>1. SARAnswers(target, request) \subseteq WebhookDecisions /\ "Allow" \in WebhookDecisions
  BY Zenon DEF SARAnswers, WebhookDecisions
<1>2. \/ further = <<>> \/ \E a \in WebhookDecisions : further = <<a>>
      \/ further \in WebhookDecisions \X WebhookDecisions
  <2>1. CASE conf.authz = "webhook+sar"
    BY <1>1, <2>1 DEF FurtherAuthorizers
  <2>2. CASE conf.authz # "webhook+sar"
    BY <1>1, <2>2 DEF FurtherAuthorizers
  <2> QED BY <2>1, <2>2, Zenon
<1>3. ASSUME further \in WebhookDecisions \X WebhookDecisions
      PROVE  further \in Seq(WebhookDecisions) /\ Len(further) <= 2
  <2>1. PICK a \in WebhookDecisions, b \in WebhookDecisions : further = <<a, b>>
    BY <1>3
  <2> QED BY <2>1
<1>4. /\ << >> \in Seq(WebhookDecisions) /\ Len(<< >>) <= 2
      /\ \A a \in WebhookDecisions : <<a>> \in Seq(WebhookDecisions) /\ Len(<<a>>) <= 2
  OBVIOUS
<1> QED BY <1>2, <1>3, <1>4, Zenon

\* What an operation that begins has been allowed by.
LEMMA BeginAllowed ==
  ASSUME NEW c, NEW request, BeginOperation(c, request)
  PROVE  /\ WithinPolicy(conf.limits, request)
         /\ conn[c].info.access # NoName => AccessAuthorize(c, request) = "Allow"
<1>1. PICK further \in FurtherAuthorizers(conn[c].target, request) :
        Authorize(c, request, further) = "Allow"
  BY Zenon DEF BeginOperation
<1>2. further \in Seq(WebhookDecisions) /\ Len(further) <= 2
  BY FurtherIs, Zenon
<1> QED BY <1>1, <1>2, AllowedBy, Zenon

\* A step that changes only what the invariant says nothing of, and the operation.
LEMMA ServeKeeps ==
  ASSUME IInv, NEW c \in Conns, conn[c].pc # "idle", UNCHANGED cacheVars,
         NEW t, Update(c, t), Shape(t),
         \A f \in Fields \ {"used", "request", "held", "ctx"} : t[f] = conn[c][f],
         t.used = conn[c].used \/ (t.pc = "open" /\ t.used = conn[c].spec),
         t.request = conn[c].request \/ (t.request # NoRequest => WithinPolicy(conf.limits, t.request))
  PROVE  IInv'
<1>1. PICK s : s = conn[c]
  BY Zenon
<1>2. ConnInv(s)
  BY <1>1, Zenon DEF IInv
<1>3. /\ t.pc = s.pc /\ t.user = s.user /\ t.candidate = s.candidate /\ t.info = s.info
      /\ t.target = s.target /\ t.spec = s.spec /\ t.read = s.read /\ t.session = s.session
  BY <1>1, Zenon DEF Fields
<1>4. StageInv(t)
  BY <1>1, <1>2, <1>3, Zenon DEF ConnInv, StageInv
<1>5. RevisionInv(t)
  BY <1>2, <1>3, Zenon DEF ConnInv, RevisionInv
<1>6. AccessInv(t)
  BY <1>2, <1>3, Zenon DEF ConnInv, AccessInv
<1>7. LimitsInv(t)
  BY <1>1, <1>2, <1>3, Zenon DEF ConnInv, LimitsInv
<1>8. ConnInv(t)
  BY <1>4, <1>5, <1>6, <1>7, Zenon DEF ConnInv
<1> QED BY <1>8, UpdateKeeps, Zenon

\* An operation begins, ends or fails.
LEMMA OperationKeeps ==
  ASSUME IInv, NEW c \in Conns,
         \/ \E request \in Requests : BeginOperation(c, request)
         \/ EndOperation(c) \/ ConnectFails(c)
  PROVE  IInv'
<1>1. ConnInv(conn[c]) /\ UNCHANGED cacheVars
  BY Zenon DEF IInv, BeginOperation, EndOperation, ConnectFails
<1>2. PICK request : /\ Update(c, [conn[c] EXCEPT !.request = request])
                     /\ request # NoRequest => WithinPolicy(conf.limits, request)
  <2>1. ASSUME NEW request, BeginOperation(c, request)
        PROVE  /\ Update(c, [conn[c] EXCEPT !.request = request])
               /\ WithinPolicy(conf.limits, request)
    BY <2>1, BeginAllowed, Zenon DEF BeginOperation
  <2> QED BY <2>1, Zenon DEF EndOperation, ConnectFails
<1>3. conn[c].pc # "idle"
  <2>1. conn[c].pc = "open" \/ conn[c].request # NoRequest
    BY Zenon DEF BeginOperation, EndOperation, ConnectFails, Live
  <2> QED BY <1>1, <2>1, UnusedIs, Zenon DEF ConnInv, StageInv
<1>4. PICK t : t = [conn[c] EXCEPT !.request = request]
  BY Zenon
<1>5. /\ t.request = request /\ t.used = conn[c].used /\ t.target = conn[c].target
      /\ t = [f \in Fields |-> t[f]]
      /\ \A f \in Fields \ {"used", "request", "held", "ctx"} : t[f] = conn[c][f]
  BY <1>1, <1>4, Zenon DEF ConnInv, Shape, Fields
<1>6. Shape(t) /\ Update(c, t)
  BY <1>1, <1>2, <1>4, <1>5, Zenon DEF ConnInv, Shape
<1> QED BY <1>1, <1>2, <1>3, <1>5, <1>6, ServeKeeps, Zenon

\* The External connector reads the Access.
LEMMA ConnectKeeps ==
  ASSUME IInv, NEW c \in Conns, Connect(c)
  PROVE  IInv'
<1>1. PICK s : s = conn[c]
  BY Zenon
<1>2. /\ ConnInv(s) /\ UNCHANGED cacheVars /\ CacheInv
      /\ s.pc = "open" /\ s.target.kind = "external"
      /\ Exists(s.target.via) /\ SameRevision(s.target, cache[s.target.via])
      /\ Update(c, [s EXCEPT !.used = cache[s.target.via].spec])
  BY <1>1, Zenon DEF IInv, Connect, Live
<1>3. PICK a : a = cache[s.target.via]
  BY Zenon
<1>4. a.spec = s.spec
  <2>1. s.target.via \in Names /\ a # Absent /\ a.uid = s.target.uid /\ a.gen = s.target.gen
    BY <1>2, <1>3, Zenon DEF Exists, SameRevision
  <2>2. a.uid \in Nat /\ a.gen \in Nat
    BY <1>2, <1>3, <2>1, Zenon DEF CacheInv
  <2>3. a.uid > s.target.uid \/ a.gen > s.target.gen \/ a.spec = s.spec
    BY <1>2, <1>3, <2>1, Zenon DEF ConnInv, RevisionInv
  <2>4. ~(a.uid > s.target.uid) /\ ~(a.gen > s.target.gen)
    BY <2>1, <2>2
  <2> QED BY <2>3, <2>4, Zenon
<1>5. PICK t : t = [s EXCEPT !.used = a.spec]
  BY Zenon
<1>6. /\ t.used = s.spec /\ t.request = s.request /\ t.target = s.target /\ t.pc = "open"
      /\ t = [f \in Fields |-> t[f]]
      /\ \A f \in Fields \ {"used", "request", "held", "ctx"} : t[f] = s[f]
  BY <1>2, <1>4, <1>5, Zenon DEF ConnInv, Shape, Fields
<1>7. Shape(t) /\ Update(c, t)
  BY <1>2, <1>3, <1>5, <1>6, Zenon DEF ConnInv, Shape
<1>8. s.pc # "idle"
  BY <1>2, Zenon
<1> QED BY <1>1, <1>2, <1>6, <1>7, <1>8, ServeKeeps, Zenon

\* The connection ends, and what it holds is given back.
LEMMA EndKeeps ==
  ASSUME IInv, NEW c \in Conns, ConnectionEnds(c) \/ AfterFunc(c)
  PROVE  IInv'
<1>1. ConnInv(conn[c]) /\ UNCHANGED cacheVars
  BY Zenon DEF IInv, ConnectionEnds, AfterFunc
<1>2. conn[c].pc # "idle"
  BY <1>1, UnusedIs, Zenon DEF ConnectionEnds, AfterFunc, ConnInv, StageInv
<1>3. PICK t : /\ Update(c, t)
               /\ \/ t = [conn[c] EXCEPT !.ctx = FALSE]
                  \/ t = [conn[c] EXCEPT !.held = Tail(@)]
  BY Zenon DEF ConnectionEnds, AfterFunc
<1>4. /\ t.request = conn[c].request /\ t.used = conn[c].used /\ t.target = conn[c].target
      /\ t = [f \in Fields |-> t[f]]
      /\ \A f \in Fields \ {"used", "request", "held", "ctx"} : t[f] = conn[c][f]
  BY <1>1, <1>3, Zenon DEF ConnInv, Shape, Fields
<1>5. Shape(t)
  BY <1>1, <1>4, Zenon DEF ConnInv, Shape
<1> QED BY <1>1, <1>2, <1>3, <1>4, <1>5, ServeKeeps, Zenon

-----------------------------------------------------------------------------
(* Events                                                                    *)

\* An event makes every earlier read stale, and gives no Access a revision it had before.
LEMMA EventKeeps ==
  ASSUME IInv, UNCHANGED <<conf, conn>>, changes' = changes + 1, CacheInv',
         \A n \in Names :
           \/ cache'[n] = cache[n]
           \/ cache'[n] = Absent
           \/ cache'[n].uid = changes + 2
           \/ cache[n] # Absent /\ cache'[n].uid = cache[n].uid /\ cache'[n].gen = cache[n].gen + 1
  PROVE  IInv'
<1>1. CacheInv /\ conf' = conf /\ conn' = conn
  BY Zenon DEF IInv
<1>2. ASSUME NEW s, ConnInv(s) PROVE ConnInv(s)'
  <2>1. s.read \in Nat /\ s.read <= changes /\ changes \in Nat
    BY <1>1, <1>2, Zenon DEF ConnInv, AccessInv, CacheInv
  <2>2. s.read <= changes' /\ s.read # changes'
    BY <2>1
  <2>3. AccessInv(s)'
    BY <1>2, <2>1, <2>2, Zenon DEF ConnInv, AccessInv
  <2>4. LimitsInv(s)'
    BY <1>1, <1>2, Zenon DEF ConnInv, LimitsInv
  <2>5. RevisionInv(s)'
    <3>1. SUFFICES ASSUME s.target.kind = "external" PROVE RevisionInv(s)'
      BY Zenon DEF RevisionInv
    <3>2. PICK t, n : t = s.target /\ n = t.via
      BY Zenon
    <3>3. n \in Names /\ t.uid \in Nat /\ t.gen \in Nat /\ t.uid <= changes + 1
      BY <1>2, <3>1, <3>2, Zenon DEF ConnInv, RevisionInv
    <3>4. t.uid <= changes' + 1
      BY <2>1, <3>3
    <3>5. PICK a, b : a = cache[n] /\ b = cache'[n]
      BY Zenon
    <3>6. a # Absent => \/ a.uid > t.uid
                        \/ a.uid = t.uid /\ a.gen > t.gen
                        \/ a.uid = t.uid /\ a.gen = t.gen /\ a.spec = s.spec
      BY <1>2, <3>1, <3>2, <3>5, Zenon DEF ConnInv, RevisionInv
    <3>7. a # Absent => a.uid \in Nat /\ a.gen \in Nat
      BY <1>1, <3>3, <3>5, Zenon DEF CacheInv
    <3>8. b # Absent => \/ b.uid > t.uid
                        \/ b.uid = t.uid /\ b.gen > t.gen
                        \/ b.uid = t.uid /\ b.gen = t.gen /\ b.spec = s.spec
      <4>1. CASE b = a
        BY <3>6, <4>1, Zenon
      <4>2. CASE b.uid = changes + 2
        BY <2>1, <3>3, <4>2
      <4>3. CASE a # Absent /\ b.uid = a.uid /\ b.gen = a.gen + 1
        BY <3>3, <3>6, <3>7, <4>3
      <4> QED BY <3>3, <3>5, <4>1, <4>2, <4>3, Zenon
    <3> QED BY <3>2, <3>3, <3>4, <3>5, <3>8, Zenon DEF RevisionInv
  <2> QED BY <1>2, <2>3, <2>4, <2>5, Zenon DEF ConnInv, Shape, StageInv
<1>3. ASSUME NEW c \in Conns PROVE ConnInv(conn[c])'
  <2>1. PICK s : s = conn[c] /\ s = conn'[c]
    BY <1>1, Zenon
  <2>2. ConnInv(s)'
    BY <1>2, <2>1, Zenon DEF IInv
  <2> QED BY <2>1, <2>2, Zenon
<1> QED BY <1>1, <1>3, Zenon DEF IInv

\* An Access is created, deleted or edited.
LEMMA AccessEventKeeps ==
  ASSUME IInv, NEW n \in Names, AccessEvent(n)
  PROVE  IInv'
<1>1. /\ CacheInv /\ changes \in Nat /\ changes' = changes + 1 /\ changes' \in Nat
      /\ conf' = conf /\ secret' = secret
  <2>1. /\ CacheInv /\ changes \in Nat /\ changes' = changes + 1
        /\ conf' = conf /\ secret' = secret
    BY Zenon DEF IInv, CacheInv, AccessEvent, Changed
  <2> QED BY <2>1
<1>2. PICK a : /\ cache' = [cache EXCEPT ![n] = a]
               /\ \/ \E s \in Specs[n] : a = [uid |-> changes + 2, gen |-> 1, spec |-> s]
                  \/ a = Absent
                  \/ /\ cache[n] # Absent
                     /\ \E s \in Specs[n] : a = [uid |-> cache[n].uid, gen |-> cache[n].gen + 1, spec |-> s]
  BY Zenon DEF AccessEvent
<1>3. /\ cache' = [m \in Names |-> cache'[m]] /\ cache'[n] = a
      /\ \A m \in Names \ {n} : cache'[m] = cache[m]
  BY <1>1, <1>2, Zenon DEF CacheInv
<1>4. /\ a # Absent => /\ a = [uid |-> a.uid, gen |-> a.gen, spec |-> a.spec]
                       /\ a.uid \in Nat /\ a.uid <= changes' + 1 /\ a.gen \in Nat
                       /\ a.spec \in Specs[n]
      /\ \/ a = Absent \/ a.uid = changes + 2
         \/ cache[n] # Absent /\ a.uid = cache[n].uid /\ a.gen = cache[n].gen + 1
  <2>1. CASE \E s \in Specs[n] : a = [uid |-> changes + 2, gen |-> 1, spec |-> s]
    BY <1>1, <2>1
  <2>2. CASE a = Absent
    BY <2>2, Zenon
  <2>3. CASE /\ cache[n] # Absent
             /\ \E s \in Specs[n] : a = [uid |-> cache[n].uid, gen |-> cache[n].gen + 1, spec |-> s]
    <3>1. PICK s \in Specs[n] : a = [uid |-> cache[n].uid, gen |-> cache[n].gen + 1, spec |-> s]
      BY <2>3, Zenon
    <3>2. cache[n].uid \in Nat /\ cache[n].uid <= changes + 1 /\ cache[n].gen \in Nat
      BY <1>1, <2>3, Zenon DEF CacheInv
    <3>3. PICK uid, gen : uid = cache[n].uid /\ gen = cache[n].gen
      BY Zenon
    <3>4. a.uid = uid /\ a.gen = gen + 1 /\ a.spec = s
      BY <3>1, <3>3
    <3>5. a.uid \in Nat /\ a.uid <= changes' + 1 /\ a.gen \in Nat
      BY <1>1, <3>2, <3>3, <3>4
    <3> QED BY <2>3, <3>1, <3>3, <3>4, <3>5, Zenon
  <2> QED BY <1>2, <2>1, <2>2, <2>3, Zenon
<1>5. CacheInv'
  <2>1. ASSUME NEW m \in Names, cache'[m] # Absent
        PROVE  /\ cache'[m] = [uid |-> cache'[m].uid, gen |-> cache'[m].gen, spec |-> cache'[m].spec]
               /\ cache'[m].uid \in Nat /\ cache'[m].uid <= changes' + 1 /\ cache'[m].gen \in Nat
               /\ cache'[m].spec \in Specs[m]
    <3>1. CASE m = n
      BY <1>3, <1>4, <2>1, <3>1, Zenon
    <3>2. CASE m # n
      <4>1. PICK b : b = cache[m] /\ b = cache'[m]
        BY <1>3, <3>2, Zenon
      <4>2. /\ b = [uid |-> b.uid, gen |-> b.gen, spec |-> b.spec]
            /\ b.uid \in Nat /\ b.uid <= changes + 1 /\ b.gen \in Nat /\ b.spec \in Specs[m]
        BY <1>1, <2>1, <4>1, Zenon DEF CacheInv
      <4>3. b.uid <= changes' + 1
        BY <1>1, <4>2
      <4> QED BY <4>1, <4>2, <4>3, Zenon
    <3> QED BY <3>1, <3>2, Zenon
  <2> QED BY <1>1, <1>3, <2>1, Zenon DEF CacheInv
<1>6. UNCHANGED <<conf, conn>>
  BY Zenon DEF AccessEvent
<1> QED BY <1>1, <1>3, <1>4, <1>5, <1>6, EventKeeps, Zenon

\* The Secret or a Pod changes.
LEMMA OtherEventKeeps ==
  ASSUME IInv, SecretEvent \/ PodEvent
  PROVE  IInv'
<1>1. /\ CacheInv /\ changes \in Nat /\ changes' = changes + 1 /\ changes' \in Nat
      /\ conf' = conf /\ cache' = cache /\ secret' \in SecretStates \cup {InitialSecret}
  BY DEF IInv, CacheInv, SecretEvent, PodEvent, Changed
<1>2. \A u \in Nat : u <= changes + 1 => u <= changes' + 1
  BY <1>1
<1>3. CacheInv'
  BY <1>1, <1>2, Zenon DEF CacheInv
<1>4. UNCHANGED <<conf, conn>>
  BY Zenon DEF SecretEvent, PodEvent
<1> QED BY <1>1, <1>3, <1>4, EventKeeps, Zenon

-----------------------------------------------------------------------------
(* Theorems                                                                  *)

\* The invariant holds at first.
LEMMA InitInv == Init => IInv
<1>1. SUFFICES ASSUME Init PROVE IInv
  OBVIOUS
<1>2. CacheInv
  <2>1. PICK specs : /\ \A n \in Names : specs[n] \in InitialSpecs[n]
                     /\ cache = [n \in Names |-> IF specs[n] = NoSpec THEN Absent
                                                 ELSE [uid |-> 1, gen |-> 1, spec |-> specs[n]]]
    BY <1>1, Zenon DEF Init
  <2>2. conf \in Configs /\ changes = 0 /\ secret = InitialSecret
    BY <1>1, Zenon DEF Init
  <2>3. ASSUME NEW n \in Names, cache[n] # Absent
        PROVE  /\ cache[n] = [uid |-> cache[n].uid, gen |-> cache[n].gen, spec |-> cache[n].spec]
               /\ cache[n].uid \in Nat /\ cache[n].uid <= changes + 1 /\ cache[n].gen \in Nat
               /\ cache[n].spec \in Specs[n]
    <3>1. specs[n] # NoSpec /\ cache[n] = [uid |-> 1, gen |-> 1, spec |-> specs[n]]
      BY <2>1, <2>3, Zenon
    <3>2. specs[n] \in Specs[n]
      BY <2>1, <3>1, SpecsAssumption, Zenon
    <3> QED BY <2>2, <3>1, <3>2
  <2>4. cache = [n \in Names |-> cache[n]]
    BY <2>1, Zenon
  <2> QED BY <2>2, <2>3, <2>4 DEF CacheInv
<1>3. conn = [c \in Conns |-> Unused]
  BY <1>1, Zenon DEF Init
<1>4. ConnInv(Unused)
  <2>1. NoTarget.kind = "none" /\ NoTarget.via = NoName
    BY Zenon DEF NoTarget
  <2>2. StageInv(Unused) /\ RevisionInv(Unused) /\ LimitsInv(Unused)
    BY <2>1, UnusedIs, Zenon DEF StageInv, RevisionInv, LimitsInv
  <2>3. Unused.read \in Nat /\ Unused.read <= changes
    BY <1>2, UnusedIs DEF CacheInv
  <2>4. AccessInv(Unused)
    BY <2>1, <2>3, UnusedIs, Zenon DEF AccessInv
  <2> QED BY <2>2, <2>4, UnusedIs, Zenon DEF ConnInv
<1> QED BY <1>2, <1>3, <1>4, Zenon DEF IInv

\* Every step keeps the invariant.
LEMMA NextKeeps == IInv /\ [Next]_vars => IInv'
<1>1. SUFFICES ASSUME IInv, [Next]_vars PROVE IInv'
  OBVIOUS
<1>2. CASE UNCHANGED vars
  <2>1. /\ conf' = conf /\ cache' = cache /\ changes' = changes /\ secret' = secret
        /\ conn' = conn
    BY <1>2, Zenon DEF vars, cacheVars
  <2>4. CacheInv'
    BY <1>1, <2>1, Zenon DEF IInv, CacheInv
  <2>5. ASSUME NEW c \in Conns PROVE ConnInv(conn[c])'
    <3>1. PICK s : s = conn[c] /\ s = conn'[c]
      BY <2>1, Zenon
    <3>2. ConnInv(s)'
      BY <1>1, <2>1, <3>1, SameCaches, Zenon DEF IInv
    <3> QED BY <3>1, <3>2, Zenon
  <2> QED BY <1>1, <2>1, <2>4, <2>5, Zenon DEF IInv
<1>3. ASSUME NEW n \in Names, AccessEvent(n) PROVE IInv'
  BY <1>1, <1>3, AccessEventKeeps, Zenon
<1>4. CASE SecretEvent \/ PodEvent
  BY <1>1, <1>4, OtherEventKeeps, Zenon
<1>5. ASSUME NEW c \in Conns, Login(c) PROVE IInv'
  BY <1>1, <1>5, AcceptKeeps, NoClientAuthKeeps, PublicKeyCallbackKeeps, AuthenticatedKeeps,
     ResolveExternalKeeps, ResolvePodKeeps, ResolveReturnsKeeps, ResolveDirectKeeps,
     ResolveSessionPolicyKeeps, Zenon DEF Login
<1>6. ASSUME NEW c \in Conns, Serve(c) PROVE IInv'
  BY <1>1, <1>6, OperationKeeps, ConnectKeeps, EndKeeps, Zenon DEF Serve
<1> QED BY <1>1, <1>2, <1>3, <1>4, <1>5, <1>6, Zenon DEF Next

\* The inductive invariant holds in every reachable state.
THEOREM InductiveInvariant == Spec => []IInv
  BY InitInv, NextKeeps, PTL DEF Spec

\* Connector.Connect only ever uses the spec the connection's target was selected from: the
\* uid and the generation bound by NewTarget tell every later spec of the Access apart, also
\* that of an Access deleted and created again.
THEOREM ResolvedSpecConnected == Spec => []ConnectsResolvedSpec
<1>1. IInv => ConnectsResolvedSpec
  BY Zenon DEF IInv, ConnInv, StageInv, ConnectsResolvedSpec
<1> QED BY <1>1, InductiveInvariant, PTL

\* What is authenticated, resolved and governed is one Access, whatever happens to the
\* Accesses between the reads of the authenticator, the resolver and the session policy, but
\* for the changes that OneAccess names.
THEOREM OneAccessThroughout == Spec => []OneAccess
<1>1. ASSUME IInv, NEW c \in Conns, NEW s, s = conn[c]
      PROVE  /\ s.pc = "resolve" => RequestedAccess(s.user, s.info) # {}
             /\ s.pc = "open" /\ s.info.access # NoName =>
                  /\ s.session.access = s.info.access
                  /\ s.target.via = s.info.access \/ (s.target.via = NoName /\ s.read # s.session.read)
             /\ s.pc = "open" /\ s.target.via # NoName /\ s.session.access # s.target.via =>
                  \/ s.user # [name |-> s.target.via, pod |-> NoName]
                  \/ s.read # s.session.read
  <2>1. AccessInv(s)
    BY <1>1, Zenon DEF IInv, ConnInv
  <2>2. RequestedAccess(s.user, s.info) # {}
    BY <2>1, RequestedSome, Zenon DEF AccessInv
  <2> QED BY <2>1, <2>2, Zenon DEF AccessInv
<1>2. IInv => OneAccess
  BY <1>1, Zenon DEF OneAccess
<1> QED BY <1>2, InductiveInvariant, PTL

\* The shells in the limits are patterns that Match reads no more generously than Glob, the
\* meaning of its comment.
ShellPatternsRead ==
  \A cf \in Configs, shell \in Shells : \A p \in cf.limits.shells :
    Match(p, shell) => Glob(p, shell)

\* Whoever authenticated the client and whatever the authorizers say, nothing exceeds the
\* limits of the gateway: the operation that runs, the container of a Pod, and, as far as
\* Match reads its patterns right, the shell of the session.
THEOREM LimitsEnforced ==
  ASSUME ShellPatternsRead
  PROVE  Spec => []LimitsHold
<1>1. ASSUME IInv, NEW c \in Conns, NEW s, s = conn[c]
      PROVE  /\ s.request # NoRequest => WithinPolicy(conf.limits, s.request)
             /\ s.pc = "open" =>
                  /\ \E p \in conf.limits.shells : Glob(p, s.session.shell)
                  /\ s.target.kind = "pod" /\ conf.limits.containers # "All" =>
                       conf.limits.containers = "KubernetesDefault"
                       /\ s.target.container = DefaultContainer[s.target.id]
  <2>1. LimitsInv(s) /\ conf \in Configs
    BY <1>1, Zenon DEF IInv, ConnInv, CacheInv
  <2>2. s.pc = "open" => \E p \in conf.limits.shells : Glob(p, s.session.shell)
    BY <2>1, Zenon DEF LimitsInv, MatchAny, ShellPatternsRead
  <2> QED BY <2>1, <2>2, Zenon DEF LimitsInv
<1>2. IInv => LimitsHold
  BY <1>1, Zenon DEF LimitsHold
<1> QED BY <1>2, InductiveInvariant, PTL

\* The chain's answer is the first authenticator's, or the second's if the first has none.
TakesFirst(a1, a2, a3, a4) ==
  /\ a1.kind # "not provided" => FirstAnswer(<<a1, a2, a3, a4>>) = a1
  /\ a1.kind = "not provided" /\ a2.kind # "not provided" => FirstAnswer(<<a1, a2, a3, a4>>) = a2

\* Every chain does so.
LEMMA FirstAnswerIs ==
  ASSUME NEW a1, NEW a2, NEW a3, NEW a4
  PROVE  TakesFirst(a1, a2, a3, a4)
<1>1. PICK answers : answers = <<a1, a2, a3, a4>>
  BY Zenon
<1>2. PICK given : given = {i \in DOMAIN answers : answers[i].kind # "not provided"}
  BY Zenon
<1>3. DOMAIN answers = 1..4 /\ answers[1] = a1 /\ answers[2] = a2
  BY <1>1
<1>4. given \in SUBSET (1..5)
  <2>1. given \subseteq 1..4
    BY <1>2, <1>3, Zenon
  <2> QED BY <2>1
<1>5. given # {} => Min(given) \in given /\ \A i \in given : Min(given) <= i
  BY <1>4, MinIn, Zenon
<1>6. FirstAnswer(answers) = IF given = {} THEN NoAnswer ELSE answers[Min(given)]
  BY <1>2, Zenon DEF FirstAnswer
<1>7. 1 \in 1..4 /\ 2 \in 1..4
  OBVIOUS
<1>8. \A m \in 1..5 : (m <= 1 => m = 1) /\ (m <= 2 => m = 1 \/ m = 2)
  OBVIOUS
<1>9. ASSUME a1.kind # "not provided" PROVE FirstAnswer(answers) = a1
  <2>1. 1 \in given
    BY <1>2, <1>3, <1>7, <1>9, Zenon
  <2>2. Min(given) = 1
    BY <1>4, <1>5, <1>8, <2>1, Zenon
  <2> QED BY <1>3, <1>6, <2>1, <2>2, Zenon
<1>10. ASSUME a1.kind = "not provided", a2.kind # "not provided" PROVE FirstAnswer(answers) = a2
  <2>1. 2 \in given /\ 1 \notin given
    BY <1>2, <1>3, <1>7, <1>10, Zenon
  <2>2. Min(given) = 2
    BY <1>4, <1>5, <1>8, <2>1, Zenon
  <2> QED BY <1>3, <1>6, <2>1, <2>2, Zenon
<1> QED BY <1>1, <1>9, <1>10, Zenon DEF TakesFirst

\* Only "not provided" passes a login on.
LEMMA AnswerKinds ==
  /\ NoAnswer.kind = "not provided" /\ Failure.kind # "not provided"
  /\ \A info : Provided(info).kind # "not provided"
  BY DEF NoAnswer, Failure, Provided, Answer

\* A match of a single credential is its identity.
OneOwner(n, owners) ==
  \E cred \in owners :
    owners = {cred} /\ CredentialMatch(n, owners) = Provided(AccessIdentity(n, cred))

\* So it is when no two credentials match.
LEMMA OnlyMatch ==
  ASSUME NEW n, NEW owners, owners # {}, ~\E cred, other \in owners : cred # other
  PROVE  OneOwner(n, owners)
<1>1. PICK cred \in owners : cred = CHOOSE d \in owners : TRUE
  BY Zenon
<1>2. owners = {cred}
  BY <1>1, Zenon
<1>3. CredentialMatch(n, owners) = Provided(AccessIdentity(n, cred))
  BY <1>1, Zenon DEF CredentialMatch
<1> QED BY <1>2, <1>3, Zenon DEF OneOwner

\* A chain that begins with the static authenticator and the Access's is decided by the two.
LEMMA ChainDecided ==
  ASSUME NEW n, NEW owners, NEW static, NEW match, NEW a3, NEW a4,
         static = NoAnswer \/ \E info : static = Provided(info),
         owners # {} => OwnersAnswer(n, owners, match)
  PROVE  Decided(n, owners, static, FirstAnswer(<<static, match, a3, a4>>))
<1>0. TakesFirst(static, match, a3, a4)
  BY FirstAnswerIs, Zenon
<1>1. CASE static # NoAnswer
  <2>1. static.kind # "not provided"
    BY <1>1, AnswerKinds, Zenon
  <2>2. FirstAnswer(<<static, match, a3, a4>>) = static
    BY <1>0, <2>1, Zenon DEF TakesFirst
  <2> QED BY <1>1, <2>2, Zenon DEF Decided
<1>2. CASE static = NoAnswer /\ owners = {}
  BY <1>2, Zenon DEF Decided
<1>3. CASE static = NoAnswer /\ owners # {}
  <2>1. match.kind # "not provided" /\ static.kind = "not provided"
    BY <1>3, AnswerKinds, Zenon DEF OwnersAnswer
  <2>2. FirstAnswer(<<static, match, a3, a4>>) = match
    BY <1>0, <2>1, Zenon DEF TakesFirst
  <2> QED BY <1>3, <2>2, Zenon DEF Decided
<1> QED BY <1>1, <1>2, <1>3, Zenon

\* What the Access's own authenticator makes of a key its credentials list: the only owner's
\* identity, or a failure unless the Access is valid.
LEMMA KeyDecided ==
  ASSUME NEW user, NEW n, n = ResolveAccessLocator(user).access, n # NoName,
         NEW creds, creds = cache[n].spec.creds, NEW key, NEW owners, owners # {},
         owners = {cred \in creds : key \in CredentialPublicKeys(cred)}
  PROVE  OwnersAnswer(n, owners, MatchPublicKey(user, key))
<1>1. ASSUME ValidateAccess(cache[n].spec)
      PROVE  \A d \in creds : PublicKeysReadable(d)
  BY <1>1, Zenon DEF ValidateAccess, ValidateCredential
<1>2. ASSUME ValidateAccess(cache[n].spec), NEW cred \in owners, NEW other \in owners, cred # other
      PROVE  FALSE
  <2>1. CredentialPublicKeys(cred) \cap CredentialPublicKeys(other) = {}
    BY <1>2, Zenon DEF ValidateAccess, MaterialIsUnique
  <2>2. key \in CredentialPublicKeys(cred) \cap CredentialPublicKeys(other)
    BY Zenon
  <2> QED BY <2>1, <2>2, Zenon
<1>3. CASE \E cred \in creds : ~PublicKeysReadable(cred)
  <2>1. MatchPublicKey(user, key) = Failure
    BY <1>3, Zenon DEF MatchPublicKey
  <2>2. ~ValidateAccess(cache[n].spec)
    BY <1>1, <1>3, Zenon
  <2> QED BY <2>1, <2>2, Zenon DEF OwnersAnswer
<1>4. CASE ~\E cred \in creds : ~PublicKeysReadable(cred)
  <2>1. MatchPublicKey(user, key) = CredentialMatch(n, owners)
    BY <1>4, Zenon DEF MatchPublicKey
  <2>2. CASE \E cred, other \in owners : cred # other
    <3>1. CredentialMatch(n, owners) = Failure
      BY <2>2, Zenon DEF CredentialMatch
    <3> QED BY <1>2, <2>1, <2>2, <3>1, Zenon DEF OwnersAnswer
  <2>3. CASE ~\E cred, other \in owners : cred # other
    <3>1. OneOwner(n, owners)
      BY <2>3, OnlyMatch, Zenon
    <3> QED BY <2>1, <3>1, Zenon DEF OneOwner, OwnersAnswer
  <2> QED BY <2>2, <2>3, Zenon
<1> QED BY <1>3, <1>4, Zenon

\* What the Access's own authenticator makes of a password its credentials list: the only owner's
\* identity, or a failure unless the Access is valid.
LEMMA PasswordDecided ==
  ASSUME NEW user, NEW n, n = ResolveAccessLocator(user).access, n # NoName,
         NEW creds, creds = cache[n].spec.creds, NEW key, NEW owners, owners # {},
         key # "",
         owners = {cred \in creds : key \in CredentialPasswords(cred)}
  PROVE  OwnersAnswer(n, owners, MatchPassword(user, key))
<1>1. ASSUME ValidateAccess(cache[n].spec)
      PROVE  \A d \in creds : PasswordsReadable(d)
  BY <1>1, Zenon DEF ValidateAccess, ValidateCredential
<1>2. ASSUME ValidateAccess(cache[n].spec), NEW cred \in owners, NEW other \in owners, cred # other
      PROVE  FALSE
  <2>1. CredentialPasswords(cred) \cap CredentialPasswords(other) = {}
    BY <1>2, Zenon DEF ValidateAccess, MaterialIsUnique
  <2>2. key \in CredentialPasswords(cred) \cap CredentialPasswords(other)
    BY Zenon
  <2> QED BY <2>1, <2>2, Zenon
<1>3. CASE \E cred \in creds : ~PasswordsReadable(cred)
  <2>1. MatchPassword(user, key) = Failure
    BY <1>3, Zenon DEF MatchPassword
  <2>2. ~ValidateAccess(cache[n].spec)
    BY <1>1, <1>3, Zenon
  <2> QED BY <2>1, <2>2, Zenon DEF OwnersAnswer
<1>4. CASE ~\E cred \in creds : ~PasswordsReadable(cred)
  <2>1. MatchPassword(user, key) = CredentialMatch(n, owners)
    BY <1>4, Zenon DEF MatchPassword
  <2>2. CASE \E cred, other \in owners : cred # other
    <3>1. CredentialMatch(n, owners) = Failure
      BY <2>2, Zenon DEF CredentialMatch
    <3> QED BY <1>2, <2>1, <2>2, <3>1, Zenon DEF OwnersAnswer
  <2>3. CASE ~\E cred, other \in owners : cred # other
    <3>1. OneOwner(n, owners)
      BY <2>3, OnlyMatch, Zenon
    <3> QED BY <2>1, <3>1, Zenon DEF OneOwner, OwnersAnswer
  <2> QED BY <2>2, <2>3, Zenon
<1> QED BY <1>3, <1>4, Zenon

\* Through the whole chain of authenticators, a key or password that an Access lists gives the
\* identity of the one credential that lists it, or fails, and does not fail in a valid
\* Access; only the static authenticators of the gateway come before it.
THEOREM ListedMaterialDecided == Spec => []ListedMaterialDecides
<1>1. ASSUME IInv, NEW user, NEW webhook, NEW n, n = ResolveAccessLocator(user).access,
             n # NoName, NEW creds, creds = cache[n].spec.creds, NEW key \in Keys
      PROVE  LET owners == {cred \in creds : key \in CredentialPublicKeys(cred)} IN
             /\ Decided(n, owners, StaticPublicKey(key), AuthenticatePublicKey(user, key, webhook))
             /\ owners # {} => Offered("publickey", user)
  <2>0. PICK owners : owners = {cred \in creds : key \in CredentialPublicKeys(cred)}
    BY Zenon
  <2>1. StaticPublicKey(key) = NoAnswer \/ \E info : StaticPublicKey(key) = Provided(info)
    BY Zenon DEF StaticPublicKey
  <2>2. owners # {} => OwnersAnswer(n, owners, MatchPublicKey(user, key))
    BY <1>1, <2>0, KeyDecided, Zenon
  <2>3. key # ""
    BY MaterialAssumption, Zenon
  <2>4. \A cred \in owners : cred.keysFrom \/ cred.keys \ {""} # {}
    BY <2>0, <2>3, Zenon DEF CredentialPublicKeys
  <2>5. owners # {} => "publickey" \in AccessMethods(creds)
    BY <2>0, <2>4, Zenon DEF AccessMethods
  <2>6. owners # {} => Offered("publickey", user)
    BY <1>1, <2>5, Zenon DEF Offered, AuthenticationMethods
  <2>7. Decided(n, owners, StaticPublicKey(key), AuthenticatePublicKey(user, key, webhook))
    BY <2>1, <2>2, ChainDecided, Zenon DEF AuthenticatePublicKey
  <2> QED BY <2>0, <2>6, <2>7, Zenon
<1>2. ASSUME IInv, NEW user, NEW webhook, NEW n, n = ResolveAccessLocator(user).access,
             n # NoName, NEW creds, creds = cache[n].spec.creds, NEW token
      PROVE  LET owners == {cred \in creds : token \in CredentialPasswords(cred)} IN
             /\ Decided(n, owners, StaticPassword(token), AuthenticateBasic(user, token, webhook))
             /\ owners # {} => Offered("password", user)
  <2>0. PICK owners : owners = {cred \in creds : token \in CredentialPasswords(cred)}
    BY Zenon
  <2>1. StaticPassword(token) = NoAnswer \/ \E info : StaticPassword(token) = Provided(info)
    BY Zenon DEF StaticPassword
  <2>2. owners # {} => token # ""
    BY <1>2, <2>0, MaterialAssumption, Zenon DEF CredentialPasswords, IInv, CacheInv
  <2>3. owners # {} => OwnersAnswer(n, owners, MatchPassword(user, token))
    BY <1>2, <2>0, <2>2, PasswordDecided, Zenon
  <2>4. \A cred \in owners : cred.passwordsFrom \/ cred.passwords \ {""} # {}
    BY <2>0, Zenon DEF CredentialPasswords
  <2>5. owners # {} => "password" \in AccessMethods(creds)
    <3>1. "password" # "publickey"
      OBVIOUS
    <3> QED BY <2>0, <2>4, <3>1, Zenon DEF AccessMethods
  <2>6. owners # {} => Offered("password", user)
    BY <1>2, <2>5, Zenon DEF Offered, AuthenticationMethods
  <2>7. Decided(n, owners, StaticPassword(token), AuthenticateBasic(user, token, webhook))
    BY <2>1, <2>3, ChainDecided, Zenon DEF AuthenticateBasic
  <2> QED BY <2>0, <2>6, <2>7, Zenon
<1>3. IInv => ListedMaterialDecides
  BY <1>1, <1>2, Zenon DEF ListedMaterialDecides
<1> QED BY <1>3, InductiveInvariant, PTL

\* A step of a connection that starts no operation.
StartsNothing(c) == \E t : Update(c, t) /\ t.request \in {conn[c].request, NoRequest}

\* Only BeginOperation starts an operation.
LEMMA OnlyBeginStarts ==
  ASSUME IInv, NEW c \in Conns, Login(c) \/ Serve(c)
  PROVE  StartsNothing(c) \/ \E request \in Requests : BeginOperation(c, request)
<1>1. PICK s : s = conn[c]
  BY Zenon
<1>2. s = [f \in Fields |-> s[f]]
  BY <1>1, Zenon DEF IInv, ConnInv, Shape
<1>3. ASSUME NEW info, Accepted(c, info) PROVE StartsNothing(c)
  <2>1. PICK t : t = [s EXCEPT !.pc = "resolve", !.info = info]
    BY Zenon
  <2>2. Update(c, t) /\ t.request = s.request
    BY <1>1, <1>2, <1>3, <2>1, Zenon DEF Accepted, Fields
  <2> QED BY <1>1, <2>2, Zenon DEF StartsNothing
<1>4. ASSUME NEW held, Rejecting(c, held) PROVE StartsNothing(c)
  <2>1. PICK t : t = [s EXCEPT !.pc = "auth", !.attempts = @ + 1, !.info = NoInfo,
                               !.target = NoTarget, !.spec = NoSpec, !.held = held]
    BY Zenon
  <2>2. Update(c, t) /\ t.request = s.request
    BY <1>1, <1>2, <1>4, <2>1, Zenon DEF Rejecting, Fields
  <2> QED BY <1>1, <2>2, Zenon DEF StartsNothing
<1>5. ASSUME NEW n, NEW target, Selected(c, n, target) PROVE StartsNothing(c)
  <2>1. PICK t : t = [s EXCEPT !.pc = "selected", !.target = target, !.spec = cache[n].spec,
                               !.read = changes, !.held = Append(@, <<n, target.id>>)]
    BY Zenon
  <2>2. Update(c, t) /\ t.request = s.request
    BY <1>1, <1>2, <1>5, <2>1, Zenon DEF Selected, Fields
  <2> QED BY <1>1, <2>2, Zenon DEF StartsNothing
<1>6. ASSUME Accept(c) \/ NoClientAuth(c) \/ \E key \in Keys : PublicKeyCallback(c, key)
      PROVE  StartsNothing(c)
  <2>1. CASE Accept(c) \/ NoClientAuth(c)
    <3>1. PICK t : /\ Update(c, t)
                   /\ \/ \E user : t = [s EXCEPT !.pc = "auth", !.user = user]
                      \/ \E offered : t = [s EXCEPT !.offered = offered]
      BY <1>1, <2>1, Zenon DEF Accept, NoClientAuth
    <3>2. t.request = s.request
      BY <1>2, <3>1, Zenon DEF Fields
    <3> QED BY <1>1, <3>1, <3>2, Zenon DEF StartsNothing
  <2>2. ASSUME NEW key \in Keys, PublicKeyCallback(c, key) PROVE StartsNothing(c)
    <3>1. PICK info : Update(c, [s EXCEPT !.key = key, !.candidate = info])
      BY <1>1, <2>2, Zenon DEF PublicKeyCallback
    <3>2. PICK t : t = [s EXCEPT !.key = key, !.candidate = info]
      BY Zenon
    <3>3. Update(c, t) /\ t.request = s.request
      BY <1>2, <3>1, <3>2, Zenon DEF Fields
    <3> QED BY <1>1, <3>3, Zenon DEF StartsNothing
  <2> QED BY <1>6, <2>1, <2>2, Zenon
<1>7. ASSUME ResolveReturns(c) \/ ResolveDirect(c) \/ ResolveSessionPolicy(c)
      PROVE  StartsNothing(c)
  <2>1. CASE \E held : Rejecting(c, held)
    BY <1>4, <2>1, Zenon
  <2>2. CASE ~\E held : Rejecting(c, held)
    <3>1. PICK t : /\ Update(c, t)
                   /\ \/ \E d : t = [s EXCEPT !.pc = "policy", !.target.container = d]
                      \/ \E u : t = [s EXCEPT !.pc = "policy", !.target = u, !.read = changes]
                      \/ \E session : t = [s EXCEPT !.pc = "open", !.session = session,
                                                    !.candidate = NoInfo, !.key = ""]
      <4>1. CASE ResolveReturns(c)
        BY <1>1, <2>2, <4>1, Zenon DEF ResolveReturns, ReleaseRefused
      <4>2. CASE ResolveDirect(c)
        BY <1>1, <2>2, <4>2, Zenon DEF ResolveDirect, Rejected
      <4>3. CASE ResolveSessionPolicy(c)
        BY <1>1, <2>2, <4>3, Zenon DEF ResolveSessionPolicy, Rejected, Published
      <4> QED BY <1>7, <4>1, <4>2, <4>3, Zenon
    <3>2. t.request = s.request
      BY <1>2, <3>1, Zenon DEF Fields
    <3> QED BY <1>1, <3>1, <3>2, Zenon DEF StartsNothing
  <2> QED BY <2>1, <2>2, Zenon
<1>8. ASSUME EndOperation(c) \/ Connect(c) \/ ConnectFails(c) \/ ConnectionEnds(c) \/ AfterFunc(c)
      PROVE  StartsNothing(c)
  <2>1. PICK t : /\ Update(c, t)
                 /\ \/ t = [s EXCEPT !.request = NoRequest]
                    \/ \E spec : t = [s EXCEPT !.used = spec]
                    \/ t = [s EXCEPT !.ctx = FALSE]
                    \/ t = [s EXCEPT !.held = Tail(@)]
    BY <1>1, <1>8, Zenon DEF EndOperation, Connect, ConnectFails, ConnectionEnds, AfterFunc
  <2>2. t.request \in {s.request, NoRequest}
    BY <1>2, <2>1, Zenon DEF Fields
  <2> QED BY <1>1, <2>1, <2>2, Zenon DEF StartsNothing
<1>9. ASSUME ResolveExternal(c) \/ ResolvePod(c) PROVE StartsNothing(c)
  <2>1. (\E held : Rejecting(c, held)) \/ \E n, target : Selected(c, n, target)
    BY <1>9, Zenon DEF ResolveExternal, ResolvePod, Rejected
  <2> QED BY <1>4, <1>5, <2>1, Zenon
<1>10. ASSUME VerifiedPublicKey(c) \/ \E token \in Passwords : PasswordCallback(c, token)
       PROVE  StartsNothing(c)
  <2>1. \E info : Accepted(c, info)
    BY <1>10, Zenon DEF VerifiedPublicKey, PasswordCallback
  <2> QED BY <1>3, <2>1, Zenon
<1>11. CASE Login(c)
  BY <1>6, <1>7, <1>9, <1>10, <1>11, Zenon DEF Login
<1>12. CASE Serve(c)
  BY <1>8, <1>12, Zenon DEF Serve
<1> QED BY <1>11, <1>12, Zenon

\* An operation begins only while the Access and the credential the client was authenticated
\* by are there and allow it now.
THEOREM NothingStartsRevoked == Spec => RevokedStartsNothing
<1> DEFINE Allowed(c) ==
      LET info == conn[c].info IN
      conn[c].request = NoRequest /\ conn'[c].request # NoRequest /\ info.access # NoName =>
        /\ Exists(info.access)
        /\ SpecAllows(cache[info.access].spec, info, conn[c].target, conn'[c].request)
<1>1. ASSUME IInv, Next, NEW c \in Conns, conn[c].request = NoRequest, conn'[c].request # NoRequest
      PROVE  \E request \in Requests : BeginOperation(c, request)
  <2>1. conn = [d \in Conns |-> conn[d]]
    BY <1>1, Zenon DEF IInv
  <2>2. CASE conn' = conn
    BY <1>1, <2>2, Zenon
  <2>3. ASSUME NEW d \in Conns, Login(d) \/ Serve(d)
        PROVE  \E request \in Requests : BeginOperation(c, request)
    <3>1. \E t : Update(d, t)
      BY <1>1, <2>3, OnlyBeginStarts, Zenon DEF StartsNothing, BeginOperation
    <3>2. CASE d # c
      <4>1. conn'[c] = conn[c]
        BY <2>1, <3>1, <3>2, Zenon DEF Update
      <4> QED BY <1>1, <4>1, Zenon
    <3>3. CASE StartsNothing(c)
      <4>1. PICK t : Update(c, t) /\ t.request = NoRequest
        BY <1>1, <3>3, Zenon DEF StartsNothing
      <4>2. conn'[c] = Remains(t)
        BY <2>1, <4>1, Zenon DEF Update
      <4>3. Remains(t) = t \/ Remains(t).request = NoRequest
        BY Zenon DEF Remains, Unused
      <4> QED BY <1>1, <4>1, <4>2, <4>3, Zenon
    <3> QED BY <1>1, <2>3, <3>2, <3>3, OnlyBeginStarts, Zenon
  <2> QED BY <1>1, <2>2, <2>3, Zenon DEF Next, AccessEvent, SecretEvent, PodEvent
<1>2. ASSUME IInv, NEW c \in Conns, NEW request, BeginOperation(c, request)
      PROVE  conn'[c].request = request
  <2>1. PICK s : s = conn[c] /\ s = [f \in Fields |-> s[f]] /\ s.ctx
    BY <1>2, Zenon DEF IInv, ConnInv, Shape, BeginOperation, Live
  <2>2. PICK t : t = [s EXCEPT !.request = request]
    BY Zenon
  <2>3. t.request = request /\ t.ctx
    BY <2>1, <2>2, Zenon DEF Fields
  <2>4. conn'[c] = Remains(t)
    BY <1>2, <2>1, <2>2, Zenon DEF BeginOperation, Update, IInv
  <2> QED BY <2>3, <2>4, Zenon DEF Remains
<1>3. ASSUME IInv, Next, NEW c \in Conns PROVE Allowed(c)
  <2>1. SUFFICES ASSUME conn[c].request = NoRequest, conn'[c].request # NoRequest,
                        conn[c].info.access # NoName
                 PROVE  /\ Exists(conn[c].info.access)
                        /\ SpecAllows(cache[conn[c].info.access].spec, conn[c].info,
                                      conn[c].target, conn'[c].request)
    BY Zenon
  <2>2. PICK request : BeginOperation(c, request)
    BY <1>1, <1>3, <2>1, Zenon
  <2>3. AccessAuthorize(c, request) = "Allow" /\ conn'[c].request = request
    BY <1>2, <1>3, <2>1, <2>2, BeginAllowed, Zenon
  <2> QED BY <2>1, <2>3, Zenon DEF AccessAuthorize
<1>4. IInv /\ [Next]_vars => [\A c \in Conns : Allowed(c)]_vars
  BY <1>3, Zenon
<1> QED BY <1>4, InductiveInvariant, PTL DEF Spec, RevokedStartsNothing

==============================================================================
