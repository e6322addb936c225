---------------------------- MODULE ClientsProofs ----------------------------
(***************************************************************************)
(* What the hub's clients keep to, for any number of handshakes, hosts and *)
(* calls, and for any ages with Timeout < Margin.                          *)
(*                                                                         *)
(* The Caddy plugin never serves a certificate that is due.  The invariant *)
(* behind it: an answer's max-age counts from when it was given, which is  *)
(* after its handshake began, and no handshake is older than the timeout;  *)
(* so an entry outlives renewal age minus margin by the timeout at most.   *)
(* What it serves fits the host it serves it to, and its endpoint and token *)
(* are those of the strongest source.                                      *)
(*                                                                         *)
(* The agent is never later than its renewal time, or the longest delay    *)
(* after its last cycle, by more than one request: a sleep ends in time, a *)
(* request begins in time, and the backoff, a recursive function, is capped *)
(* for any number of failures.                                             *)
(*                                                                         *)
(* A hook's calls read their own answers as long as none is disturbed.     *)
(*                                                                         *)
(* And the operator's consumers get conditions about their present specs:  *)
(* a reconcile that was not overtaken has seen the consumer as it is.      *)
(***************************************************************************)
EXTENDS MCClients, SequenceTheorems, WellFoundedInduction, TLAPS

Busy(s) == shake[s] # NoShake

(* Times as they are while handshakes are under way. *)
ShakesBounded ==
  \A s \in Handshakes : Busy(s) =>
    /\ shake[s].since <= now /\ now <= shake[s].since + Timeout
    /\ shake[s].reply.maxAge > 0 =>
         shake[s].since + shake[s].reply.maxAge <= shake[s].reply.nb + RenewAge - Margin

EntriesBounded ==
  \A h \in Hosts : entries[h] # NoEntry =>
    entries[h].expiresAt <= entries[h].nb + RenewAge - Margin + Timeout

CacheTypes ==
  /\ now \in Nat /\ cur \in Nat
  /\ wildcards \subseteq Wildcards
  /\ entries \in [Hosts -> Entry \cup {NoEntry}]
  /\ shake \in [Handshakes -> Shake \cup {NoShake}]

CacheInv == CacheTypes /\ ShakesBounded /\ EntriesBounded

(* cacheControl: at most what is left of the renewal age less the margin. *)
LEMMA MaxAgeIsBounded ==
  ASSUME NEW nb \in Nat, NEW t \in Nat
  PROVE  /\ CacheControl(nb, t) \in Nat
         /\ CacheControl(nb, t) > 0 => t + CacheControl(nb, t) = nb + RenewAge - Margin
BY AgesAssumption DEF CacheControl, Positive

LEMMA InitBounds == HubInit /\ CaddyInit => CacheInv
BY DEF HubInit, CaddyInit, CacheInv, CacheTypes, ShakesBounded, EntriesBounded, Busy

LEMMA ResolvedNames ==
  ASSUME CacheTypes, NEW host \in Hosts, NEW d \in ResolveDomain(host)
  PROVE  d \in Name
BY NamesAssumption DEF ResolveDomain, CacheTypes, Host

LEMMA MissKeeps ==
  ASSUME CacheInv, NEW s \in Handshakes, NEW host \in Hosts, Miss(s, host), UNCHANGED hubVars
  PROVE  CacheInv'
<1>1. PICK d \in ResolveDomain(host) :
        shake' = [shake EXCEPT ![s] = [at |-> "asking", host |-> host, domain |-> d,
                                       since |-> now, reply |-> [nb |-> 0, maxAge |-> 0]]]
  BY DEF Miss
<1> DEFINE new == [at |-> "asking", host |-> host, domain |-> d,
                   since |-> now, reply |-> [nb |-> 0, maxAge |-> 0]]
<1>2. d \in Name
  BY ResolvedNames DEF CacheInv
<1>3. new \in Shake
  BY <1>2 DEF Shake, Reply, CacheInv, CacheTypes
<1>4. CacheTypes'
  BY <1>1, <1>3 DEF CacheInv, CacheTypes, Miss, hubVars
<1>5. ShakesBounded'
  BY <1>1, AgesAssumption DEF CacheInv, CacheTypes, ShakesBounded, Busy, Miss, hubVars
<1> QED
  BY <1>4, <1>5 DEF CacheInv, EntriesBounded, Miss

LEMMA AnswerKeeps ==
  ASSUME CacheInv, NEW s \in Handshakes, HubAnswers(s), UNCHANGED hubVars
  PROVE  CacheInv'
<1> DEFINE old == shake[s]
           new == [[old EXCEPT !.at = "answered"] EXCEPT !.reply = Answer]
<1>1. old \in Shake
  BY DEF HubAnswers, CacheInv, CacheTypes, NoShake
<1>2. Answer \in Reply
  BY MaxAgeIsBounded DEF Answer, Reply, CacheInv, CacheTypes
<1>3. shake' = [shake EXCEPT ![s] = new]
  BY DEF HubAnswers, CacheInv, CacheTypes
<1>4. new \in Shake /\ new.since = old.since /\ new.reply = Answer
  BY <1>1, <1>2 DEF Shake
<1>5. CacheTypes'
  BY <1>3, <1>4 DEF CacheInv, CacheTypes, HubAnswers, hubVars
<1>6. Busy(s)
  BY DEF HubAnswers, Busy, NoShake
<1>7. old.since <= now /\ now <= old.since + Timeout
  BY <1>6 DEF CacheInv, ShakesBounded
<1>8. Answer.maxAge > 0 => old.since + Answer.maxAge <= Answer.nb + RenewAge - Margin
  BY <1>1, <1>7, MaxAgeIsBounded, AgesAssumption DEF Answer, CacheInv, CacheTypes, Shake
<1>9. ShakesBounded'
  BY <1>3, <1>4, <1>7, <1>8 DEF CacheInv, CacheTypes, ShakesBounded, Busy, hubVars
<1> QED
  BY <1>5, <1>9 DEF CacheInv, EntriesBounded, HubAnswers

LEMMA ArriveKeeps ==
  ASSUME CacheInv, NEW s \in Handshakes, Arrive(s), UNCHANGED hubVars
  PROVE  CacheInv'
<1> DEFINE old == shake[s]
           e == [domain |-> old.domain, nb |-> old.reply.nb, expiresAt |-> now + old.reply.maxAge]
<1>1. old \in Shake /\ Busy(s) /\ old.host \in Hosts /\ old.reply \in Reply
  BY DEF Arrive, CacheInv, CacheTypes, NoShake, Busy, Shake
<1>2. e \in Entry
  BY <1>1 DEF Entry, Shake, Reply, CacheInv, CacheTypes
<1>3. CASE old.reply.maxAge = 0
  BY <1>3 DEF Arrive, Set, CacheInv, CacheTypes, ShakesBounded, EntriesBounded, Busy, hubVars
<1>4. CASE old.reply.maxAge # 0
  <2>1. entries' = [entries EXCEPT ![old.host] = e]
    BY <1>4 DEF Arrive, Set
  <2>2. CacheTypes'
    BY <1>1, <1>2, <2>1 DEF Arrive, CacheInv, CacheTypes, hubVars
  <2>3. e.expiresAt <= e.nb + RenewAge - Margin + Timeout
    <3>1. old.since + old.reply.maxAge <= old.reply.nb + RenewAge - Margin
      BY <1>1, <1>4 DEF CacheInv, ShakesBounded, Reply
    <3>2. now <= old.since + Timeout
      BY <1>1 DEF CacheInv, ShakesBounded
    <3> QED
      BY <1>1, <3>1, <3>2, AgesAssumption DEF CacheInv, CacheTypes, Shake, Reply
  <2>4. EntriesBounded'
    BY <1>1, <1>2, <2>1, <2>3 DEF CacheInv, CacheTypes, EntriesBounded
  <2>5. ShakesBounded'
    BY DEF Arrive, CacheInv, CacheTypes, ShakesBounded, Busy, hubVars
  <2> QED
    BY <2>2, <2>4, <2>5 DEF CacheInv
<1> QED
  BY <1>3, <1>4

LEMMA FailKeeps ==
  ASSUME CacheInv, NEW s \in Handshakes, FetchFails(s), UNCHANGED hubVars
  PROVE  CacheInv'
BY DEF FetchFails, CacheInv, CacheTypes, ShakesBounded, EntriesBounded, Busy, hubVars

LEMMA TickKeeps ==
  ASSUME CacheInv, CaddyTick \/ Renew, UNCHANGED caddyVars
  PROVE  CacheInv'
<1>1. CASE CaddyTick
  <2>1. CacheTypes' /\ EntriesBounded'
    BY <1>1 DEF CaddyTick, Advance, CacheInv, CacheTypes, EntriesBounded, caddyVars
  <2>2. ShakesBounded'
    <3> SUFFICES ASSUME NEW s \in Handshakes, Busy(s)
                 PROVE  /\ shake[s].since <= now + 1 /\ now + 1 <= shake[s].since + Timeout
                        /\ shake[s].reply.maxAge > 0 =>
                             shake[s].since + shake[s].reply.maxAge
                               <= shake[s].reply.nb + RenewAge - Margin
      BY <1>1 DEF CaddyTick, Advance, ShakesBounded, Busy, caddyVars
    <3>1. shake[s] \in Shake /\ now < shake[s].since + Timeout
      BY <1>1 DEF CaddyTick, NoneOverdue, CacheInv, CacheTypes, Busy
    <3> QED
      BY <3>1, AgesAssumption DEF CacheInv, CacheTypes, ShakesBounded, Shake
  <2> QED
    BY <2>1, <2>2 DEF CacheInv
<1>2. CASE Renew
  BY <1>2 DEF Renew, CacheInv, CacheTypes, ShakesBounded, EntriesBounded, Busy, caddyVars
<1> QED
  BY <1>1, <1>2

LEMMA ProvisionKeeps ==
  ASSUME CacheInv, Provision \/ DetectWildcards, UNCHANGED hubVars
  PROVE  CacheInv'
BY DEF Provision, DetectWildcards, CacheInv, CacheTypes, ShakesBounded, EntriesBounded, Busy, hubVars

LEMMA CacheNext == CacheInv /\ [CaddyNext]_<<hubVars, caddyVars>> => CacheInv'
<1> SUFFICES ASSUME CacheInv, [CaddyNext]_<<hubVars, caddyVars>> PROVE CacheInv'
  OBVIOUS
<1>1. CASE UNCHANGED <<hubVars, caddyVars>>
  BY <1>1 DEF hubVars, caddyVars, CacheInv, CacheTypes, ShakesBounded, EntriesBounded, Busy
<1>2. CASE CaddyNext
  BY <1>2, MissKeeps, AnswerKeeps, ArriveKeeps, FailKeeps, TickKeeps, ProvisionKeeps
  DEF CaddyNext, CaddyStep
<1> QED
  BY <1>1, <1>2

(* Fresh entries are not due: the only clock the plugin has is max-age, and *)
(* the hub's margin of a day is more than a request can take.               *)
LEMMA BoundedIsNotDue == CacheInv => CachedNotDue
<1> SUFFICES ASSUME CacheInv, NEW h \in Hosts, Get(h)
             PROVE  now < entries[h].nb + RenewAge
  BY DEF CachedNotDue
<1>1. entries[h] \in Entry
  BY DEF CacheInv, CacheTypes, Get
<1> QED
  BY <1>1, AgesAssumption, TimeoutAssumption DEF CacheInv, CacheTypes, EntriesBounded, Get, Entry

(* Get never answers with a certificate at or past its renewal age, whatever *)
(* the hub does and however handshakes overlap.                              *)
THEOREM CacheServesNothingDue == CaddySpec => []CachedNotDue
<1>1. HubInit /\ CaddyInit => CacheInv
  BY InitBounds
<1>2. CacheInv /\ [CaddyNext]_<<hubVars, caddyVars>> => CacheInv'
  BY CacheNext
<1>3. CacheInv => CachedNotDue
  BY BoundedIsNotDue
<1> QED
  BY <1>1, <1>2, <1>3, PTL DEF CaddySpec

-----------------------------------------------------------------------------
(* Every fetch is for a name that serves the host it is for, and stays so   *)
(* while the wildcards of the configuration are what they are.              *)
ShakesServe == \A s \in Handshakes : Busy(s) => Serves(shake[s].domain, shake[s].host)

ServeInv == CacheTypes /\ ShakesServe /\ EntriesServeTheirHosts

LEMMA ResolvedServes ==
  ASSUME NEW host \in Hosts, NEW d \in ResolveDomain(host)
  PROVE  Serves(d, host)
<1>1. CASE d = host
  BY <1>1, NamesAssumption DEF Serves, Host, IsWildcard
<1>2. CASE d \in wildcards /\ Under(d, host)
  BY <1>2 DEF Serves, Under
<1> QED
  BY <1>1, <1>2 DEF ResolveDomain

(* The cache keeps, per server name, only certificates that serve it.       *)
LEMMA HandshakeServes ==
  ASSUME ServeInv, NEW s \in Handshakes,
         \/ \E host \in Hosts : Miss(s, host)
         \/ HubAnswers(s) \/ Arrive(s) \/ FetchFails(s)
  PROVE  ShakesServe' /\ EntriesServeTheirHosts'
<1>0. /\ shake \in [Handshakes -> Shake \cup {NoShake}]
      /\ entries \in [Hosts -> Entry \cup {NoEntry}]
  BY DEF ServeInv, CacheTypes
<1>1. ASSUME NEW host \in Hosts, Miss(s, host) PROVE ShakesServe' /\ EntriesServeTheirHosts'
  <2> PICK d \in ResolveDomain(host) :
        shake' = [shake EXCEPT ![s] = [at |-> "asking", host |-> host, domain |-> d,
                                       since |-> now, reply |-> [nb |-> 0, maxAge |-> 0]]]
    BY <1>1 DEF Miss
  <2>1. Serves(d, host)
    BY ResolvedServes
  <2>2. shake'[s].domain = d /\ shake'[s].host = host /\ \A x \in Handshakes \ {s} : shake'[x] = shake[x]
    BY <1>0
  <2> QED
    BY <1>1, <2>1, <2>2 DEF Miss, ServeInv, ShakesServe, EntriesServeTheirHosts, Busy
<1>2. CASE HubAnswers(s)
  <2>1. shake[s] \in Shake
    BY <1>0, <1>2 DEF HubAnswers, NoShake
  <2>2. /\ shake'[s].domain = shake[s].domain /\ shake'[s].host = shake[s].host /\ Busy(s)
        /\ \A x \in Handshakes \ {s} : shake'[x] = shake[x]
    BY <1>0, <1>2, <2>1 DEF HubAnswers, Shake, Busy, NoShake
  <2> QED
    BY <1>2, <2>2 DEF HubAnswers, ServeInv, ShakesServe, EntriesServeTheirHosts, Busy
<1>3. CASE Arrive(s)
  <2>1. ShakesServe'
    BY <1>0, <1>3 DEF Arrive, ServeInv, ShakesServe, Busy
  <2>2. shake[s] \in Shake /\ Busy(s)
    BY <1>0, <1>3 DEF Arrive, Busy, NoShake
  <2>3. Serves(shake[s].domain, shake[s].host) /\ shake[s].host \in Hosts
    BY <2>2 DEF ServeInv, ShakesServe, Shake
  <2>4. EntriesServeTheirHosts'
    BY <1>0, <1>3, <2>3 DEF Arrive, Set, ServeInv, EntriesServeTheirHosts
  <2> QED
    BY <2>1, <2>4
<1>4. CASE FetchFails(s)
  BY <1>0, <1>4 DEF FetchFails, ServeInv, ShakesServe, EntriesServeTheirHosts, Busy
<1> QED
  BY <1>1, <1>2, <1>3, <1>4

(* Whatever handshakes overlap, and whichever wildcard a map gives first, a  *)
(* server name is only ever given a certificate its clients accept.         *)
THEOREM CacheServesItsHosts == CaddySpec => []EntriesServeTheirHosts
<1>1. HubInit /\ CaddyInit => ShakesServe /\ EntriesServeTheirHosts
  BY DEF CaddyInit, ShakesServe, EntriesServeTheirHosts, Busy
<1>2. CacheInv /\ ShakesServe /\ EntriesServeTheirHosts /\ [CaddyNext]_<<hubVars, caddyVars>>
        => ShakesServe' /\ EntriesServeTheirHosts'
  <2> SUFFICES ASSUME ServeInv, [CaddyNext]_<<hubVars, caddyVars>>
               PROVE  ShakesServe' /\ EntriesServeTheirHosts'
    BY DEF CacheInv, ServeInv
  <2>1. CASE UNCHANGED <<entries, shake>>
    BY <2>1 DEF ServeInv, ShakesServe, EntriesServeTheirHosts, Busy
  <2>2. CASE CaddyStep
    BY <2>2, HandshakeServes DEF CaddyStep
  <2> QED
    BY <2>1, <2>2 DEF CaddyNext, Provision, DetectWildcards, caddyVars
<1>3. HubInit /\ CaddyInit => CacheInv
  BY InitBounds
<1> QED
  BY <1>1, <1>2, <1>3, CacheNext, PTL DEF CaddySpec

-----------------------------------------------------------------------------
(* A complete source that no complete one precedes is taken. *)
LEMMA FirstIsTaken ==
  ASSUME NEW s, DOMAIN s \subseteq Nat, NEW n \in DOMAIN s, s[n].gives = Both,
         \A j \in DOMAIN s : j < n => s[j].gives # Both
  PROVE  FirstOk(s) = s[n].name
<1> DEFINE ok == {i \in DOMAIN s : s[i].gives = Both}
           First == CHOOSE i \in ok : \A j \in ok : i <= j
<1>1. FirstOk(s) = IF ok = {} THEN "none" ELSE s[First].name
  BY DEF FirstOk
<1>2. n \in ok /\ \A j \in ok : n <= j
  OBVIOUS
<1>3. First \in ok /\ \A j \in ok : First <= j
  BY <1>2
<1>4. ok \subseteq Nat
  OBVIOUS
<1> HIDE DEF ok, First
<1>5. First <= n /\ n <= First /\ First \in Nat /\ n \in Nat
  BY <1>2, <1>3, <1>4
<1>6. First = n
  BY <1>5
<1> QED
  BY <1>1, <1>2, <1>6

LEMMA NoneIsTaken ==
  ASSUME NEW s, \A j \in DOMAIN s : s[j].gives # Both
  PROVE  FirstOk(s) = "none"
BY DEF FirstOk

LEMMA FirstOfTwo ==
  ASSUME NEW a, NEW b
  PROVE  FirstOk(<<a, b>>) = IF a.gives = Both THEN a.name
                             ELSE IF b.gives = Both THEN b.name ELSE "none"
<1> DEFINE s == <<a, b>>
<1>1. DOMAIN s = {1, 2} /\ s[1] = a /\ s[2] = b /\ DOMAIN s \subseteq Nat
  OBVIOUS
<1> HIDE DEF s
<1>2. a.gives = Both => FirstOk(s) = a.name
  BY <1>1, FirstIsTaken
<1>3. a.gives # Both /\ b.gives = Both => FirstOk(s) = b.name
  BY <1>1, FirstIsTaken
<1>4. a.gives # Both /\ b.gives # Both => FirstOk(s) = "none"
  BY <1>1, NoneIsTaken
<1> QED
  BY <1>2, <1>3, <1>4 DEF s

LEMMA FirstOfFour ==
  ASSUME NEW a, NEW b, NEW c, NEW d
  PROVE  FirstOk(<<a, b, c, d>>) =
           IF a.gives = Both THEN a.name ELSE IF b.gives = Both THEN b.name
           ELSE IF c.gives = Both THEN c.name ELSE IF d.gives = Both THEN d.name ELSE "none"
<1> DEFINE s == <<a, b, c, d>>
<1>1. /\ DOMAIN s = {1, 2, 3, 4} /\ DOMAIN s \subseteq Nat
      /\ s[1] = a /\ s[2] = b /\ s[3] = c /\ s[4] = d
  OBVIOUS
<1> HIDE DEF s
<1>2. ASSUME NEW n \in {1, 2, 3, 4}, s[n].gives = Both, \A j \in {1, 2, 3, 4} : j < n => s[j].gives # Both
      PROVE  FirstOk(s) = s[n].name
  BY <1>1, <1>2, FirstIsTaken
<1>3. a.gives = Both => FirstOk(s) = a.name
  BY <1>1, <1>2
<1>4. a.gives # Both /\ b.gives = Both => FirstOk(s) = b.name
  BY <1>1, <1>2
<1>5. a.gives # Both /\ b.gives # Both /\ c.gives = Both => FirstOk(s) = c.name
  BY <1>1, <1>2
<1>6. a.gives # Both /\ b.gives # Both /\ c.gives # Both /\ d.gives = Both => FirstOk(s) = d.name
  BY <1>1, <1>2
<1>7. a.gives # Both /\ b.gives # Both /\ c.gives # Both /\ d.gives # Both => FirstOk(s) = "none"
  BY <1>1, NoneIsTaken
<1> QED
  BY <1>3, <1>4, <1>5, <1>6, <1>7 DEF s

(* What a source of the given kind gives for the profile of c. *)
InEnv(c) == c.env[c.profile] = Both \/ (c.profile = "default" /\ c.env[""] = Both)
InYaml(c) == IF c.yaml.nested THEN c.yaml.section[c.profile] = Both
             ELSE c.profile = "default" /\ c.yaml.bare = Both

LEMMA ProfileResolves ==
  ASSUME NEW c \in Configs
  PROVE  ResolveProfile(c) = IF InEnv(c) THEN "env" ELSE IF InYaml(c) THEN "yaml" ELSE "none"
<1>1. c.profile # ""
  BY ProfileAssumption
<1>2. CASE c.profile = "default"
  <2>1. ResolveProfile(c) =
          IF c.env[""] = Both \/ c.env["default"] = Both THEN "env"
          ELSE IF FromYaml(c.yaml, "") = Both \/ FromYaml(c.yaml, "default") = Both
               THEN "yaml" ELSE "none"
    <3> DEFINE a == [name |-> "env", gives |-> c.env[""]]
               b == [name |-> "env", gives |-> c.env["default"]]
               x == [name |-> "yaml", gives |-> FromYaml(c.yaml, "")]
               y == [name |-> "yaml", gives |-> FromYaml(c.yaml, "default")]
    <3>1. ResolveProfile(c) = FirstOk(<<a, b, x, y>>)
      BY <1>2 DEF ResolveProfile
    <3>2. FirstOk(<<a, b, x, y>>) =
            IF a.gives = Both THEN a.name ELSE IF b.gives = Both THEN b.name
            ELSE IF x.gives = Both THEN x.name ELSE IF y.gives = Both THEN y.name ELSE "none"
      <4> HIDE DEF a, b, x, y
      <4> QED
        BY FirstOfFour
    <3>3. /\ a.name = "env" /\ b.name = "env" /\ x.name = "yaml" /\ y.name = "yaml"
          /\ a.gives = c.env[""] /\ b.gives = c.env["default"]
          /\ x.gives = FromYaml(c.yaml, "") /\ y.gives = FromYaml(c.yaml, "default")
      OBVIOUS
    <3> HIDE DEF a, b, x, y
    <3> QED
      BY <3>1, <3>2, <3>3
  <2>2. /\ FromYaml(c.yaml, "") = IF c.yaml.nested THEN c.yaml.section["default"] ELSE c.yaml.bare
        /\ FromYaml(c.yaml, "default") = IF c.yaml.nested THEN c.yaml.section["default"] ELSE c.yaml.bare
    BY DEF FromYaml
  <2> QED
    BY <1>2, <2>1, <2>2 DEF InEnv, InYaml
<1>3. CASE c.profile # "default"
  <2>1. ResolveProfile(c) =
          IF c.env[c.profile] = Both THEN "env"
          ELSE IF FromYaml(c.yaml, c.profile) = Both THEN "yaml" ELSE "none"
    BY <1>3, FirstOfTwo DEF ResolveProfile
  <2>2. {} # Both
    BY DEF Both
  <2> QED
    BY <1>1, <1>3, <2>1, <2>2 DEF InEnv, InYaml, FromYaml
<1> QED
  BY <1>2, <1>3

(* What Provision made of a configuration is what its sources come to. *)
ProviderInv ==
  \/ provider = Serving
  \/ \E c \in Configs :
       \/ provider = [at |-> "new", config |-> c, source |-> "none"]
       \/ \E end \in {"configured", "failed"} :
            provider = [at |-> end, config |-> c, source |-> Source(c)]

LEMMA ProviderInit == HubInit /\ CaddyInit => ProviderInv
  BY DEF CaddyInit, ProviderInv

LEMMA ProviderStep == ProviderInv /\ [CaddyNext]_<<hubVars, caddyVars>> => ProviderInv'
<1> SUFFICES ASSUME ProviderInv, [CaddyNext]_<<hubVars, caddyVars>> PROVE ProviderInv'
  OBVIOUS
<1>1. CASE UNCHANGED provider
  BY <1>1 DEF ProviderInv
<1>2. CASE Provision
  <2>1. provider.at = "new"
    BY <1>2 DEF Provision
  <2>2. PICK c \in Configs : provider = [at |-> "new", config |-> c, source |-> "none"]
    BY <2>1 DEF ProviderInv, Serving
  <2>3. PICK end \in {"configured", "failed"} :
          provider' = [[provider EXCEPT !.at = end] EXCEPT !.source = Source(c)]
    BY <1>2, <2>2 DEF Provision
  <2>4. provider' = [at |-> end, config |-> c, source |-> Source(c)]
    BY <2>2, <2>3
  <2> QED
    BY <2>4 DEF ProviderInv
<1>3. CASE DetectWildcards
  BY <1>3 DEF DetectWildcards, ProviderInv
<1> QED
  BY <1>1, <1>2, <1>3 DEF CaddyNext, CaddyStep, Miss, HubAnswers, Arrive, FetchFails, caddyVars

(* What Provision takes endpoint and token from is the strongest complete   *)
(* source, whatever sections and variables there are (config.go:26).        *)
THEOREM StrongestWins == CaddySpec => []StrongestSourceWins
<1>2. ProviderInv => StrongestSourceWins
  <2> SUFFICES ASSUME ProviderInv, provider.at \in {"configured", "failed"}
               PROVE  StrongestSourceWins
    BY DEF StrongestSourceWins
  <2>1. PICK c \in Configs : provider.config = c /\ provider.source = Source(c)
    BY DEF ProviderInv, Serving
  <2>2. {} # Both
    BY DEF Both
  <2> DEFINE inEnv  == InEnv(c)
             inYaml == InYaml(c)
  <2>6. StrongestSourceWins <=>
          provider.source = CASE c.inline = Both            -> "inline"
                              [] c.inline \notin {{}, Both}   -> "none"
                              [] c.inline = {} /\ inEnv  -> "env"
                              [] c.inline = {} /\ ~inEnv -> IF inYaml THEN "yaml" ELSE "none"
    BY <2>1 DEF StrongestSourceWins, InEnv, InYaml
  <2> HIDE DEF inEnv, inYaml
  <2>3. CASE c.inline = Both
    BY <2>1, <2>2, <2>3, <2>6 DEF Source
  <2>4. CASE c.inline \notin {{}, Both}
    BY <2>1, <2>2, <2>4, <2>6 DEF Source
  <2>5. CASE c.inline = {}
    <3>1. Source(c) = IF inEnv THEN "env" ELSE IF inYaml THEN "yaml" ELSE "none"
      BY <2>2, <2>5, ProfileResolves DEF Source, inEnv, inYaml
    <3>2. CASE inEnv
      BY <2>1, <2>2, <2>5, <2>6, <3>1, <3>2
    <3>3. CASE ~inEnv
      BY <2>1, <2>2, <2>5, <2>6, <3>1, <3>3
    <3> QED
      BY <3>2, <3>3
  <2> QED
    BY <2>3, <2>4, <2>5
<1> QED
  BY ProviderInit, <1>2, ProviderStep, PTL DEF CaddySpec

-----------------------------------------------------------------------------
LEMMA LeastExists ==
  ASSUME NEW T \in SUBSET Nat, T # {}
  PROVE  \E x \in T : \A y \in T : x <= y
<1> DEFINE R == OpToRel(<, Nat)
<1>1. IsWellFoundedOn(R, Nat)
  BY NatLessThanWellFounded
<1>2. \A x, y \in Nat : x < y => <<x, y>> \in R
  BY DEF OpToRel
<1> HIDE DEF R
<1>3. PICK x \in T : \A y \in T : ~ (<<y, x>> \in R)
  BY <1>1, WFMin
<1>4. \A y \in T : ~(y < x)
  BY <1>2, <1>3
<1> QED
  BY <1>4

(* A delay and its double, cut off. *)
Doubled(d) == IF 2 * d >= MaxDelay THEN MaxDelay ELSE 2 * d

(* The delays of the first n + 1 attempts. *)
IsBackoff(d, n) ==
  d = [i \in 0..n |-> IF i = 0 THEN Base ELSE Doubled(d[i-1])]

(* They exist for every n: else there is a least n for which they do not,   *)
(* and those of n - 1 have one more.                                        *)
LEMMA BackoffExists ==
  ASSUME NEW n \in Nat
  PROVE  \E d : IsBackoff(d, n)
<1> DEFINE Without == {k \in Nat : ~\E d : IsBackoff(d, k)}
<1> SUFFICES ASSUME Without # {} PROVE FALSE
  OBVIOUS
<1>1. PICK m \in Without : \A k \in Without : m <= k
  <2>1. Without \in SUBSET Nat
    OBVIOUS
  <2> HIDE DEF Without
  <2> QED
    BY <2>1, LeastExists
<1>2. m # 0
  <2> SUFFICES ASSUME m = 0 PROVE FALSE
    OBVIOUS
  <2> DEFINE d == [i \in 0..0 |-> Base]
  <2>1. d = [i \in 0..0 |-> IF i = 0 THEN Base ELSE Doubled(d[i-1])]
    OBVIOUS
  <2>2. IsBackoff(d, 0)
    BY <2>1 DEF IsBackoff
  <2> QED
    BY <1>1, <2>2
<1>3. m \in Nat /\ m - 1 \in Nat /\ m - 1 \notin Without
  BY <1>1, <1>2
<1>4. PICK e : IsBackoff(e, m - 1)
  BY <1>3
<1> DEFINE d == [i \in 0..m |-> IF i = 0 THEN Base ELSE Doubled(e[i-1])]
<1>5. ASSUME NEW i \in 0..(m-1) PROVE d[i] = e[i]
  <2>1. e[i] = IF i = 0 THEN Base ELSE Doubled(e[i-1])
    BY <1>4 DEF IsBackoff
  <2>2. i \in 0..m
    BY <1>3
  <2> QED
    BY <2>1, <2>2
<1>6. ASSUME NEW i \in 0..m, i # 0 PROVE e[i-1] = d[i-1]
  <2>1. i - 1 \in 0..(m-1)
    BY <1>3, <1>6
  <2> HIDE DEF d
  <2> QED
    BY <2>1, <1>5
<1>7. d = [i \in 0..m |-> IF i = 0 THEN Base ELSE Doubled(d[i-1])]
  <2> DEFINE new == [i \in 0..m |-> IF i = 0 THEN Base ELSE Doubled(d[i-1])]
  <2>1. ASSUME NEW i \in 0..m PROVE d[i] = new[i]
    BY <1>6
  <2>2. DOMAIN d = 0..m /\ DOMAIN new = 0..m
    OBVIOUS
  <2> QED
    BY <2>1
<1> QED
  BY <1>1, <1>7 DEF IsBackoff

(* No delay is longer than the cap, nor zero. *)
LEMMA DelayIsCapped ==
  ASSUME NEW n \in Nat
  PROVE  Delay(n) \in 1..MaxDelay
<1> DEFINE d == CHOOSE f : IsBackoff(f, n)
<1>1. IsBackoff(d, n)
  BY BackoffExists
<1>2. Delay(n) = d[n]
  BY DEF Delay, IsBackoff, Doubled
<1> HIDE DEF d
<1> DEFINE Over == {i \in 0..n : d[i] \notin 1..MaxDelay}
<1>3. Over = {}
  <2> SUFFICES ASSUME Over # {} PROVE FALSE
    OBVIOUS
  <2>1. PICK m \in Over : \A k \in Over : m <= k
    <3>1. Over \in SUBSET Nat
      OBVIOUS
    <3> HIDE DEF Over
    <3> QED
      BY <3>1, LeastExists
  <2>2. d[m] = IF m = 0 THEN Base ELSE Doubled(d[m-1])
    BY <1>1, <2>1 DEF IsBackoff
  <2>3. CASE m = 0
    BY <2>1, <2>2, <2>3, DelayAssumption
  <2>4. CASE m # 0
    <3>1. m - 1 \in 0..n /\ m - 1 \notin Over
      BY <2>1, <2>4
    <3>2. d[m-1] \in 1..MaxDelay
      BY <3>1
    <3> QED
      BY <2>1, <2>2, <2>4, <3>2, DelayAssumption DEF Doubled
  <2> QED
    BY <2>3, <2>4
<1> QED
  BY <1>2, <1>3

-----------------------------------------------------------------------------
(* The moment x is not past what the agent waits for.                       *)
InTime(x, nb, end) == x <= end + MaxDelay \/ (nb # None /\ x <= RenewAt(nb))

(* A sleep ends in time, a request begins in time and is over when its      *)
(* timeout is.                                                              *)
AgentInv ==
  /\ AgentTypeOK /\ now \in Nat /\ cur \in Nat
  /\ at = "start" => InTime(now, installed, endedAt)
  /\ at \in {"fetching", "answered"} =>
       InTime(since, installed, endedAt) /\ now <= since + Timeout
  /\ at \in {"answered", "hook"} => held \in Nat
  /\ at = "sleep" => now <= wakeAt /\ InTime(wakeAt, installed, endedAt)

LEMMA AgentInitInv == HubInit /\ AgentInit => AgentInv
<1> SUFFICES ASSUME HubInit, AgentInit PROVE AgentInv
  OBVIOUS
<1>1. AgentTypeOK
  <2>1. daemon \in BOOLEAN /\ signalled \in BOOLEAN
    BY DEF AgentInit
  <2>2. /\ at \in {"start", "fetching", "answered", "hook", "sleep", "down"}
        /\ held \in Nat \cup {None} /\ installed \in Nat \cup {None}
    BY DEF AgentInit
  <2>3. {since, attempt, wakeAt, endedAt} \subseteq Nat
    BY DEF AgentInit
  <2> QED
    BY <2>1, <2>2, <2>3 DEF AgentTypeOK
<1>2. now = 0 /\ cur = 0 /\ endedAt = 0 /\ at = "start" /\ 0 <= 0 + MaxDelay
  BY DelayAssumption DEF HubInit, AgentInit
<1> QED
  BY <1>1, <1>2 DEF AgentInv, InTime

LEMMA AgentNextInv == AgentInv /\ [AgentNext]_<<hubVars, agentVars>> => AgentInv'
<1> SUFFICES ASSUME AgentInv, [AgentNext]_<<hubVars, agentVars>>
             PROVE  AgentInv'
  OBVIOUS
<1> USE DelayAssumption, AgesAssumption DEF AgentInv, AgentTypeOK, InTime, RenewAt, None, hubVars, agentVars
<1>u. CASE UNCHANGED <<hubVars, agentVars>>
  BY <1>u
<1>1. CASE Fetch /\ UNCHANGED hubVars
  BY <1>1 DEF Fetch
<1>2. CASE FetchAnswered /\ UNCHANGED hubVars
  BY <1>2 DEF FetchAnswered, Answer
<1>3. CASE StartHook /\ UNCHANGED hubVars
  BY <1>3 DEF StartHook
<1>4. CASE CycleFails /\ UNCHANGED hubVars
  <2>1. Delay(attempt) \in 1..MaxDelay
    BY DelayIsCapped
  <2> QED
    BY <1>4, <2>1 DEF CycleFails, SleepOrEnd
<1>5. CASE HookEnds /\ UNCHANGED hubVars
  BY <1>5 DEF HookEnds, SleepOrEnd, Positive
<1>6. CASE WakeUp /\ UNCHANGED hubVars
  BY <1>6 DEF WakeUp
<1>7. CASE SleepCancelled /\ UNCHANGED hubVars
  BY <1>7 DEF SleepCancelled
<1>8. CASE Sigterm /\ UNCHANGED hubVars
  BY <1>8 DEF Sigterm
<1>9. CASE AgentTick /\ UNCHANGED agentVars
  BY <1>9 DEF AgentTick, Advance
<1>10. CASE Renew /\ UNCHANGED agentVars
  BY <1>10 DEF Renew
<1> QED
  BY <1>u, <1>1, <1>2, <1>3, <1>4, <1>5, <1>6, <1>7, <1>8, <1>9, <1>10
  DEF AgentNext, AgentStep, Loop

(* Whatever fails and however long hooks take (agent.go:135), the agent is   *)
(* late by one request at most.                                             *)
THEOREM AgentIsInTime == AgentSpec => []InstalledInTime
<1>1. AgentInv => InstalledInTime
  BY AgesAssumption, DelayAssumption DEF AgentInv, AgentTypeOK, InTime, RenewAt, InstalledInTime
<1> QED
  BY AgentInitInv, AgentNextInv, <1>1, PTL DEF AgentSpec

-----------------------------------------------------------------------------
(* While no call is disturbed, the stream holds the pieces that lie between  *)
(* the one call that waits and the loop, in order, and nothing else.          *)
Piece(part, x) == [part |-> part, of |-> x]
Facing(part, v) == [at |-> part, verb |-> v]

(* The loop has still to read the request of a call for v.                    *)
Asked(pos, v, req, srv) ==
  \/ pos = "argv"   /\ req = <<Piece("length", v)>> /\ srv = Listening
  \/ pos = "argv"   /\ req = <<>> /\ srv = Facing("argv", v)
  \/ pos = "status" /\ req = <<Piece("length", v), Piece("argv", v)>> /\ srv = Listening
  \/ pos = "status" /\ req = <<Piece("argv", v)>> /\ srv = Facing("argv", v)

StatusOf(v)  == Piece("status", Dispatch(v))
SizeOf(v)    == Piece("size", Dispatch(v))
PayloadOf(v) == Piece("payload", Dispatch(v))

(* It has read it, and what it has answered so far the call has still to read. *)
Answered(pos, v, srv, res) ==
  \/ srv = Facing("status", v) /\ pos = "status" /\ res = <<>>
  \/ srv = Facing("size", v)   /\ pos = "status" /\ res = <<StatusOf(v)>>
  \/ srv = Facing("size", v)   /\ pos = "size"   /\ res = <<>>
  \/ srv = Facing("payload", v) /\ v # Empty /\ pos = "status"  /\ res = <<StatusOf(v), SizeOf(v)>>
  \/ srv = Facing("payload", v) /\ v # Empty /\ pos = "size"    /\ res = <<SizeOf(v)>>
  \/ srv = Facing("payload", v) /\ v # Empty /\ pos = "payload" /\ res = <<>>
  \/ srv = Listening /\ v # Empty /\ pos = "status"  /\ res = <<StatusOf(v), SizeOf(v), PayloadOf(v)>>
  \/ srv = Listening /\ v # Empty /\ pos = "size"    /\ res = <<SizeOf(v), PayloadOf(v)>>
  \/ srv = Listening /\ v # Empty /\ pos = "payload" /\ res = <<PayloadOf(v)>>
  \/ srv = Listening /\ v = Empty /\ pos = "status"  /\ res = <<StatusOf(v), SizeOf(v)>>
  \/ srv = Listening /\ v = Empty /\ pos = "size"    /\ res = <<SizeOf(v)>>

InTurn(pos, v, req, srv, res) ==
  (Asked(pos, v, req, srv) /\ res = <<>>) \/ (req = <<>> /\ Answered(pos, v, srv, res))

OneAtATime ==
  ~disturbed =>
    \/ Sending = {} /\ responses = <<>> /\ (running => requests = <<>> /\ server = Listening)
    \/ \E c \in Calls : Sending = {c}
                        /\ InTurn(call[c].at, call[c].verb, requests, server, responses)

SockInv == SockTypeOK /\ OneAtATime /\ OwnResponses

LEMMA AppendSecond ==
  ASSUME NEW a, NEW b PROVE Append(<<a>>, b) = <<a, b>>
<1> DEFINE s == Append(<<a>>, b)
           u == <<a, b>>
<1>1. <<a>> \in Seq({a, b}) /\ u \in Seq({a, b})
  OBVIOUS
<1>2. Len(s) = 2 /\ s[1] = a /\ s[2] = b /\ s \in Seq({a, b})
  BY <1>1
<1>3. Len(u) = 2 /\ u[1] = a /\ u[2] = b
  OBVIOUS
<1> HIDE DEF s, u
<1>4. \A i \in 1 .. Len(s) : s[i] = u[i]
  BY <1>2, <1>3
<1>5. s = u
  BY <1>1, <1>2, <1>3, <1>4, SeqEqual
<1> QED
  BY <1>5 DEF s, u

LEMMA AppendThird ==
  ASSUME NEW a, NEW b, NEW c PROVE Append(<<a, b>>, c) = <<a, b, c>>
<1> DEFINE s == Append(<<a, b>>, c)
           u == <<a, b, c>>
<1>1. <<a, b>> \in Seq({a, b, c}) /\ u \in Seq({a, b, c})
  OBVIOUS
<1>2. Len(s) = 3 /\ s[1] = a /\ s[2] = b /\ s[3] = c /\ s \in Seq({a, b, c})
  BY <1>1
<1>3. Len(u) = 3 /\ u[1] = a /\ u[2] = b /\ u[3] = c
  OBVIOUS
<1> HIDE DEF s, u
<1>4. \A i \in 1 .. Len(s) : s[i] = u[i]
  BY <1>2, <1>3
<1>5. s = u
  BY <1>1, <1>2, <1>3, <1>4, SeqEqual
<1> QED
  BY <1>5 DEF s, u

LEMMA ShortTuples ==
  ASSUME NEW a, NEW b, NEW c
  PROVE  /\ Head(<<a>>) = a /\ Tail(<<a>>) = <<>> /\ Append(<<>>, a) = <<a>>
         /\ Head(<<a, b>>) = a /\ Tail(<<a, b>>) = <<b>> /\ Append(<<a>>, b) = <<a, b>>
         /\ Head(<<a, b, c>>) = a /\ Tail(<<a, b, c>>) = <<b, c>>
         /\ Append(<<a, b>>, c) = <<a, b, c>>
<1>1. Tail(<<a>>) = <<>>
  OBVIOUS
<1>2. Tail(<<a, b>>) = <<b>>
  OBVIOUS
<1>3. Tail(<<a, b, c>>) = <<b, c>>
  OBVIOUS
<1>4. Append(<<>>, a) = <<a>>
  OBVIOUS
<1> QED
  BY <1>1, <1>2, <1>3, <1>4, AppendSecond, AppendThird

LEMMA ArgvFollows ==
  ASSUME NEW v, NEW req, NEW srv, NEW res, InTurn("argv", v, req, srv, res)
  PROVE  InTurn("status", v, Append(req, Piece("argv", v)), srv, res)
<1>1. Asked("argv", v, req, srv) /\ res = <<>>
  BY DEF InTurn, Answered
<1>2. CASE req = <<>>
  BY <1>1, <1>2 DEF InTurn, Asked, Listening, Facing
<1>3. CASE req = <<Piece("length", v)>>
  <2>1. Append(req, Piece("argv", v)) = <<Piece("length", v), Piece("argv", v)>>
    BY <1>3, ShortTuples
  <2>2. srv = Listening
    BY <1>1, <1>3 DEF Asked
  <2> QED
    BY <1>1, <2>1, <2>2 DEF InTurn, Asked
<1> QED
  BY <1>1, <1>2, <1>3 DEF Asked

(* The loop reads the pieces of a request in their order, so never one for    *)
(* another.                                                                   *)
LEMMA RequestInOrder ==
  ASSUME NEW pos, NEW v, NEW req, NEW srv, NEW res, InTurn(pos, v, req, srv, res), req # <<>>
  PROVE  /\ Head(req).part = srv.at /\ Head(req).of = v
         /\ InTurn(pos, v, Tail(req),
                   Facing(IF Head(req).part = "length" THEN "argv" ELSE "status", v), res)
<1>1. Asked(pos, v, req, srv) /\ res = <<>>
  BY DEF InTurn
<1>2. CASE req = <<Piece("length", v)>>
  BY <1>1, <1>2 DEF InTurn, Asked, Piece, Listening, Facing
<1>3. CASE req = <<Piece("length", v), Piece("argv", v)>>
  <2>1. Head(req) = Piece("length", v) /\ Tail(req) = <<Piece("argv", v)>>
    BY <1>3
  <2>2. pos = "status" /\ srv = Listening
    BY <1>1, <1>3 DEF Asked
  <2> QED
    BY <1>1, <2>1, <2>2 DEF InTurn, Asked, Piece, Listening, Facing
<1>4. CASE req = <<Piece("argv", v)>>
  <2>1. Head(req) = Piece("argv", v) /\ Tail(req) = <<>>
    BY <1>4
  <2>2. pos = "status" /\ srv = Facing("argv", v)
    BY <1>1, <1>4 DEF Asked, Piece
  <2>3. Answered("status", v, Facing("status", v), <<>>)
    BY DEF Answered
  <2> QED
    BY <1>1, <2>1, <2>2, <2>3 DEF InTurn, Piece, Facing
<1> QED
  BY <1>1, <1>2, <1>3, <1>4 DEF Asked

LEMMA ResponsePieces ==
  ASSUME NEW v
  PROVE  /\ Append(<<>>, StatusOf(v)) = <<StatusOf(v)>>
         /\ Append(<<>>, SizeOf(v)) = <<SizeOf(v)>>
         /\ Append(<<>>, PayloadOf(v)) = <<PayloadOf(v)>>
         /\ Append(<<StatusOf(v)>>, SizeOf(v)) = <<StatusOf(v), SizeOf(v)>>
         /\ Append(<<SizeOf(v)>>, PayloadOf(v)) = <<SizeOf(v), PayloadOf(v)>>
         /\ Append(<<StatusOf(v), SizeOf(v)>>, PayloadOf(v)) = <<StatusOf(v), SizeOf(v), PayloadOf(v)>>
         /\ Head(<<StatusOf(v)>>) = StatusOf(v) /\ Tail(<<StatusOf(v)>>) = <<>>
         /\ Head(<<SizeOf(v)>>) = SizeOf(v) /\ Tail(<<SizeOf(v)>>) = <<>>
         /\ Head(<<PayloadOf(v)>>) = PayloadOf(v) /\ Tail(<<PayloadOf(v)>>) = <<>>
         /\ Head(<<StatusOf(v), SizeOf(v)>>) = StatusOf(v)
         /\ Tail(<<StatusOf(v), SizeOf(v)>>) = <<SizeOf(v)>>
         /\ Head(<<SizeOf(v), PayloadOf(v)>>) = SizeOf(v)
         /\ Tail(<<SizeOf(v), PayloadOf(v)>>) = <<PayloadOf(v)>>
         /\ Head(<<StatusOf(v), SizeOf(v), PayloadOf(v)>>) = StatusOf(v)
         /\ Tail(<<StatusOf(v), SizeOf(v), PayloadOf(v)>>) = <<SizeOf(v), PayloadOf(v)>>
         /\ Piece("status", Dispatch(v)) = StatusOf(v)
         /\ Piece("size", Dispatch(v)) = SizeOf(v)
         /\ Piece("payload", Dispatch(v)) = PayloadOf(v)
<1>1. /\ Append(<<>>, StatusOf(v)) = <<StatusOf(v)>>
      /\ Append(<<>>, SizeOf(v)) = <<SizeOf(v)>>
      /\ Append(<<>>, PayloadOf(v)) = <<PayloadOf(v)>>
  BY ShortTuples, Zenon
<1>2. /\ Append(<<StatusOf(v)>>, SizeOf(v)) = <<StatusOf(v), SizeOf(v)>>
      /\ Append(<<SizeOf(v)>>, PayloadOf(v)) = <<SizeOf(v), PayloadOf(v)>>
      /\ Append(<<StatusOf(v), SizeOf(v)>>, PayloadOf(v)) = <<StatusOf(v), SizeOf(v), PayloadOf(v)>>
  BY AppendSecond, AppendThird, Zenon
<1>3. /\ Head(<<StatusOf(v)>>) = StatusOf(v) /\ Tail(<<StatusOf(v)>>) = <<>>
      /\ Head(<<SizeOf(v)>>) = SizeOf(v) /\ Tail(<<SizeOf(v)>>) = <<>>
      /\ Head(<<PayloadOf(v)>>) = PayloadOf(v) /\ Tail(<<PayloadOf(v)>>) = <<>>
  BY ShortTuples, Zenon
<1>4. /\ Head(<<StatusOf(v), SizeOf(v)>>) = StatusOf(v)
      /\ Tail(<<StatusOf(v), SizeOf(v)>>) = <<SizeOf(v)>>
      /\ Head(<<SizeOf(v), PayloadOf(v)>>) = SizeOf(v)
      /\ Tail(<<SizeOf(v), PayloadOf(v)>>) = <<PayloadOf(v)>>
  BY ShortTuples, Zenon
<1>5. /\ Head(<<StatusOf(v), SizeOf(v), PayloadOf(v)>>) = StatusOf(v)
      /\ Tail(<<StatusOf(v), SizeOf(v), PayloadOf(v)>>) = <<SizeOf(v), PayloadOf(v)>>
  OBVIOUS
<1> QED
  BY <1>1, <1>2, <1>3, <1>4, <1>5, Zenon DEF StatusOf, SizeOf, PayloadOf

LEMMA ResponseFollows ==
  ASSUME NEW pos, NEW v, NEW req, NEW srv, NEW res, InTurn(pos, v, req, srv, res),
         srv.at \in Answering
  PROVE  /\ srv.verb = v
         /\ LET part == After(srv.at, v) IN
            InTurn(pos, v, req, IF part = "end" THEN Listening ELSE Facing(part, v),
                   Append(res, Piece(srv.at, Dispatch(v))))
<1>1. req = <<>> /\ Answered(pos, v, srv, res) /\ srv # Listening
  BY DEF InTurn, Asked, Listening, Facing, Answering
<1>2. CASE srv = Facing("status", v)
  <2>1. pos = "status" /\ res = <<>>
    BY <1>1, <1>2 DEF Answered, Facing, Listening
  <2>2. After("status", v) = "size" /\ srv.at = "status" /\ srv.verb = v
    BY <1>2 DEF After, Facing
  <2>3. Append(res, Piece(srv.at, Dispatch(v))) = <<StatusOf(v)>>
    BY <2>1, <2>2, ResponsePieces
  <2>4. Answered("status", v, Facing("size", v), <<StatusOf(v)>>)
    BY DEF Answered
  <2> QED
    BY <1>1, <2>1, <2>2, <2>3, <2>4 DEF InTurn
<1>3. CASE srv = Facing("size", v)
  <2>1. srv.at = "size" /\ srv.verb = v /\ Piece(srv.at, Dispatch(v)) = SizeOf(v)
    BY <1>3, ResponsePieces DEF Facing
  <2>2. After("size", v) = IF v # Empty THEN "payload" ELSE "end"
    BY DEF After
  <2>3. \/ pos = "status" /\ res = <<StatusOf(v)>>
        \/ pos = "size" /\ res = <<>>
    BY <1>1, <1>3 DEF Answered, Facing, Listening
  <2>4. \/ pos = "status" /\ Append(res, SizeOf(v)) = <<StatusOf(v), SizeOf(v)>>
        \/ pos = "size" /\ Append(res, SizeOf(v)) = <<SizeOf(v)>>
    BY <2>3, ResponsePieces, Zenon
  <2>5. Answered(pos, v, IF v # Empty THEN Facing("payload", v) ELSE Listening, Append(res, SizeOf(v)))
    BY <2>4 DEF Answered
  <2> QED
    BY <1>1, <2>1, <2>2, <2>5 DEF InTurn
<1>4. CASE srv = Facing("payload", v)
  <2>1. srv.at = "payload" /\ srv.verb = v /\ Piece(srv.at, Dispatch(v)) = PayloadOf(v)
    BY <1>4, ResponsePieces DEF Facing
  <2>2. After("payload", v) = "end"
    BY DEF After
  <2>3. v # Empty /\ \/ pos = "status" /\ res = <<StatusOf(v), SizeOf(v)>>
                     \/ pos = "size" /\ res = <<SizeOf(v)>>
                     \/ pos = "payload" /\ res = <<>>
    BY <1>1, <1>4 DEF Answered, Facing, Listening
  <2>4. \/ pos = "status" /\ Append(res, PayloadOf(v)) = <<StatusOf(v), SizeOf(v), PayloadOf(v)>>
        \/ pos = "size" /\ Append(res, PayloadOf(v)) = <<SizeOf(v), PayloadOf(v)>>
        \/ pos = "payload" /\ Append(res, PayloadOf(v)) = <<PayloadOf(v)>>
    BY <2>3, ResponsePieces, Zenon
  <2>5. Answered(pos, v, Listening, Append(res, PayloadOf(v)))
    BY <2>3, <2>4 DEF Answered
  <2> QED
    BY <1>1, <2>1, <2>2, <2>5 DEF InTurn
<1> QED
  BY <1>1, <1>2, <1>3, <1>4 DEF Answered

(* A call reads the pieces of its own response, the last one last.            *)
LEMMA ResponseInOrder ==
  ASSUME NEW pos, NEW v, NEW req, NEW srv, NEW res, InTurn(pos, v, req, srv, res), res # <<>>
  PROVE  /\ Head(res) = Piece(pos, Dispatch(v))
         /\ IF After(pos, v) = "end" THEN req = <<>> /\ srv = Listening /\ Tail(res) = <<>>
            ELSE InTurn(After(pos, v), v, req, srv, Tail(res))
<1>1. req = <<>> /\ Answered(pos, v, srv, res)
  BY DEF InTurn
<1>2. CASE pos = "status"
  <2>1. \/ srv = Facing("size", v) /\ res = <<StatusOf(v)>>
        \/ srv = Facing("payload", v) /\ v # Empty /\ res = <<StatusOf(v), SizeOf(v)>>
        \/ srv = Listening /\ v # Empty /\ res = <<StatusOf(v), SizeOf(v), PayloadOf(v)>>
        \/ srv = Listening /\ v = Empty /\ res = <<StatusOf(v), SizeOf(v)>>
    BY <1>1, <1>2 DEF Answered
  <2>2. After("status", v) = "size"
    BY DEF After
  <2>3. /\ Head(res) = StatusOf(v)
        /\ \/ srv = Facing("size", v) /\ Tail(res) = <<>>
           \/ srv = Facing("payload", v) /\ v # Empty /\ Tail(res) = <<SizeOf(v)>>
           \/ srv = Listening /\ v # Empty /\ Tail(res) = <<SizeOf(v), PayloadOf(v)>>
           \/ srv = Listening /\ v = Empty /\ Tail(res) = <<SizeOf(v)>>
    BY <2>1, ResponsePieces, Zenon
  <2>4. Answered("size", v, srv, Tail(res))
    BY <2>3 DEF Answered
  <2>5. Head(res) = Piece(pos, Dispatch(v))
    BY <1>2, <2>3, ResponsePieces
  <2> QED
    BY <1>1, <1>2, <2>2, <2>4, <2>5 DEF InTurn
<1>3. CASE pos = "size"
  <2>1. \/ srv = Facing("payload", v) /\ v # Empty /\ res = <<SizeOf(v)>>
        \/ srv = Listening /\ v # Empty /\ res = <<SizeOf(v), PayloadOf(v)>>
        \/ srv = Listening /\ v = Empty /\ res = <<SizeOf(v)>>
    BY <1>1, <1>3 DEF Answered
  <2>2. After("size", v) = IF v # Empty THEN "payload" ELSE "end"
    BY DEF After
  <2>3. /\ Head(res) = SizeOf(v)
        /\ \/ srv = Facing("payload", v) /\ v # Empty /\ Tail(res) = <<>>
           \/ srv = Listening /\ v # Empty /\ Tail(res) = <<PayloadOf(v)>>
           \/ srv = Listening /\ v = Empty /\ Tail(res) = <<>>
    BY <2>1, ResponsePieces, Zenon
  <2>4. v # Empty => Answered("payload", v, srv, Tail(res))
    BY <2>3 DEF Answered
  <2>5. Head(res) = Piece(pos, Dispatch(v))
    BY <1>3, <2>3, ResponsePieces
  <2>6. v = Empty => srv = Listening /\ Tail(res) = <<>>
    BY <2>3, Zenon
  <2> QED
    BY <1>1, <1>3, <2>2, <2>4, <2>5, <2>6 DEF InTurn
<1>4. CASE pos = "payload"
  <2>1. srv = Listening /\ res = <<PayloadOf(v)>>
    BY <1>1, <1>4 DEF Answered
  <2>2. After("payload", v) = "end"
    BY DEF After
  <2> QED
    BY <1>1, <1>4, <2>1, <2>2, ResponsePieces, Zenon
<1> QED
  BY <1>1, <1>2, <1>3, <1>4 DEF Answered

LEMMA SockTypes == SockTypeOK /\ [SockNext]_sockVars => SockTypeOK'
<1> SUFFICES ASSUME SockTypeOK, [SockNext]_sockVars PROVE SockTypeOK'
  OBVIOUS
<1> USE DEF SockTypeOK
<1>0. /\ {Idle, Astray, Garbled, Broken, Killed} \subseteq Call
      /\ {Listening, Gone} \subseteq Server /\ Rest \in ResponsePiece
  BY DEF Call, Server, ResponsePiece
<1>a. \A part \in {"argv"} \cup Answering, verb \in Verbs :
        Facing(part, verb) \in Call /\ Facing(part, verb) \in Server
  BY DEF Call, Server, Facing
<1>b. \A c \in Calls : call[c].at \in {"argv"} \cup Answering => call[c].verb \in Verbs
  BY DEF Call, Idle, Astray, Garbled, Broken, Killed, Answering
<1>1. ASSUME NEW c \in Calls, NEW verb \in Verbs, WriteLength(c, verb) PROVE SockTypeOK'
  <2>1. Facing("argv", verb) \in Call /\ Piece("length", verb) \in RequestPiece
    BY <1>a DEF RequestPiece, Piece
  <2> QED
    BY <1>1, <2>1 DEF WriteLength, Facing, Piece
<1>2. ASSUME NEW c \in Calls, WriteArgv(c) PROVE SockTypeOK'
  <2>1. call[c].verb \in Verbs
    BY <1>2, <1>b DEF WriteArgv
  <2>2. Facing("status", call[c].verb) \in Call /\ Piece("argv", call[c].verb) \in RequestPiece
    BY <1>a, <2>1 DEF RequestPiece, Piece, Answering
  <2> QED
    BY <1>2, <2>2 DEF WriteArgv, Facing, Piece
<1>3. ASSUME NEW c \in Calls, ReadResponse(c) PROVE SockTypeOK'
  <2>1. call[c].verb \in Verbs
    BY <1>3, <1>b DEF ReadResponse
  <2>2. Head(responses) \in ResponsePiece /\ Head(responses) # Rest /\ Tail(responses) \in Seq(ResponsePiece)
    BY <1>3 DEF ReadResponse, Rest, Answering
  <2> DEFINE piece == Head(responses)
             next  == After(piece.part, piece.of.of)
  <2>3. piece.of \in Response /\ next \in {"size", "payload", "end"}
    BY <2>2 DEF ResponsePiece, After
  <2>4. [at |-> "done", verb |-> call[c].verb, got |-> piece.of] \in Call
    BY <2>1, <2>3 DEF Call
  <2>5. next # "end" => Facing(next, call[c].verb) \in Call
    BY <1>a, <2>1, <2>3 DEF Answering
  <2> HIDE DEF next, piece
  <2>6. call' = [call EXCEPT ![c] =
          IF next = "end" THEN [at |-> "done", verb |-> call[c].verb, got |-> piece.of]
          ELSE Facing(next, call[c].verb)]
    BY <1>3 DEF ReadResponse, next, piece, Facing
  <2> QED
    BY <1>3, <2>2, <2>4, <2>5, <2>6 DEF ReadResponse
<1>4. ASSUME NEW c \in Calls, Misread(c) PROVE SockTypeOK'
  <2>1. responses' \in Seq(ResponsePiece)
    <3>1. CASE responses' = <<>>
      BY <3>1
    <3>2. ASSUME NEW k \in 2 .. Len(responses) + 1,
                 \/ responses' = SubSeq(responses, k, Len(responses))
                 \/ responses' = <<Rest>> \o SubSeq(responses, k, Len(responses))
          PROVE  responses' \in Seq(ResponsePiece)
      <4>1. SubSeq(responses, k, Len(responses)) \in Seq(ResponsePiece)
        OBVIOUS
      <4>2. <<Rest>> \in Seq(ResponsePiece)
        BY <1>0
      <4>3. <<Rest>> \o SubSeq(responses, k, Len(responses)) \in Seq(ResponsePiece)
        BY <4>1, <4>2, ConcatProperties
      <4> QED
        BY <3>2, <4>1, <4>3
    <3> QED
      BY <1>4, <3>1, <3>2 DEF Misread, Leftovers
  <2>2. call' \in [Calls -> Call]
    BY <1>0, <1>4 DEF Misread
  <2> QED
    BY <1>4, <2>1, <2>2 DEF Misread
<1>5. ASSUME NEW c \in Calls, Kill(c) \/ CallFails(c) PROVE SockTypeOK'
  BY <1>0, <1>5 DEF Kill, CallFails
<1>6. CASE ReadRequest
  <2>1. Head(requests) \in RequestPiece /\ Tail(requests) \in Seq(RequestPiece)
    BY <1>6 DEF ReadRequest
  <2>2. server' = Gone \/ server' = Facing("argv", Head(requests).of) \/ server' = Facing("status", Head(requests).of)
    BY <1>6 DEF ReadRequest, Facing
  <2>3. server' \in Server
    BY <1>0, <1>a, <2>1, <2>2 DEF RequestPiece, Answering
  <2> QED
    BY <1>6, <2>1, <2>3 DEF ReadRequest
<1>7. CASE WriteResponse
  <2>1. server.at \in Answering /\ server.verb \in Verbs
    BY <1>7 DEF WriteResponse, Send, Server, Listening, Gone, Answering
  <2>2. Piece(server.at, Dispatch(server.verb)) \in ResponsePiece
    BY <2>1 DEF Piece, ResponsePiece, Dispatch, Response
  <2>3. After(server.at, server.verb) \in {"size", "payload", "end"}
    BY DEF After
  <2>4. Following \in Server
    BY <1>0, <1>a, <2>1, <2>3 DEF Following, Facing, Answering
  <2> QED
    BY <1>7, <2>2, <2>4 DEF WriteResponse, Send, Piece
<1>8. CASE HookExits \/ UNCHANGED sockVars
  BY <1>8 DEF HookExits, sockVars
<1> QED
  BY <1>1, <1>2, <1>3, <1>4, <1>5, <1>6, <1>7, <1>8 DEF SockNext

(* Calls that are disturbed stay so. *)
LEMMA DisturbedStays == [SockNext]_sockVars => (disturbed => disturbed')
BY DEF SockNext, sockVars, WriteLength, WriteArgv, ReadRequest, WriteResponse, Send, ReadResponse,
       Misread, Kill, HookExits, CallFails

(* Undisturbed, the call that waits is in turn, and the rest are not on the stream. *)
LEMMA OnlyOne ==
  ASSUME OneAtATime, ~disturbed, NEW c \in Sending
  PROVE  Sending = {c} /\ InTurn(call[c].at, call[c].verb, requests, server, responses)
BY DEF OneAtATime

LEMMA SockInvStep == SockInv /\ [SockNext]_sockVars => SockInv'
<1> SUFFICES ASSUME SockInv, [SockNext]_sockVars PROVE SockInv'
  OBVIOUS
<1>0. /\ call \in [Calls -> Call] /\ requests \in Seq(RequestPiece) /\ responses \in Seq(ResponsePiece)
      /\ disturbed \in BOOLEAN /\ running \in BOOLEAN /\ SockTypeOK' /\ OneAtATime
  BY SockTypes DEF SockInv, SockTypeOK
<1>a. CASE disturbed'
  BY <1>0, <1>a DEF SockInv, OneAtATime, OwnResponses
<1>b. CASE ~disturbed'
  <2>0. ~disturbed
    BY <1>b, DisturbedStays
  <2> SUFFICES OneAtATime' /\ OwnResponses'
    BY <1>0 DEF SockInv
  <2>1. ASSUME NEW c \in Calls, NEW verb \in Verbs, WriteLength(c, verb)
        PROVE  OneAtATime' /\ OwnResponses'
    <3>1. /\ call'[c].at = "argv" /\ call'[c].verb = verb /\ \A x \in Calls \ {c} : call'[x] = call[x]
      BY <1>0, <2>1 DEF WriteLength
    <3>2. Sending = {} /\ responses = <<>> /\ requests = <<>> /\ server = Listening
      BY <1>0, <1>b, <2>0, <2>1 DEF WriteLength, OneAtATime
    <3>3. OwnResponses'
      BY <2>0, <2>1, <3>1 DEF WriteLength, SockInv, OwnResponses
    <3>4. Sending' = {c}
      BY <3>1, <3>2 DEF Sending, Reading
    <3>5. requests' = <<Piece("length", verb)>> /\ responses' = <<>> /\ server' = Listening
      BY <2>1, <3>2 DEF WriteLength, Piece
    <3>6. InTurn("argv", verb, requests', server', responses')
      BY <3>5 DEF InTurn, Asked
    <3> QED
      BY <3>1, <3>3, <3>4, <3>6 DEF OneAtATime
  <2>2. ASSUME NEW c \in Calls, WriteArgv(c) PROVE OneAtATime' /\ OwnResponses'
    <3>1. /\ call'[c].at = "status" /\ call'[c].verb = call[c].verb
          /\ \A x \in Calls \ {c} : call'[x] = call[x]
      BY <1>0, <2>2 DEF WriteArgv
    <3>2. Sending = {c} /\ InTurn("argv", call[c].verb, requests, server, responses)
      BY <1>0, <2>0, <2>2, OnlyOne DEF WriteArgv, Sending
    <3>3. Sending' = {c}
      BY <3>1, <3>2 DEF Sending, Reading, Answering
    <3>4. InTurn("status", call[c].verb, requests', server', responses')
      BY <2>2, <3>2, ArgvFollows DEF WriteArgv, Piece
    <3>5. OwnResponses'
      BY <2>0, <2>2, <3>1 DEF WriteArgv, SockInv, OwnResponses
    <3> QED
      BY <3>1, <3>3, <3>4, <3>5 DEF OneAtATime
  <2>3. ASSUME NEW c \in Calls, ReadResponse(c) PROVE OneAtATime' /\ OwnResponses'
    <3> DEFINE v == call[c].verb
               next == After(call[c].at, v)
    <3>1. Sending = {c} /\ InTurn(call[c].at, v, requests, server, responses) /\ responses # <<>>
      BY <1>0, <2>0, <2>3, OnlyOne DEF ReadResponse, Sending, Reading
    <3>2. Head(responses) = Piece(call[c].at, Dispatch(v))
      BY <3>1, ResponseInOrder
    <3>3. /\ Head(responses).part = call[c].at /\ Head(responses).of = Dispatch(v)
          /\ Head(responses).of.of = v
      BY <3>2 DEF Piece, Dispatch
    <3>4. /\ call'[c] = IF next = "end" THEN [at |-> "done", verb |-> v, got |-> Dispatch(v)]
                        ELSE Facing(next, v)
          /\ \A x \in Calls \ {c} : call'[x] = call[x]
          /\ requests' = requests /\ server' = server /\ responses' = Tail(responses)
      BY <1>0, <2>3, <3>3 DEF ReadResponse, Facing
    <3>5. CASE next = "end"
      <4>1. requests = <<>> /\ server = Listening /\ Tail(responses) = <<>>
        BY <3>1, <3>5, ResponseInOrder
      <4>2. call'[c].at = "done" /\ call'[c].verb = v /\ call'[c].got = Dispatch(v)
        BY <3>4, <3>5
      <4>3. Sending' = {}
        BY <3>1, <3>4, <4>2 DEF Sending, Reading, Answering
      <4>4. OwnResponses'
        BY <2>0, <3>4, <4>2 DEF SockInv, OwnResponses, Dispatch
      <4> QED
        BY <3>4, <4>1, <4>3, <4>4 DEF OneAtATime
    <3>6. CASE next # "end"
      <4>1. InTurn(next, v, requests, server, Tail(responses))
        BY <3>1, <3>6, ResponseInOrder
      <4>2. call'[c].at = next /\ call'[c].verb = v /\ next \in {"size", "payload"}
        BY <3>4, <3>6 DEF Facing, After
      <4>3. Sending' = {c}
        BY <3>1, <3>4, <4>2 DEF Sending, Reading, Answering
      <4>4. OwnResponses'
        BY <2>0, <3>4, <4>2 DEF SockInv, OwnResponses, Dispatch
      <4> HIDE DEF v, next
      <4>5. InTurn(call'[c].at, call'[c].verb, requests', server', responses')
        BY <3>4, <4>1, <4>2
      <4> QED
        BY <4>3, <4>4, <4>5 DEF OneAtATime
    <3> QED
      BY <3>5, <3>6
  <2>4. ASSUME NEW c \in Calls, Misread(c) PROVE FALSE
    <3>1. InTurn(call[c].at, call[c].verb, requests, server, responses) /\ responses # <<>>
      BY <1>0, <2>0, <2>4, OnlyOne DEF Misread, Sending
    <3>2. Head(responses) = Piece(call[c].at, Dispatch(call[c].verb))
      BY <3>1, ResponseInOrder
    <3> QED
      BY <2>4, <3>2 DEF Misread, Piece
  <2>5. ASSUME NEW c \in Calls, CallFails(c) PROVE OneAtATime' /\ OwnResponses'
    <3>1. call'[c] = Broken /\ \A x \in Calls \ {c} : call'[x] = call[x]
      BY <1>0, <2>5 DEF CallFails
    <3>2. Sending = {c} /\ InTurn(call[c].at, call[c].verb, requests, server, responses)
      BY <1>0, <2>0, <2>5, OnlyOne DEF CallFails, Sending
    <3>3. responses = <<>>
      <4>1. CASE call[c].at = "argv"
        BY <3>2, <4>1 DEF InTurn, Answered
      <4> QED
        BY <2>5, <4>1 DEF CallFails
    <3>4. OwnResponses'
      BY <2>0, <2>5, <3>1 DEF CallFails, SockInv, OwnResponses, Broken
    <3>5. Sending' = {} /\ responses' = <<>> /\ ~running'
      BY <2>5, <3>1, <3>2, <3>3 DEF CallFails, Sending, Reading, Broken, Answering
    <3> QED
      BY <3>4, <3>5 DEF OneAtATime
  <2>6. ASSUME ReadRequest PROVE OneAtATime' /\ OwnResponses'
    <3>1. call' = call /\ responses' = responses /\ requests # <<>> /\ running
      BY <2>6 DEF ReadRequest
    <3>2. OwnResponses' /\ Sending' = Sending
      BY <2>0, <3>1 DEF SockInv, OwnResponses, Sending, Reading, Dispatch
    <3> PICK c \in Calls : Sending = {c} /\ InTurn(call[c].at, call[c].verb, requests, server, responses)
      BY <1>0, <2>0, <3>1 DEF OneAtATime
    <3>3. /\ Head(requests).part = server.at /\ Head(requests).of = call[c].verb
          /\ InTurn(call[c].at, call[c].verb, Tail(requests),
                    Facing(IF Head(requests).part = "length" THEN "argv" ELSE "status", call[c].verb),
                    responses)
      BY <3>1, RequestInOrder
    <3>4. /\ requests' = Tail(requests)
          /\ server' = Facing(IF Head(requests).part = "length" THEN "argv" ELSE "status", call[c].verb)
      BY <2>6, <3>3 DEF ReadRequest, Facing
    <3>5. InTurn(call'[c].at, call'[c].verb, requests', server', responses')
      BY <3>1, <3>3, <3>4
    <3> QED
      BY <3>2, <3>5 DEF OneAtATime
  <2>7. ASSUME WriteResponse PROVE OneAtATime' /\ OwnResponses'
    <3>1. call' = call /\ requests' = requests /\ running /\ server.at \in Answering
      BY <2>7 DEF WriteResponse, Send
    <3>2. OwnResponses' /\ Sending' = Sending
      BY <2>0, <3>1 DEF SockInv, OwnResponses, Sending, Reading, Dispatch
    <3> PICK c \in Calls : Sending = {c} /\ InTurn(call[c].at, call[c].verb, requests, server, responses)
      BY <1>0, <2>0, <3>1 DEF OneAtATime, Listening, Answering
    <3>3. /\ server.verb = call[c].verb
          /\ LET part == After(server.at, call[c].verb) IN
             InTurn(call[c].at, call[c].verb, requests,
                    IF part = "end" THEN Listening ELSE Facing(part, call[c].verb),
                    Append(responses, Piece(server.at, Dispatch(call[c].verb))))
      BY <3>1, ResponseFollows
    <3>4. /\ responses' = Append(responses, Piece(server.at, Dispatch(call[c].verb)))
          /\ server' = LET part == After(server.at, call[c].verb) IN
                       IF part = "end" THEN Listening ELSE Facing(part, call[c].verb)
      BY <2>7, <3>3 DEF WriteResponse, Send, Following, Facing, Piece
    <3>5. InTurn(call'[c].at, call'[c].verb, requests', server', responses')
      BY <3>1, <3>3, <3>4
    <3> QED
      BY <3>2, <3>5 DEF OneAtATime
  <2>8. ASSUME HookExits \/ UNCHANGED sockVars PROVE OneAtATime' /\ OwnResponses'
    <3>1. UNCHANGED <<call, requests, responses, server>> /\ (running' => running)
      BY <2>8 DEF HookExits, sockVars
    <3>2. OwnResponses' /\ Sending' = Sending
      BY <2>0, <3>1 DEF SockInv, OwnResponses, Sending, Reading, Dispatch
    <3>3. CASE Sending = {} /\ responses = <<>> /\ (running => requests = <<>> /\ server = Listening)
      BY <3>1, <3>2, <3>3 DEF OneAtATime, Listening
    <3>4. ASSUME NEW c \in Calls, Sending = {c},
                 InTurn(call[c].at, call[c].verb, requests, server, responses)
          PROVE  OneAtATime'
      <4>1. InTurn(call'[c].at, call'[c].verb, requests', server', responses')
        BY <3>1, <3>4
      <4> QED
        BY <3>2, <3>4, <4>1 DEF OneAtATime
    <3> QED
      BY <1>0, <2>0, <3>2, <3>3, <3>4 DEF OneAtATime
  <2>9. ASSUME NEW c \in Calls, Kill(c) PROVE FALSE
    BY <1>b, <2>9 DEF Kill
  <2> QED
    BY <2>1, <2>2, <2>3, <2>4, <2>5, <2>6, <2>7, <2>8, <2>9 DEF SockNext
<1> QED
  BY <1>a, <1>b

LEMMA SockInitInv == SockInit => SockInv
<1> SUFFICES ASSUME SockInit PROVE SockInv
  OBVIOUS
<1>1. SockTypeOK
  <2>1. Idle \in Call /\ Listening \in Server
    BY DEF Call, Server
  <2>2. <<>> \in Seq(RequestPiece) /\ <<>> \in Seq(ResponsePiece)
    OBVIOUS
  <2> QED
    BY <2>1, <2>2 DEF SockInit, SockTypeOK
<1>2. Sending = {} /\ OwnResponses
  <2>1. \A c \in Calls : call[c].at = "idle"
    BY DEF SockInit, Idle
  <2> QED
    BY <2>1 DEF Sending, Reading, Answering, OwnResponses
<1>3. OneAtATime
  BY <1>2 DEF SockInit, OneAtATime
<1> QED
  BY <1>1, <1>2, <1>3 DEF SockInv

(* However many calls a hook makes, one that neither overlaps another nor   *)
(* follows a killed one gets the answer to its own request.                 *)
THEOREM ResponsesAreOwn == SockSpec => []OwnResponses
<1>2. SockInv => OwnResponses
  BY DEF SockInv
<1> QED
  BY SockInitInv, <1>2, SockInvStep, PTL DEF SockSpec

-----------------------------------------------------------------------------
(* The operator's consumer controllers.  A consumer that nobody will look at *)
(* again has its condition, and one that is being looked at unchanged since   *)
(* it was read gets one that its secret accounts for.                         *)
Fits(c) == objects[c].observed = objects[c].generation /\ objects[c].ready \in Findings(c)

Fresh(k) == probe[k].at # "idle" /\ ~probe[k].stale

ConsumersInv ==
  /\ ConsumersTypeOK
  /\ \A c \in AllConsumers : objects[c].exists => secrets[objects[c].spec.secretRef] \in had[c]
  /\ \A c \in AllConsumers : objects[c].exists /\ Quiet(c) => Fits(c)
  /\ \A k \in Controllers : Fresh(k) =>
       /\ probe[k].seen.exists /\ objects[probe[k].consumer] = probe[k].seen
       /\ probe[k].at = "update" => probe[k].verdict \in Findings(probe[k].consumer)

LEMMA NothingIsTyped ==
  NoObject \in Object /\ NoProbe \in Probe /\ NoObject.exists = FALSE /\ NoProbe.at = "idle"
<1>1. Spec # {}
  <2> PICK s \in TokenSecrets : TRUE
    BY SecretAssumption
  <2>1. [endpoint |-> TRUE, secretRef |-> s] \in Spec
    BY DEF Spec
  <2> QED
    BY <2>1
<1>2. NoObject \in Object /\ NoObject.exists = FALSE
  <2>1. (CHOOSE s \in Spec : TRUE) \in Spec
    BY <1>1
  <2> QED
    BY <2>1 DEF NoObject, Object, Verdicts
<1>3. (CHOOSE c \in AllConsumers : TRUE) \in AllConsumers
  BY ConsumerAssumption DEF AllConsumers
<1> QED
  BY <1>2, <1>3 DEF NoProbe, Probe, Verdicts

LEMMA ConsumersInitInv == ConsumersInit => ConsumersInv
<1> SUFFICES ASSUME ConsumersInit PROVE ConsumersInv
  OBVIOUS
<1>1. \A c \in AllConsumers : objects[c] = NoObject
  BY DEF ConsumersInit
<1>2. \A k \in Controllers : probe[k] = NoProbe
  BY DEF ConsumersInit
<1>3. ConsumersTypeOK
  BY <1>2, NothingIsTyped, ChangesAssumption DEF ConsumersInit, ConsumersTypeOK, States
<1> QED
  BY <1>1, <1>2, <1>3, NothingIsTyped DEF ConsumersInv, Fresh

LEMMA ControllersDiffer ==
  ASSUME NEW c \in AllConsumers
  PROVE  /\ ControllerOf(c) \in Controllers
         /\ ControllerOf(c) = "consumer" <=> c \notin Clustered
BY ConsumerAssumption DEF AllConsumers, ControllerOf, Controllers

(* A spec is written, or its consumer deleted. *)
LEMMA WrittenKeeps ==
  ASSUME ConsumersInv, NEW c \in AllConsumers, NEW object \in Object, Written(c, object),
         had' \in [AllConsumers -> SUBSET States],
         \A b \in AllConsumers \ {c} : had'[b] = had[b],
         object.exists => secrets[object.spec.secretRef] \in had'[c]
  PROVE  ConsumersInv'
<1> DEFINE k == ControllerOf(c)
<1>0. k \in Controllers
  BY ControllersDiffer
<1>1. ConsumersTypeOK'
  <2>1. objects' \in [AllConsumers -> Object]
    BY DEF Written, ConsumersInv, ConsumersTypeOK
  <2>2. [probe[k] EXCEPT !.stale = @ \/ Probed(c)] \in Probe
    <3>1. probe[k] \in Probe
      BY <1>0 DEF ConsumersInv, ConsumersTypeOK
    <3>2. (probe[k].stale \/ Probed(c)) \in BOOLEAN
      BY <3>1 DEF Probe, Probed
    <3> QED
      BY <3>1, <3>2 DEF Probe
  <2>3. /\ probe' \in [Controllers -> Probe]
        /\ \A j \in Controllers : probe'[j].at = probe[j].at /\ probe'[j].consumer = probe[j].consumer
    BY <1>0, <2>2 DEF Written, ConsumersInv, ConsumersTypeOK, Probe
  <2> QED
    BY <2>1, <2>3, ChangesAssumption DEF Written, Change, ConsumersInv, ConsumersTypeOK
<1>2. /\ objects'[c] = object /\ \A b \in AllConsumers \ {c} : objects'[b] = objects[b]
      /\ \A j \in Controllers :
           /\ probe'[j].at = probe[j].at /\ probe'[j].consumer = probe[j].consumer
           /\ probe'[j].seen = probe[j].seen /\ probe'[j].verdict = probe[j].verdict
           /\ Fresh(j)' => Fresh(j) /\ probe[j].consumer # c
  <2>1. objects \in [AllConsumers -> Object] /\ probe \in [Controllers -> Probe]
    BY DEF ConsumersInv, ConsumersTypeOK
  <2>2. \A j \in Controllers : probe[j].at # "idle" => ControllerOf(probe[j].consumer) = j
    BY DEF ConsumersInv, ConsumersTypeOK
  <2>3. ASSUME NEW j \in Controllers, j # k
        PROVE  probe'[j] = probe[j] /\ (Fresh(j) => probe[j].consumer # c)
    BY <2>1, <2>2, <2>3 DEF Written, Fresh
  <2>4. probe'[k] = [probe[k] EXCEPT !.stale = probe[k].stale \/ Probed(c)] /\ probe[k] \in Probe
    BY <1>0, <2>1 DEF Written
  <2>5. /\ probe'[k].at = probe[k].at /\ probe'[k].consumer = probe[k].consumer
        /\ probe'[k].seen = probe[k].seen /\ probe'[k].verdict = probe[k].verdict
        /\ probe'[k].stale = (probe[k].stale \/ Probed(c))
    BY <2>4 DEF Probe
  <2>6. Fresh(k)' => Fresh(k) /\ probe[k].consumer # c
    BY <2>5 DEF Fresh, Probed
  <2>7. \A j \in Controllers : j # k => Fresh(j)' = Fresh(j)
    BY <2>3 DEF Fresh
  <2>8. objects'[c] = object /\ \A b \in AllConsumers \ {c} : objects'[b] = objects[b]
    BY <2>1 DEF Written
  <2> QED
    BY <2>3, <2>5, <2>6, <2>7, <2>8
<1>3. \A b \in AllConsumers : objects'[b].exists => secrets'[objects'[b].spec.secretRef] \in had'[b]
  BY <1>2 DEF Written, ConsumersInv
<1>4. \A b \in AllConsumers \ {c} : (Quiet(b)' => Quiet(b)) /\ (Fits(b) => Fits(b)') /\ Findings(b)' = Findings(b)
  <2> SUFFICES ASSUME NEW b \in AllConsumers \ {c}
               PROVE  (Quiet(b)' => Quiet(b)) /\ (Fits(b) => Fits(b)') /\ Findings(b)' = Findings(b)
    OBVIOUS
  <2>1. ControllerOf(b) \in Controllers
    BY ControllersDiffer
  <2>2. Findings(b)' = Findings(b)
    BY <1>2 DEF Findings
  <2> QED
    BY <1>2, <2>1, <2>2 DEF Quiet, Fits, Probed, Written
<1>5. ~Quiet(c)'
  BY DEF Written, Quiet
<1>6. \A j \in Controllers : Fresh(j) => probe[j].consumer \in AllConsumers
  BY DEF ConsumersInv, ConsumersTypeOK, Probe
<1> QED
  BY <1>1, <1>2, <1>3, <1>4, <1>5, <1>6 DEF ConsumersInv

(* The worker's steps leave one controller's reconcile changed, or ended. *)
LEMMA UsersKeep ==
  ASSUME ConsumersInv, NEW c \in AllConsumers,
         (\E spec \in Spec : Apply(c, spec)) \/ DeleteConsumer(c) \/ DelayEnds(c)
  PROVE  ConsumersInv'
<1>0. /\ objects \in [AllConsumers -> Object] /\ had \in [AllConsumers -> SUBSET States]
      /\ secrets \in [TokenSecrets -> States]
  BY DEF ConsumersInv, ConsumersTypeOK
<1>1. ASSUME NEW spec \in Spec, Apply(c, spec) PROVE ConsumersInv'
  <2> DEFINE object == IF objects[c].exists
                       THEN [objects[c] EXCEPT !.spec = spec, !.generation = @ + 1]
                       ELSE [NoObject EXCEPT !.exists = TRUE, !.spec = spec, !.generation = 1]
  <2>1. object \in Object /\ object.spec = spec
    <3>1. objects[c] \in Object /\ NoObject \in Object
      BY <1>0, NothingIsTyped
    <3>2. \A o \in Object, n \in Nat : /\ [o EXCEPT !.spec = spec, !.generation = n] \in Object
                                     /\ [o EXCEPT !.spec = spec, !.generation = n].spec = spec
      BY DEF Object
    <3>3. CASE objects[c].exists
      <4>1. object = [objects[c] EXCEPT !.spec = spec, !.generation = @ + 1]
        BY <3>3
      <4>2. objects[c].generation + 1 \in Nat
        BY <3>1 DEF Object
      <4> HIDE DEF object
      <4> QED
        BY <3>1, <3>2, <4>1, <4>2, Zenon
    <3>4. CASE ~objects[c].exists
      <4>1. object = [NoObject EXCEPT !.exists = TRUE, !.spec = spec, !.generation = 1]
        BY <3>4
      <4>2. NoObject \in Object
        BY <3>1
      <4> HIDE DEF object
      <4> QED
        BY <4>1, <4>2 DEF Object
    <3> QED
      BY <3>3, <3>4
  <2>2. spec.secretRef \in TokenSecrets
    BY DEF Spec
  <2>3. had' \in [AllConsumers -> SUBSET States] /\ had'[c] = {secrets[spec.secretRef]}
        /\ \A b \in AllConsumers \ {c} : had'[b] = had[b]
    BY <1>0, <1>1, <2>2 DEF Apply
  <2>4. Written(c, object)
    BY <1>1 DEF Apply
  <2> HIDE DEF object
  <2> QED
    BY <2>1, <2>3, <2>4, WrittenKeeps
<1>2. ASSUME DeleteConsumer(c) PROVE ConsumersInv'
  BY <1>0, <1>2, NothingIsTyped, WrittenKeeps DEF DeleteConsumer
<1>3. ASSUME DelayEnds(c) PROVE ConsumersInv'
  <2>1. ConsumersTypeOK'
    BY <1>3 DEF DelayEnds, ConsumersInv, ConsumersTypeOK
  <2>2. \A b \in AllConsumers : Quiet(b)' => Quiet(b)
    BY <1>3 DEF DelayEnds, Quiet, Probed
  <2> QED
    BY <1>3, <2>1, <2>2 DEF DelayEnds, ConsumersInv, Fits, Fresh, Findings
<1> QED
  BY <1>1, <1>2, <1>3

(* A secret's state is one more that a consumer may have been found in. *)
LEMMA SecretKeeps ==
  ASSUME ConsumersInv, NEW s \in TokenSecrets, NEW state \in States, WriteTokenSecret(s, state)
  PROVE  ConsumersInv'
<1>0. had \in [AllConsumers -> SUBSET States] /\ secrets \in [TokenSecrets -> States]
  BY DEF ConsumersInv, ConsumersTypeOK
<1>1. \A c \in AllConsumers : had'[c] = IF objects[c].spec.secretRef = s THEN had[c] \cup {state} ELSE had[c]
  BY DEF WriteTokenSecret
<1>2. ConsumersTypeOK'
  <2>1. had' \in [AllConsumers -> SUBSET States]
    BY <1>0 DEF WriteTokenSecret
  <2> QED
    BY <2>1, ChangesAssumption DEF WriteTokenSecret, Change, ConsumersInv, ConsumersTypeOK
<1>3. \A c \in AllConsumers : Findings(c) \subseteq Findings(c)'
  BY <1>1 DEF WriteTokenSecret, Findings
<1>4. \A c \in AllConsumers : objects[c].exists => secrets'[objects[c].spec.secretRef] \in had'[c]
  <2> SUFFICES ASSUME NEW c \in AllConsumers, objects[c].exists
               PROVE  secrets'[objects[c].spec.secretRef] \in had'[c]
    OBVIOUS
  <2>1. secrets[objects[c].spec.secretRef] \in had[c]
    BY DEF ConsumersInv
  <2>2. CASE objects[c].spec.secretRef = s
    BY <1>0, <1>1, <2>2 DEF WriteTokenSecret
  <2>3. CASE objects[c].spec.secretRef # s
    BY <1>0, <1>1, <2>1, <2>3 DEF WriteTokenSecret
  <2> QED
    BY <2>2, <2>3
<1>5. \A k \in Controllers : Fresh(k) => probe[k].consumer \in AllConsumers
  BY DEF ConsumersInv, ConsumersTypeOK, Probe
<1> QED
  BY <1>2, <1>3, <1>4, <1>5 DEF WriteTokenSecret, ConsumersInv, Quiet, Probed, Fits, Fresh

LEMMA RestartKeeps == ConsumersInv /\ OperatorRestarts => ConsumersInv'
<1> SUFFICES ASSUME ConsumersInv, OperatorRestarts PROVE ConsumersInv'
  OBVIOUS
<1>1. \A k \in Controllers : probe'[k] = NoProbe
  BY DEF OperatorRestarts
<1>2. ConsumersTypeOK'
  BY <1>1, NothingIsTyped, ChangesAssumption DEF OperatorRestarts, Change, ConsumersInv, ConsumersTypeOK
<1> QED
  BY <1>1, <1>2, NothingIsTyped DEF OperatorRestarts, ConsumersInv, Quiet, Fresh

LEMMA TakeKeeps ==
  ASSUME ConsumersInv, NEW c \in AllConsumers, Take(c)
  PROVE  ConsumersInv'
<1> DEFINE k == ControllerOf(c)
           new == [NoProbe EXCEPT !.at = "check", !.consumer = c, !.seen = objects[c]]
<1>0. /\ k \in Controllers /\ objects[c] \in Object /\ probe \in [Controllers -> Probe]
      /\ probe[k].at = "idle"
  BY ControllersDiffer DEF ConsumersInv, ConsumersTypeOK, Take
<1>1. CASE ~objects[c].exists
  <2>1. ConsumersTypeOK'
    BY <1>1 DEF Take, ConsumersInv, ConsumersTypeOK
  <2>2. \A b \in AllConsumers : objects[b].exists /\ Quiet(b)' => Quiet(b)
    BY <1>1 DEF Take, Quiet, Probed
  <2> QED
    BY <1>1, <2>1, <2>2 DEF Take, ConsumersInv, Fits, Fresh, Findings
<1>2. CASE objects[c].exists
  <2>1. new \in Probe /\ new.at = "check" /\ new.consumer = c /\ new.seen = objects[c]
    BY <1>0, NothingIsTyped DEF Probe
  <2>2. probe'[k] = new /\ probe' \in [Controllers -> Probe] /\ \A j \in Controllers \ {k} : probe'[j] = probe[j]
    BY <1>0, <1>2, <2>1 DEF Take
  <2> HIDE DEF new
  <2>3. ConsumersTypeOK'
    BY <2>1, <2>2 DEF Take, ConsumersInv, ConsumersTypeOK
  <2>4. \A b \in AllConsumers : Quiet(b)' => Quiet(b)
    <3> SUFFICES ASSUME NEW b \in AllConsumers, Quiet(b)' PROVE Quiet(b)
      OBVIOUS
    <3>1. ControllerOf(b) \in Controllers
      BY ControllersDiffer
    <3>2. b # c
      BY <2>1, <2>2 DEF Quiet, Probed
    <3>3. b \notin due \cup delayed
      BY <3>2 DEF Quiet, Take
    <3>4. ~Probed(b)
      BY <1>0, <2>2, <3>1 DEF Quiet, Probed
    <3> QED
      BY <3>3, <3>4 DEF Quiet
  <2>5. \A b \in AllConsumers : objects'[b].exists /\ Quiet(b)' => Fits(b)'
    BY <2>4 DEF Take, ConsumersInv, Fits, Findings
  <2>6. \A j \in Controllers : Fresh(j)' =>
          /\ probe'[j].seen.exists /\ objects'[probe'[j].consumer] = probe'[j].seen
          /\ (probe[j].at = "update" => probe[j].verdict \in Findings(probe[j].consumer))'
    <3> SUFFICES ASSUME NEW j \in Controllers, Fresh(j)'
                 PROVE  /\ probe'[j].seen.exists /\ objects'[probe'[j].consumer] = probe'[j].seen
                        /\ (probe[j].at = "update" => probe[j].verdict \in Findings(probe[j].consumer))'
      OBVIOUS
    <3>1. CASE j = k
      BY <1>2, <2>1, <2>2, <3>1 DEF Take
    <3>2. CASE j # k
      <4>1. probe'[j] = probe[j] /\ Fresh(j)
        BY <2>2, <3>2 DEF Fresh
      <4> QED
        BY <4>1 DEF Take, ConsumersInv, Findings
    <3> QED
      BY <3>1, <3>2
  <2>7. \A b \in AllConsumers : objects'[b].exists => secrets'[objects'[b].spec.secretRef] \in had'[b]
    BY DEF Take, ConsumersInv
  <2> QED
    BY <2>3, <2>5, <2>6, <2>7 DEF ConsumersInv
<1> QED
  BY <1>1, <1>2

LEMMA GetFailsKeeps ==
  ASSUME ConsumersInv, NEW c \in AllConsumers, GetFails(c)
  PROVE  ConsumersInv'
<1>1. ConsumersTypeOK'
  BY ChangesAssumption DEF GetFails, Change, ConsumersInv, ConsumersTypeOK
<1>2. \A b \in AllConsumers : Quiet(b)' => Quiet(b)
  BY DEF GetFails, Quiet, Probed
<1> QED
  BY <1>1, <1>2 DEF GetFails, ConsumersInv, Fits, Fresh, Findings

LEMMA JudgedKeeps ==
  ASSUME ConsumersInv, NEW k \in Controllers, NEW verdict \in Verdicts, Judged(k, verdict),
         changes' \in 0..MaxChanges,
         Fresh(k) => verdict \in Findings(probe[k].consumer)
  PROVE  ConsumersInv'
<1>0. probe[k] \in Probe /\ probe \in [Controllers -> Probe] /\ probe[k].at = "check"
  BY DEF ConsumersInv, ConsumersTypeOK, Judged
<1> DEFINE new == [probe[k] EXCEPT !.at = "update", !.verdict = verdict]
<1>1. /\ new \in Probe /\ new.at = "update" /\ new.verdict = verdict
      /\ new.consumer = probe[k].consumer /\ new.seen = probe[k].seen /\ new.stale = probe[k].stale
  BY <1>0 DEF Probe
<1>2. probe'[k] = new /\ probe' \in [Controllers -> Probe] /\ \A j \in Controllers \ {k} : probe'[j] = probe[j]
  BY <1>0, <1>1 DEF Judged
<1> HIDE DEF new
<1>3. ConsumersTypeOK'
  BY <1>0, <1>1, <1>2 DEF Judged, ConsumersInv, ConsumersTypeOK
<1>4. \A b \in AllConsumers : Quiet(b)' => Quiet(b)
  <2> SUFFICES ASSUME NEW b \in AllConsumers, Quiet(b)' PROVE Quiet(b)
    OBVIOUS
  <2>1. ControllerOf(b) \in Controllers
    BY ControllersDiffer
  <2> QED
    BY <1>0, <1>1, <1>2, <2>1 DEF Quiet, Probed, Judged
<1>5. \A b : Findings(b)' = Findings(b)
  BY DEF Judged, Findings
<1>6. \A j \in Controllers : Fresh(j)' => Fresh(j)
  BY <1>0, <1>1, <1>2 DEF Fresh
<1> QED
  BY <1>0, <1>1, <1>2, <1>3, <1>4, <1>5, <1>6 DEF Judged, ConsumersInv, Fits

LEMMA CheckKeeps ==
  ASSUME ConsumersInv, NEW k \in Controllers,
         CheckEndpoint(k) \/ CheckSecret(k) \/ SecretUnreadable(k)
  PROVE  ConsumersInv'
<1> DEFINE c == probe[k].consumer
           seen == probe[k].seen
<1>0. /\ probe[k] \in Probe /\ c \in AllConsumers /\ seen.spec.secretRef \in TokenSecrets
      /\ changes \in 0..MaxChanges /\ secrets \in [TokenSecrets -> States]
  BY DEF ConsumersInv, ConsumersTypeOK, Probe, Object, Spec
<1>1. probe[k].at = "check"
  BY DEF CheckEndpoint, CheckSecret, SecretUnreadable, Judged
<1>2. ControllerOf(c) = k
  BY <1>1 DEF ConsumersInv, ConsumersTypeOK
<1>3. Fresh(k) => objects[c] = seen /\ seen.exists
  BY DEF ConsumersInv
<1>4. k = "consumer" <=> c \notin Clustered
  BY <1>0, <1>2, ControllersDiffer
<1>5. CASE CheckEndpoint(k)
  <2> DEFINE verdict == IF seen.spec.endpoint THEN "Valid" ELSE "InvalidEndpoint"
  <2>1. verdict \in Verdicts /\ Judged(k, verdict) /\ changes' = changes
    BY <1>5 DEF CheckEndpoint, Verdicts
  <2>2. Fresh(k) => verdict \in Findings(c)
    BY <1>3, <1>4, <1>5 DEF CheckEndpoint, Findings
  <2> QED
    BY <1>0, <2>1, <2>2, JudgedKeeps
<1>6. CASE CheckSecret(k)
  <2> DEFINE state == secrets[seen.spec.secretRef]
  <2>1. state \in States
    BY <1>0
  <2>2. TokenVerdict(state) \in Verdicts /\ Judged(k, TokenVerdict(state)) /\ changes' = changes
    BY <1>6, <2>1 DEF CheckSecret, TokenVerdict, States, Verdicts
  <2>3. Fresh(k) => state \in had[c]
    BY <1>0, <1>3 DEF ConsumersInv
  <2>4. Fresh(k) => TokenVerdict(state) \in Findings(c)
    BY <1>3, <1>4, <1>6, <2>3 DEF CheckSecret, Findings
  <2> QED
    BY <1>0, <2>2, <2>4, JudgedKeeps
<1>7. CASE SecretUnreadable(k)
  <2>1. "Unreadable" \in Verdicts /\ Judged(k, "Unreadable") /\ changes' \in 0..MaxChanges
    BY <1>0, <1>7, ChangesAssumption DEF SecretUnreadable, Verdicts, Change
  <2>2. Fresh(k) => "Unreadable" \in Findings(c)
    BY <1>3, <1>4, <1>7 DEF SecretUnreadable, Findings
  <2> QED
    BY <2>1, <2>2, JudgedKeeps
<1> QED
  BY <1>5, <1>6, <1>7

(* A reconcile ends with the consumer held back, changed by it, or done. *)
LEMMA EndsKeeps ==
  ASSUME ConsumersInv, NEW k \in Controllers, Ends(k), probe[k].at # "idle",
         NEW object \in Object, objects' = [objects EXCEPT ![probe[k].consumer] = object],
         UNCHANGED <<secrets, had>>, changes' \in 0..MaxChanges,
         object.exists = objects[probe[k].consumer].exists,
         object.spec = objects[probe[k].consumer].spec,
         due \subseteq due', delayed \subseteq delayed',
         due' \subseteq AllConsumers, delayed' \subseteq AllConsumers,
         object.exists /\ probe[k].consumer \notin due' \cup delayed'
           => /\ object.observed = object.generation
              /\ object.ready \in Findings(probe[k].consumer)
  PROVE  ConsumersInv'
<1> DEFINE c == probe[k].consumer
<1>0. /\ probe \in [Controllers -> Probe] /\ c \in AllConsumers
      /\ objects \in [AllConsumers -> Object]
      /\ \A j \in Controllers : probe[j].at # "idle" => ControllerOf(probe[j].consumer) = j
  BY DEF ConsumersInv, ConsumersTypeOK, Probe
<1>1. probe'[k] = NoProbe /\ probe' \in [Controllers -> Probe] /\ \A j \in Controllers \ {k} : probe'[j] = probe[j]
  BY <1>0, NothingIsTyped DEF Ends
<1>2. objects'[c] = object /\ \A b \in AllConsumers \ {c} : objects'[b] = objects[b]
  BY <1>0
<1>3. ConsumersTypeOK'
  <2>1. objects' \in [AllConsumers -> Object]
    BY <1>0
  <2>2. \A j \in Controllers : probe'[j].at # "idle" => ControllerOf(probe'[j].consumer) = j
    BY <1>0, <1>1, NothingIsTyped
  <2> QED
    BY <1>1, <2>1, <2>2 DEF ConsumersInv, ConsumersTypeOK
<1>4. \A b \in AllConsumers : objects'[b].exists = objects[b].exists /\ objects'[b].spec = objects[b].spec
  BY <1>2
<1>5. \A b \in AllConsumers : Findings(b)' = Findings(b)
  BY <1>4 DEF Findings
<1>6. \A b \in AllConsumers \ {c} : Quiet(b)' => Quiet(b)
  <2> SUFFICES ASSUME NEW b \in AllConsumers \ {c}, Quiet(b)' PROVE Quiet(b)
    OBVIOUS
  <2>1. ControllerOf(b) \in Controllers
    BY ControllersDiffer
  <2> QED
    BY <1>1, <2>1 DEF Quiet, Probed
<1>7. \A j \in Controllers : Fresh(j)' => Fresh(j) /\ j # k
  BY <1>1, NothingIsTyped DEF Fresh
<1>8. ASSUME NEW j \in Controllers \ {k}, Fresh(j) PROVE probe[j].consumer # c
  BY <1>0, <1>8 DEF Fresh
<1>9. \A b \in AllConsumers : objects'[b].exists /\ Quiet(b)' => Fits(b)'
  BY <1>2, <1>5, <1>6 DEF ConsumersInv, Fits, Quiet
<1>10. ASSUME NEW j \in Controllers, Fresh(j)'
       PROVE  /\ probe'[j].seen.exists /\ objects'[probe'[j].consumer] = probe'[j].seen
              /\ probe'[j].at = "update" => (probe[j].verdict \in Findings(probe[j].consumer))'
  <2>1. Fresh(j) /\ j # k /\ probe'[j] = probe[j] /\ probe[j].consumer # c
    BY <1>1, <1>7, <1>8, <1>10
  <2>2. probe[j].consumer \in AllConsumers
    BY <1>0 DEF Probe
  <2>3. /\ probe[j].seen.exists /\ objects[probe[j].consumer] = probe[j].seen
        /\ probe[j].at = "update" => probe[j].verdict \in Findings(probe[j].consumer)
    BY <2>1 DEF ConsumersInv
  <2>4. Findings(probe[j].consumer)' = Findings(probe[j].consumer)
    BY <1>4, <2>1, <2>2 DEF Findings
  <2> QED
    BY <1>2, <2>1, <2>2, <2>3, <2>4
<1>11. \A b \in AllConsumers : objects'[b].exists => secrets'[objects'[b].spec.secretRef] \in had'[b]
  BY <1>4 DEF ConsumersInv
<1> QED
  BY <1>3, <1>9, <1>10, <1>11 DEF ConsumersInv

LEMMA UpdateKeeps ==
  ASSUME ConsumersInv, NEW k \in Controllers,
         UpdateStatus(k) \/ UpdateConflicts(k) \/ UpdateFails(k)
  PROVE  ConsumersInv'
<1> DEFINE c == probe[k].consumer
           old == objects[c]
<1>0. /\ probe[k] \in Probe /\ c \in AllConsumers /\ old \in Object /\ objects \in [AllConsumers -> Object]
      /\ due \subseteq AllConsumers /\ delayed \subseteq AllConsumers /\ changes \in 0..MaxChanges
  BY DEF ConsumersInv, ConsumersTypeOK, Probe
<1>1. probe[k].at = "update" /\ Ends(k) /\ changes' \in 0..MaxChanges /\ UNCHANGED <<secrets, had>>
  BY <1>0, ChangesAssumption
  DEF UpdateStatus, UpdateConflicts, UpdateFails, Updates, RequeueError, Change
<1>2. CASE Updates(k)
  <2> DEFINE new == Reported(k)
  <2>1. ~probe[k].stale /\ objects' = [objects EXCEPT ![c] = new] /\ due' = IF new = old THEN due ELSE due \cup {c}
    BY <1>2 DEF Updates
  <2>2. old = probe[k].seen /\ probe[k].verdict \in Findings(c)
    BY <1>1, <2>1 DEF ConsumersInv, Fresh
  <2>3. /\ new \in Object /\ new.exists = old.exists /\ new.spec = old.spec
        /\ new.observed = new.generation /\ new.ready = probe[k].verdict
    BY <1>0, <2>2 DEF Reported, Object, Probe
  <2>4. delayed \subseteq delayed' /\ delayed' \subseteq AllConsumers
    BY <1>0 DEF UpdateStatus, UpdateConflicts, UpdateFails, RequeueError
  <2> HIDE DEF new, old
  <2> QED
    BY <1>0, <1>1, <2>1, <2>2, <2>3, <2>4, EndsKeeps DEF old
<1>3. CASE ~Updates(k)
  <2>1. RequeueError(k) /\ UNCHANGED <<objects, due>>
    BY <1>3 DEF UpdateStatus, UpdateConflicts, UpdateFails
  <2>2. objects' = [objects EXCEPT ![c] = old]
    BY <1>0, <2>1
  <2>3. c \in delayed' /\ delayed \subseteq delayed' /\ delayed' \subseteq AllConsumers
    BY <1>0, <2>1 DEF RequeueError
  <2> HIDE DEF old
  <2> QED
    BY <1>0, <1>1, <2>1, <2>2, <2>3, EndsKeeps DEF old
<1> QED
  BY <1>2, <1>3

LEMMA ConsumersNextInv == ConsumersInv /\ [ConsumersNext]_consumerVars => ConsumersInv'
<1> SUFFICES ASSUME ConsumersInv, [ConsumersNext]_consumerVars PROVE ConsumersInv'
  OBVIOUS
<1>1. CASE UNCHANGED consumerVars
  BY <1>1 DEF consumerVars, ConsumersInv, ConsumersTypeOK, Quiet, Probed, Fits, Findings, Fresh
<1>2. CASE ConsumersNext
  BY <1>2, UsersKeep, SecretKeeps, RestartKeeps, TakeKeeps, GetFailsKeeps, CheckKeeps, UpdateKeeps DEF ConsumersNext
<1> QED
  BY <1>1, <1>2

(* Whatever users write, calls fail or pods restart, no consumer is left     *)
(* with the condition of an earlier spec, nor with one that its secret did   *)
(* not account for since the spec was written.                               *)
THEOREM ConditionsHold == ConsumersSpec => []ConditionsFollowTheSpec
<1>1. ConsumersInv => ConditionsFollowTheSpec
  BY DEF ConsumersInv, Fits, ConditionsFollowTheSpec
<1> QED
  BY ConsumersInitInv, ConsumersNextInv, <1>1, PTL DEF ConsumersSpec

-----------------------------------------------------------------------------
(* The four programs (MCClients): each moves where it is deployed. *)
ClientsInv ==
  /\ deployed \in Programs
  /\ deployed = "caddy" => CacheInv /\ ProviderInv
  /\ deployed = "agent" => AgentInv
  /\ deployed = "hook" => SockInv
  /\ deployed = "operator" => ConsumersInv

LEMMA ClientsInitInv == ClientsInit => ClientsInv
BY InitBounds, ProviderInit, AgentInitInv, SockInitInv, ConsumersInitInv DEF ClientsInit, ClientsInv

LEMMA ClientsNextInv == ClientsInv /\ [ClientsNext]_clientsVars => ClientsInv'
<1> SUFFICES ASSUME ClientsInv, [ClientsNext]_clientsVars PROVE ClientsInv'
  OBVIOUS
<1>1. deployed' = deployed
  BY DEF ClientsNext, clientsVars
<1>2. CASE deployed = "caddy"
  <2>1. [CaddyNext]_<<hubVars, caddyVars>>
    BY <1>2 DEF ClientsNext, clientsVars
  <2> QED
    BY <1>1, <1>2, <2>1, CacheNext, ProviderStep DEF ClientsInv
<1>3. CASE deployed = "agent"
  <2>1. [AgentNext]_<<hubVars, agentVars>>
    BY <1>3 DEF ClientsNext, clientsVars
  <2> QED
    BY <1>1, <1>3, <2>1, AgentNextInv DEF ClientsInv
<1>4. CASE deployed = "hook"
  <2>1. [SockNext]_sockVars
    BY <1>4 DEF ClientsNext, clientsVars
  <2> QED
    BY <1>1, <1>4, <2>1, SockInvStep DEF ClientsInv
<1>5. CASE deployed = "operator"
  <2>1. [ConsumersNext]_consumerVars
    BY <1>5 DEF ClientsNext, clientsVars
  <2> QED
    BY <1>1, <1>5, <2>1, ConsumersNextInv DEF ClientsInv
<1> QED
  BY <1>2, <1>3, <1>4, <1>5 DEF ClientsInv, Programs

(* The plugin's cache and handshakes, the agent's loop, the hook's stream and *)
(* the controllers' reconciles stay well typed, for any constants.            *)
THEOREM ClientsTypes == ClientsSpec => []ClientsTypeOK
<1>1. ProviderInv => provider = Serving \/ provider.at \in {"new", "configured", "failed"}
  BY DEF ProviderInv
<1>2. CacheInv /\ ProviderInv => CaddyTypeOK
  BY <1>1 DEF CacheInv, CacheTypes, CaddyTypeOK
<1>3. ClientsInv => ClientsTypeOK
  BY <1>2 DEF ClientsInv, AgentInv, SockInv, ConsumersInv, Programs, ClientsTypeOK
<1> QED
  BY ClientsInitInv, ClientsNextInv, <1>3, PTL DEF ClientsSpec
=============================================================================
