----------------------------- MODULE CaddyCache -----------------------------
(***************************************************************************)
(* The Caddy plugin (integrations/caddy): TLS handshakes ask it for the    *)
(* certificate of a host; it answers from its cache or asks the hub, for   *)
(* the wildcard the Caddy configuration has for that host, and keeps the   *)
(* answer for max-age.  Handshakes run concurrently and share nothing but  *)
(* the cache, so two may fetch for one host and store in either order.     *)
(***************************************************************************)
EXTENDS HubSide, CertCoverage

CONSTANTS
  Handshakes,   \* concurrent calls of GetCertificate
  Hosts,        \* server names they ask for
  Wildcards,    \* wildcard subjects a Caddy configuration may have
  Configs       \* configurations Provision may find

ASSUME NamesAssumption == Hosts \subseteq Host /\ Wildcards \subseteq Name
(* An empty profile has become "default". *)
ASSUME ProfileAssumption == \A c \in Configs : c.profile # ""

VARIABLES
  provider,   \* what Provision has made of the configuration it found
  wildcards,  \* p.wildcards
  entries,    \* p.cache: what is kept for each host
  shake       \* where each handshake is

caddyVars == <<provider, wildcards, entries, shake>>

Reply   == [nb: Nat, maxAge: Nat]
Entry   == [domain: Name, nb: Nat, expiresAt: Nat]
NoEntry == [expiresAt |-> -1]
Shake   == [at: {"asking", "answered"}, host: Hosts, domain: Name, since: Nat, reply: Reply]
NoShake == [at |-> "idle"]

Serving == [at |-> "serving"]

CaddyTypeOK ==
  /\ provider = Serving \/ provider.at \in {"new", "configured", "failed"}
  /\ wildcards \subseteq Wildcards
  /\ entries \in [Hosts -> Entry \cup {NoEntry}]
  /\ shake \in [Handshakes -> Shake \cup {NoShake}]

-----------------------------------------------------------------------------
(* Where Provision takes endpoint and token from.  A source is the set of  *)
(* fields it gives; the yaml file is a section per profile, or one bare    *)
(* pair of fields.                                                         *)

Both == {"endpoint", "token"}

FromYaml(yaml, profile) ==
  IF yaml.nested
    THEN yaml.section[IF profile = "" THEN "default" ELSE profile]
    ELSE IF profile \in {"", "default"} THEN yaml.bare ELSE {}

(* A slip: one field is enough, the other stays empty. *)
FirstNonEmpty(sources) ==
  LET ok == {i \in DOMAIN sources : sources[i].gives # {}}
  IN  IF ok = {} THEN "none" ELSE sources[CHOOSE i \in ok : \A j \in ok : i <= j].name

FirstOk(sources) ==
  LET ok == {i \in DOMAIN sources : sources[i].gives = Both}
  IN  IF ok = {} THEN "none" ELSE sources[CHOOSE i \in ok : \A j \in ok : i <= j].name

ResolveProfile(c) ==
  FirstOk(IF c.profile = "default"
    THEN << [name |-> "env", gives |-> c.env[""]], [name |-> "env", gives |-> c.env["default"]],
            [name |-> "yaml", gives |-> FromYaml(c.yaml, "")],
            [name |-> "yaml", gives |-> FromYaml(c.yaml, "default")] >>
    ELSE << [name |-> "env", gives |-> c.env[c.profile]],
            [name |-> "yaml", gives |-> FromYaml(c.yaml, c.profile)] >>)

Source(c) ==
  IF c.inline = Both THEN "inline" ELSE IF c.inline # {} THEN "none" ELSE ResolveProfile(c)

(* ACME_HUB_PROXY is parsed last; one that is no URL fails it as well. *)
Provision ==
  /\ provider.at = "new"
  /\ \E proxyParses \in BOOLEAN :
       LET source == Source(provider.config) IN
       provider' = [provider EXCEPT
         !.at = IF source # "none" /\ proxyParses THEN "configured" ELSE "failed",
         !.source = source]
  /\ UNCHANGED <<wildcards, entries, shake>>

DetectWildcards ==
  /\ provider.at = "configured"
  /\ provider' = Serving
  /\ wildcards' \in SUBSET Wildcards
  /\ UNCHANGED <<entries, shake>>

-----------------------------------------------------------------------------
(* A slip: the suffix matches however many labels are in front of it. *)
ResolveSuffix(host) ==
  {w \in wildcards : UnderAnyDepth(w, host)} \cup
  {h \in {host} : \A w \in wildcards : ~UnderAnyDepth(w, host)}

(* The wildcard one label above the host, whichever the map gives first. *)
ResolveDomain(host) ==
  {w \in wildcards : Under(w, host)} \cup {h \in {host} : \A w \in wildcards : ~Under(w, host)}

Get(host) == entries[host] # NoEntry /\ now <= entries[host].expiresAt

CaddyInit ==
  /\ provider \in {[at |-> "new", config |-> c, source |-> "none"] : c \in Configs}
  /\ wildcards = {}
  /\ entries = [h \in Hosts |-> NoEntry]
  /\ shake = [s \in Handshakes |-> NoShake]

(* A hit changes nothing. *)
Miss(s, host) ==
  /\ shake[s] = NoShake /\ ~Get(host)
  /\ \E d \in ResolveDomain(host) :
       shake' = [shake EXCEPT ![s] = [at |-> "asking", host |-> host, domain |-> d,
                                      since |-> now, reply |-> [nb |-> 0, maxAge |-> 0]]]
  /\ UNCHANGED <<provider, wildcards, entries>>

HubAnswers(s) ==
  /\ shake[s].at = "asking"
  /\ shake' = [shake EXCEPT ![s].at = "answered", ![s].reply = Answer]
  /\ UNCHANGED <<provider, wildcards, entries>>

Set(host, domain, reply) ==
  entries' = IF reply.maxAge = 0 THEN entries
             ELSE [entries EXCEPT ![host] = [domain |-> domain, nb |-> reply.nb,
                                             expiresAt |-> now + reply.maxAge]]

Arrive(s) ==
  /\ shake[s].at = "answered"
  /\ Set(shake[s].host, shake[s].domain, shake[s].reply)
  /\ shake' = [shake EXCEPT ![s] = NoShake]
  /\ UNCHANGED <<provider, wildcards>>

(* The hub refuses, or the timeout ends the call. *)
FetchFails(s) ==
  /\ shake[s] # NoShake
  /\ shake' = [shake EXCEPT ![s] = NoShake]
  /\ UNCHANGED <<provider, wildcards, entries>>

CaddyStep ==
  \E s \in Handshakes :
    \/ \E host \in Hosts : Miss(s, host)
    \/ HubAnswers(s) \/ Arrive(s) \/ FetchFails(s)

(* A request is over when its timeout is. *)
NoneOverdue == \A s \in Handshakes : shake[s] # NoShake => now < shake[s].since + Timeout

CaddyTick == NoneOverdue /\ Advance

(* Time spent on provisioning is left out. *)
CaddyNext ==
  \/ (Provision \/ DetectWildcards) /\ UNCHANGED hubVars
  \/ provider = Serving /\ CaddyStep /\ UNCHANGED hubVars
  \/ provider = Serving /\ (CaddyTick \/ Renew) /\ UNCHANGED caddyVars

CaddySpec == HubInit /\ CaddyInit /\ [][CaddyNext]_<<hubVars, caddyVars>>

-----------------------------------------------------------------------------
(* The plugin never looks at a certificate's dates: that what it serves is  *)
(* not due for renewal, let alone expired, rests on max-age alone, also     *)
(* when the answer was long on its way or another handshake stored an older *)
(* one over it (GetCertificate, fetchCert, Set).                            *)
CachedNotDue == \A h \in Hosts : Get(h) => now < entries[h].nb + RenewAge

(* Entries are kept per server name but fetched per wildcard: whatever was  *)
(* asked for must be a certificate the client of that name accepts.         *)
EntriesServeTheirHosts ==
  \A h \in Hosts : entries[h] # NoEntry => Serves(entries[h].domain, h)

(* The strongest complete source wins: inline, then the environment, then   *)
(* the file, as integrations/caddy/README.md ranks them (provider.go:55);   *)
(* half a source is passed over, but half an inline block is an error.      *)
StrongestSourceWins ==
  provider.at \in {"configured", "failed"} =>
    LET c      == provider.config
        inEnv  == c.env[c.profile] = Both \/ (c.profile = "default" /\ c.env[""] = Both)
        inYaml == IF c.yaml.nested THEN c.yaml.section[c.profile] = Both
                  ELSE c.profile = "default" /\ c.yaml.bare = Both
    IN provider.source = CASE c.inline = Both         -> "inline"
                           [] c.inline \notin {{}, Both} -> "none"
                           [] c.inline = {} /\ inEnv  -> "env"
                           [] c.inline = {} /\ ~inEnv -> IF inYaml THEN "yaml" ELSE "none"
=============================================================================
