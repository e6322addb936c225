----------------------------- MODULE MCClients -----------------------------
(* A site deploys the Caddy plugin, the agent, a hook's socket or the        *)
(* operator's consumer controllers: they share the hub at most, so each is   *)
(* explored on its own.                                                      *)
EXTENDS CaddyCache, AgentDaemon, HookSocket, ConsumerReconciler

VARIABLE deployed

Programs == {"caddy", "agent", "hook", "operator"}

MCLabel == {"a", "b", "x"}
MCHost(labels) == [star |-> FALSE, labels |-> labels]
MCWild(labels) == [star |-> TRUE, labels |-> labels]
MCHosts     == {MCHost(<<"b", "a", "x">>)}
MCWildcards == {MCWild(<<"x">>), MCWild(<<"a", "x">>)}
MCHandshakes == {1, 2}
MCCalls == {1, 2}
MCVerbs == {"public", "chain", "bogus"}

MCGiven == {{}, {"endpoint"}, {"endpoint", "token"}}
MCConfigs ==
  [profile: {"default", "prod"}, inline: MCGiven,
   env: [{"", "default", "prod"} -> MCGiven],
   yaml: [nested: BOOLEAN, section: [{"default", "prod"} -> MCGiven], bare: MCGiven]]

ClientsInit ==
  /\ HubInit /\ CaddyInit /\ AgentInit /\ SockInit /\ ConsumersInit
  /\ deployed \in Programs
  /\ deployed # "caddy" => provider.config = CHOOSE c \in MCConfigs : TRUE
  /\ deployed # "agent" => daemon

ClientsNext ==
  /\ UNCHANGED deployed
  /\ \/ deployed = "caddy" /\ CaddyNext /\ UNCHANGED <<agentVars, sockVars, consumerVars>>
     \/ deployed = "agent" /\ AgentNext /\ UNCHANGED <<caddyVars, sockVars, consumerVars>>
     \/ deployed = "hook"  /\ SockNext /\ UNCHANGED <<hubVars, caddyVars, agentVars, consumerVars>>
     \/ deployed = "operator" /\ ConsumersNext
        /\ UNCHANGED <<hubVars, caddyVars, agentVars, sockVars>>

clientsVars == <<deployed, hubVars, caddyVars, agentVars, sockVars, consumerVars>>

ClientsSpec ==
  /\ ClientsInit /\ [][ClientsNext]_clientsVars
  /\ WF_clientsVars(deployed = "agent" /\ (Loop \/ CycleFails)
                    /\ UNCHANGED <<deployed, hubVars, caddyVars, sockVars, consumerVars>>)
  /\ WF_clientsVars(deployed = "agent" /\ HookEnds
                    /\ UNCHANGED <<deployed, hubVars, caddyVars, sockVars, consumerVars>>)
  /\ WF_clientsVars(Serve /\ UNCHANGED <<deployed, hubVars, caddyVars, agentVars, consumerVars>>)
  /\ \A c \in Calls :
       WF_clientsVars(Proceed(c) /\ UNCHANGED <<deployed, hubVars, caddyVars, agentVars, consumerVars>>)

(* The type invariants of the four programs, each where it is deployed. *)
ClientsTypeOK ==
  CASE deployed = "caddy" -> CaddyTypeOK
    [] deployed = "agent" -> AgentTypeOK
    [] deployed = "hook"  -> SockTypeOK
    [] deployed = "operator" -> ConsumersTypeOK
=============================================================================
