--------------------------- MODULE MCDnsChallenge ---------------------------
(* An order for a wildcard and its apex, next to one for the apex alone or   *)
(* for a host below it: e.x in the zones e.x and x.                          *)
EXTENDS DnsChallenge, TLC

MCOrders     == {"both", "other"}
MCChallenges == {"star", "apex", "again"}
MCOrderOf    == ("star" :> "both") @@ ("apex" :> "both") @@ ("again" :> "other")
MCBare       == ("star" :> "e") @@ ("apex" :> "e") @@ ("again" :> "e")
MCValue      == ("star" :> "v1") @@ ("apex" :> "v2") @@ ("again" :> "v2")
MCZones      == {"e.x", "x"}
MCSuffixes   == ("e" :> <<"e.x", "x">>)
MCCreds      == {"cf", "ali", "blank"}
MCForeign    == {[id |-> 0, zone |-> "x", name |-> "h", text |-> "theirs", quoted |-> TRUE]}
MCContains   == {<<"h", "e">>}
MCTables     == {"e.x" :> "blank" @@ "x" :> "ali",
                 "e.x" :> "unregistered" @@ "x" :> "ali", "e.x" :> "cf" @@ "x" :> "ali",
                 "e.x" :> "unbound" @@ "x" :> "cf"}
=============================================================================
