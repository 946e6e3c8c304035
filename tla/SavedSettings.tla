--------------------------- MODULE SavedSettings ---------------------------
(***************************************************************************)
(* svc.config with the settings its files hold: what a start loads was     *)
(* saved by an earlier start, or is the default, and each start saves what *)
(* it has loaded.                                                          *)
(***************************************************************************)
EXTENDS Config, Settings

CONSTANT DefaultFile    \* the default files that may be shipped

(* Texts that are printed as they are. *)
Plain(text) == text \notin DOMAIN Escaped
PlainMembers(node) ==
  DOMAIN node \subseteq Nat /\ \A i \in DOMAIN node : Plain(node[i].value)

(* The sections that hold texts only hold plain ones. *)
PlainSections(root, keys) ==
  /\ DOMAIN root \subseteq Nat
  /\ \A i \in DOMAIN root : root[i].key \in keys => PlainMembers(root[i].value)

PlainNtp(node) ==
  /\ DOMAIN node \subseteq Nat /\ Has(node, "serverList")
  /\ \A i \in DOMAIN node : node[i].key = "serverList" =>
       /\ node[i].value \in Seq(STRING)
       /\ \A j \in DOMAIN node[i].value : Plain(node[i].value[j])

(* No text but the name has characters that JSON escapes, there is a time  *)
(* zone, and there are addresses, the second of dns under the key dns1.    *)
Shipped(json) ==
  /\ PlainSections(json.system, {"timezone", "info"})
  /\ Has(json.system, "timezone")
  /\ \A i \in DOMAIN json.system :
       /\ json.system[i].key = "subModel" => Plain(json.system[i].value)
       /\ json.system[i].key = "ntp" => PlainNtp(json.system[i].value)
  /\ PlainSections(json.network, {"basic", "staticIp"})
  /\ Has(json.network, "staticIp")
  /\ \A i \in DOMAIN json.network :
       json.network[i].key = "staticIp" => ~Has(json.network[i].value, "dns2")

ASSUME DefaultFileAssumption == \A json \in DefaultFile : Shipped(json)

(* The settings that must outlive a save: all but a name that JSON has to   *)
(* escape, which grows with every load.                                     *)
Kept(json, m) ==
  IF Has(json.system, "name") /\ ~Plain(json_getObject(json.system, "name"))
  THEN [m EXCEPT !.system.name = ""] ELSE m

KeptUntil(n) ==
  \A json \in DefaultFile :
    /\ Saveable(Settled(json, n))
    /\ Kept(json, Settled(json, n)) = Kept(json, Settled(json, 0))

KeptAtStart == [n \in 0 .. MaxStarts |-> KeptUntil(n)]

(* Saving and loading lose nothing: whichever start's save is loaded, the   *)
(* settings are those the default files gave, and can be saved.             *)
SettingsKept ==
  \A d \in Database : content[d] # None => KeptAtStart[content[d]]
=============================================================================
