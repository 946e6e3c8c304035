------------------------------ MODULE Settings ------------------------------
(***************************************************************************)
(* The classes system and network of the settings and their JSON form      *)
(* (config-system.c, config-network.c, config-util.c).  A JSON object is   *)
(* the sequence of its members, as cJSON keeps them; a key may occur twice *)
(* and is found where it comes first.  Lengths and the case of letters are *)
(* left out.                                                               *)
(***************************************************************************)
EXTENDS Integers, Sequences

CONSTANTS
  Model,        \* the model the base information names
  Escaped,      \* of each text that JSON has to escape, how cJSON_Print does it
  Zone,         \* the time zones installed under /system/zoneinfo
  Address,      \* the texts PFU_isValidStrIPv4 takes
  MaxServers    \* MAX_NTP_SERVER_COUNT

ASSUME SettingsAssumption ==
  /\ "Asia/Seoul" \in Zone
  /\ {"192.168.100.74", "255.255.255.0", "192.168.100.1", "168.126.63.1",
      "8.8.8.8"} \subseteq Address
  /\ MaxServers \in Nat
  /\ DOMAIN Escaped \cap
       (Zone \cup Address \cup
        {"", Model, "9:00", "KST", "Seoul", "eth0", "NONE", "WIRED", "WIRELESS",
         "DHCP", "STATIC"}) = {}

Member(k, v) == [key |-> k, value |-> v]

Places(node, k) == {i \in DOMAIN node : node[i].key = k}
Has(node, k) == Places(node, k) # {}

json_getObject(node, k) ==
  node[CHOOSE i \in Places(node, k) : \A j \in Places(node, k) : i <= j].value

(* json_getValue prints the text and takes the quotes away, but leaves what *)
(* was escaped.                                                             *)
json_getValue(text) == IF text \in DOMAIN Escaped THEN Escaped[text] ELSE text

(* json_setConfigStringValue and its kin: what the member says, or else.    *)
json_getValueSibling(node, k, otherwise) ==
  IF Has(node, k) THEN json_getValue(json_getObject(node, k)) ELSE otherwise

(* Config after memset: no text, and 0 for NONE, DHCP and FALSE.            *)
Cleared ==
  [system |->
     [name |-> "", subModel |-> "",
      tz |-> [gmtOff |-> "", zone |-> "", id |-> "", name |-> ""],
      ntp |-> [enable |-> FALSE, server |-> << >>],
      info |-> [f \in {"pathDefConfig", "pathConfig", "baseODD", "baseATA",
                       "baseUSB", "baseNET", "prefixUSB"} |-> ""]],
   network |->
     [basic |-> [netif |-> "NONE", type |-> "DHCP", devWired |-> ""],
      staticIp |-> [ipaddr |-> "", netmask |-> "", gateway |-> "",
                    dns1 |-> "", dns2 |-> ""]]]

------------------------------------------------------------------------------
(* Reading: a section that is there is read, any other is left as it was.     *)

Section(root, k, old, rf(_, _)) ==
  IF Has(root, k) THEN rf(json_getObject(root, k), old) ELSE old

Seoul == [gmtOff |-> "9:00", zone |-> "KST", id |-> "Asia/Seoul", name |-> "Seoul"]

(* config_set_timezone fails for a zone that is not installed. *)
rf_system_timezone(node, old) ==
  LET tz == [f \in DOMAIN Seoul |-> json_getValueSibling(node, f, Seoul[f])]
  IN  IF tz.id \in Zone THEN tz ELSE Seoul

(* Servers the table has no room for are dropped; an empty list leaves what *)
(* was there.                                                               *)
rf_system_ntp(node, old) ==
  LET list == json_getObject(node, "serverList")
      n == IF Len(list) < MaxServers THEN Len(list) ELSE MaxServers
  IN  [enable |-> IF Has(node, "enable") THEN json_getObject(node, "enable") = "true"
                  ELSE old.enable,
       server |-> IF n = 0 THEN old.server
                  ELSE [i \in 1 .. n |-> json_getValue(list[i])]]

rf_system_info(node, old) ==
  [f \in DOMAIN old |-> json_getValueSibling(node, f, old[f])]

ReadSystem(root, m) ==
  [name |-> json_getValueSibling(root, "name", m.name),
   subModel |-> json_getValueSibling(root, "subModel", m.subModel),
   tz |-> Section(root, "timezone", m.tz, rf_system_timezone),
   ntp |-> Section(root, "ntp", m.ntp, rf_system_ntp),
   info |-> Section(root, "info", m.info, rf_system_info)]

(* The tables of names; an unknown name leaves the value as it was. *)
basic_interface_table == {"NONE", "WIRED", "WIRELESS"}
basic_type_table == {"DHCP", "STATIC"}

Named(table, name, old) == IF name \in table THEN name ELSE old

rf_network_basic(node, old) ==
  [netif |-> Named(basic_interface_table,
                   json_getValueSibling(node, "interface", old.netif), old.netif),
   type |-> Named(basic_type_table,
                  json_getValueSibling(node, "connection", old.type), old.type),
   devWired |-> json_getValueSibling(node, "devWired", "eth0")]

staticIp_setConfig(node, k, default) ==
  LET value == json_getValueSibling(node, k, default)
  IN  IF value \in Address THEN value ELSE default

rf_network_staticIp(node, old) ==
  [ipaddr |-> staticIp_setConfig(node, "ipaddr", "192.168.100.74"),
   netmask |-> staticIp_setConfig(node, "netmask", "255.255.255.0"),
   gateway |-> staticIp_setConfig(node, "gateway", "192.168.100.1"),
   dns1 |-> staticIp_setConfig(node, "dns1", "168.126.63.1"),
   dns2 |-> staticIp_setConfig(node, "dns2", "8.8.8.8")]

ReadNetwork(root, m) ==
  [basic |-> Section(root, "basic", m.basic, rf_network_basic),
   staticIp |-> Section(root, "staticIp", m.staticIp, rf_network_staticIp)]

JsonToMem(json) ==
  [system |-> ReadSystem(json.system, Cleared.system),
   network |-> ReadNetwork(json.network, Cleared.network)]

(* The end of configInit: no subModel is the model. *)
configInit(json) ==
  LET m == JsonToMem(json)
  IN  IF m.system.subModel = "" THEN [m EXCEPT !.system.subModel = Model] ELSE m

------------------------------------------------------------------------------
(* Writing                                                                    *)

wf_system_timezone(tz) ==
  << Member("gmtOff", tz.gmtOff), Member("zone", tz.zone),
     Member("id", tz.id), Member("name", tz.name) >>

wf_system_ntp(ntp) ==
  << Member("enable", IF ntp.enable THEN "true" ELSE "false"), Member("serverList", ntp.server) >>

wf_system_info(info) ==
  << Member("pathDefConfig", info.pathDefConfig), Member("pathConfig", info.pathConfig),
     Member("baseODD", info.baseODD), Member("baseATA", info.baseATA),
     Member("baseUSB", info.baseUSB), Member("baseNET", info.baseNET),
     Member("prefixUSB", info.prefixUSB) >>

wf_network_basic(basic) ==
  << Member("interface", basic.netif), Member("connection", basic.type),
     Member("devWired", basic.devWired) >>

(* A faulty variant: the second dns1 comes first. *)
wf_network_staticIp_swapped(ip) ==
  << Member("ipaddr", ip.ipaddr), Member("netmask", ip.netmask),
     Member("gateway", ip.gateway), Member("dns1", ip.dns2), Member("dns1", ip.dns1) >>

(* dns2 is written under the key dns1, as in the default file. *)
wf_network_staticIp(ip) ==
  << Member("ipaddr", ip.ipaddr), Member("netmask", ip.netmask),
     Member("gateway", ip.gateway), Member("dns1", ip.dns1), Member("dns1", ip.dns2) >>

MemToJson(m) ==
  [system |->
     << Member("name", m.system.name), Member("subModel", m.system.subModel),
        Member("timezone", wf_system_timezone(m.system.tz)),
        Member("ntp", wf_system_ntp(m.system.ntp)),
        Member("info", wf_system_info(m.system.info)) >>,
   network |->
     << Member("basic", wf_network_basic(m.network.basic)),
        Member("staticIp", wf_network_staticIp(m.network.staticIp)) >>]

(* What wf_network_staticIp asserts of the addresses. *)
Saveable(m) ==
  \A f \in DOMAIN m.network.staticIp : m.network.staticIp[f] \in Address

(* The settings after n starts, each of which loads what the one before has *)
(* saved.                                                                   *)
Settled(json, n) ==
  LET after[i \in 0 .. n] ==
        IF i = 0 THEN configInit(json) ELSE configInit(MemToJson(after[i - 1]))
  IN  after[n]
=============================================================================
