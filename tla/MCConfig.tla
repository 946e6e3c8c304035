------------------------------ MODULE MCConfig ------------------------------
(* svc.config with the settings its files hold: the default files as they   *)
(* are shipped for CamPi (default/CamPi), and as somebody may have edited   *)
(* or shortened them.                                                       *)
EXTENDS SavedSettings, TLC

CONSTANTS r1, r2, r3

(* Between two starts the clock goes on, or is set back as far.             *)
MCClockSteps == {1, -1}

MCZone == {"Asia/Seoul", "Europe/Paris"}

MCAddress ==
  {"192.168.100.74", "255.255.255.0", "192.168.100.1", "168.126.63.1", "8.8.8.8",
   "192.168.1.50", "255.255.0.0", "192.168.0.1", "1.1.1.1"}

MCEscaped == "Cam\\Pi" :> "Cam\\\\Pi" @@ "Cam\\\\Pi" :> "Cam\\\\\\\\Pi"

CamPiBasic ==
  << Member("interface", "WIRED"), Member("connection", "DHCP"), Member("devWired", "eth0") >>

CamPiStaticIp ==
  << Member("ipaddr", "192.168.1.50"), Member("netmask", "255.255.0.0"),
     Member("gateway", "192.168.0.1"), Member("dns1", "168.126.63.1"),
     Member("dns1", "8.8.8.8") >>

CamPiTimezone ==
  << Member("gmtOff", "9:00"), Member("zone", "KST"), Member("id", "Asia/Seoul"),
     Member("name", "Seoul") >>

CamPiInfo ==
  << Member("pathDefConfig", "/system/config/CamPi"), Member("pathConfig", "/data/config"),
     Member("baseODD", "/mnt/odd"), Member("baseATA", "/mnt/ata"),
     Member("baseUSB", "/mnt/usb"), Member("baseNET", "/mnt/net"),
     Member("prefixUSB", "media") >>

Ntp(enable, servers) == << Member("enable", enable), Member("serverList", servers) >>

Edited(node, k, v) ==
  [i \in DOMAIN node |-> IF node[i].key = k THEN Member(k, v) ELSE node[i]]

Without(node, k) == SelectSeq(node, LAMBDA m : m.key # k)

SystemFiles ==
  {<< Member("name", name), Member("subModel", subModel), Member("timezone", tz),
      Member("ntp", ntp), Member("info", CamPiInfo) >> :
     name \in {"CamPi", "Cam\\Pi"}, subModel \in {"Normal", ""},
     tz \in {CamPiTimezone, Edited(CamPiTimezone, "id", "Europe/Paris"),
             Edited(CamPiTimezone, "id", "Nowhere"), Without(CamPiTimezone, "id")},
     ntp \in {Ntp("true", <<"pool.ntp.org", "time.windows.com">>),
              Ntp("false", << >>), Ntp("true", <<"a", "b", "c">>)}}

NetworkFiles ==
  {<< Member("basic", basic), Member("staticIp", ip) >> :
     basic \in {CamPiBasic, Edited(CamPiBasic, "interface", "FIBRE"),
                Edited(CamPiBasic, "connection", "STATIC"), Without(CamPiBasic, "devWired")},
     ip \in {CamPiStaticIp, Edited(CamPiStaticIp, "ipaddr", "192.168.1"),
             Edited(CamPiStaticIp, "dns1", "1.1.1.1"), Without(CamPiStaticIp, "dns1")}}

MCDefaultFile == [system : SystemFiles, network : NetworkFiles]
=============================================================================
