---------------------------- MODULE ConndChecks ----------------------------
(***************************************************************************)
(* The networks micad renders at run time and what the image owes them:    *)
(* src/verify/checks-connd.ts.  Where micad writes, and which files it     *)
(* sweeps, is read out of its sources beside the image, the contract; the  *)
(* image is compared with that.                                            *)
(***************************************************************************)
EXTENDS RootImage

Roles == {"station", "ap"}
MaskedUnits == {"hostapd.service", "wpa_supplicant.service", "dbus-fi.w1.wpa_supplicant1.service"}

\* Whether the register's Wi-Fi part runs: the board has the radio and the
\* product selected the feature.
Wifi(product) == product.radio /\ "wifi" \in product.features

\* The places of a role's unit and of the directory its configuration is in.
Unit(role) == role \o "@.service"
ExecStart(role) == role \o " ExecStart="
Mount(role) == role \o " bind"
Where(role) == role \o " Where="
What(role) == role \o " What=STATE"
Attached(role) == role \o " bind wanted"
Target(role) == role \o " directory"
Seeded(role) == role \o " seeded"
Enabled(unit) == unit \o " wanted"
Mask(unit) == unit \o " -> /dev/null"
Packaged(unit) == unit \o " in /usr"

WifiContent(product) ==
  [Nothing EXCEPT
     !.files = {"hostapd", "wpa_supplicant", "mica-regdb-reload.service", "regdb tool", "mica-seed-state"}
                 \cup {Mount(role) : role \in Roles}
                 \cup (IF product.init = "systemd" THEN {Unit(role) : role \in Roles} ELSE {}),
     !.lines = {"regdb ExecStart="} \cup UNION {{Where(role), What(role), Seeded(role)} : role \in Roles}
                 \cup (IF product.init = "systemd" THEN {ExecStart(role) : role \in Roles} ELSE {}),
     !.names = {Attached(role) : role \in Roles} \cup {"regdb wanted"},
     !.masks = {Mask(u) : u \in MaskedUnits},
     !.directories = {Target(role) : role \in Roles},
     !.unwanted = {Enabled(u) : u \in MaskedUnits} \cup {Enabled(role) : role \in Roles},
     !.foreign = {"dnsmasq"} \cup {Packaged(u) : u \in MaskedUnits}]

\* Files of the image's own whose names micad would delete or write.
Swept == {"50-mica-x.network", "50-mica-x.netdev", "60-mica-auto-x.network"}
NetworkContent(product) ==
  IF product.init = "systemd"
    THEN [Nothing EXCEPT !.files = {".network files"}, !.foreign = Swept \cup {"station network", "ap network"}]
    ELSE Nothing

ConndContent(product) ==
  Together([Nothing EXCEPT !.lines = {"contract"}],
           Together(NetworkContent(product), IF Wifi(product) THEN WifiContent(product) ELSE Nothing))

-----------------------------------------------------------------------------

\* Read out of micad's sources; a field that could not be read is empty, and
\* every path built from it names no file.
readConndContract(r) == r["contract"] = "file"

connd_contract_read(r) == verdict(readConndContract(r))

wifiRegularFile(r, p) == verdict(entryIsFile(r, p))
wifi_unit(r, role) == verdict(readConndContract(r) /\ entryIsFile(r, Unit(role)))

\* The unit's daemon reads the file micad writes.
execStartCheck(r, role) == verdict(readConndContract(r) /\ HasLine(r, Unit(role), ExecStart(role)))

notStaticallyEnabled(r, role) == verdict(~readConndContract(r) \/ ~entry(r, Enabled(role)))

\* Masked, or in neither of the two directories of units; as composed the image has none of them.
maskedCheck(r, unit) ==
  verdict(r[Mask(unit)] = "linked" \/ (~entry(r, Mask(unit)) /\ ~entry(r, Packaged(unit))))
noPostinstWants(r, unit) == verdict(~entry(r, Enabled(unit)))

\* The directory micad renders into: a bind of STATE, attached at boot, over a
\* directory that is in the root.
renderTargetBind(r, role) ==
  verdict(/\ readConndContract(r) /\ regularFileInRoot(r, Mount(role))
          /\ HasLine(r, Mount(role), Where(role)) /\ HasLine(r, Mount(role), What(role))
          /\ entry(r, Attached(role))
          /\ isDirectoryInRoot(r, Target(role)))

\* The source of the bind is created before it is attached.
seedStateCreates(r, role) ==
  verdict(/\ readConndContract(r) /\ HasLine(r, Mount(role), What(role))
          /\ HasLine(r, "mica-seed-state", Seeded(role)))

wifi_no_dnsmasq(r) == verdict(~statInRoot(r, "dnsmasq"))

wifi_regdb_reload_enabled(r) ==
  verdict(regularFileInRoot(r, "mica-regdb-reload.service") /\ entry(r, "regdb wanted"))
wifi_regdb_reload_tool(r) ==
  verdict(HasLine(r, "mica-regdb-reload.service", "regdb ExecStart=") /\ regularFileInRoot(r, "regdb tool"))

-----------------------------------------------------------------------------
(* systemd-networkd's files.                                                *)

\* A mutant: only the first of the swept namespaces is compared.
FirstSweepOnly(r) == {f \in {"50-mica-x.network", "station network", "ap network"} : entry(r, f)}

\* Of the image's files only those of the suffix .network are collected, so a
\* .netdev that the contract sweeps is never compared.
namespaceCollisions(r) == {f \in (Swept \ {"50-mica-x.netdev"}) \cup {"station network", "ap network"} : entry(r, f)}

networkd_namespace_clear(r) ==
  verdict(readConndContract(r) /\ r[".network files"] \notin {"absent", "directory"} /\ namespaceCollisions(r) = {})

\* The prefixes are the contract's; the fallback's name is fixed.
networkd_fallback_sorts_first(r) == verdict(readConndContract(r))

WifiChecks(r, product) ==
  {wifiRegularFile(r, "hostapd"), wifiRegularFile(r, "wpa_supplicant"),
   wifi_regdb_reload_enabled(r), wifi_regdb_reload_tool(r)}
  \cup UNION {{notStaticallyEnabled(r, role), renderTargetBind(r, role), seedStateCreates(r, role)} : role \in Roles}
  \cup UNION {{maskedCheck(r, u), noPostinstWants(r, u)} : u \in MaskedUnits}
  \cup (IF product.init = "systemd"
          THEN UNION {{wifi_unit(r, role), execStartCheck(r, role)} : role \in Roles} ELSE {})

\* A board without the radio has one skip in place of the Wi-Fi part.
CONND_CHECKS(r, product) ==
  {connd_contract_read(r)}
  \cup (IF product.radio THEN {wifi_no_dnsmasq(r)} ELSE {"skip"})
  \cup (IF Wifi(product) THEN WifiChecks(r, product) ELSE {})
  \cup (IF product.init = "systemd" THEN {networkd_namespace_clear(r), networkd_fallback_sorts_first(r)} ELSE {})

=============================================================================
