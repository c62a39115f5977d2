---------------------------- MODULE SystemChecks ----------------------------
(***************************************************************************)
(* What the system's own services owe the root: the policies of D-Bus, the *)
(* device rules without the hardware database, the packet filter nobody    *)
(* starts, the consoles and the clock.  src/verify/checks-dbus.ts,         *)
(* checks-hwdb.ts, checks-firewall.ts, checks-console.ts, checks-time.ts   *)
(* and unit-state.ts.                                                      *)
(***************************************************************************)
EXTENDS RootImage

OnSystemd(product) == product.init = "systemd"
Has(product, feature) == feature \in product.features

BusContent(product) ==
  Together(
    IF OnSystemd(product)
      THEN [Nothing EXCEPT !.files = {"dbus.service", "dbus.socket"}]
      ELSE [Nothing EXCEPT !.files = {"dbus-daemon", "init.d/mica-dbus"}, !.links = {"mica-dbus in the default runlevel"}],
    Together(
      IF Has(product, "micad")
        THEN [Nothing EXCEPT
                !.files = {"com.mica.micad.conf", "micad.service"},
                !.lines = {"micad BusName=", "policy: root owns micad"},
                !.foreign = {"a second micad policy"},
                !.unsaid = {"policy: anyone calls micad", "policy: another owns micad", "policy: another name"}]
        ELSE Nothing,
      [Nothing EXCEPT
         !.files = IF Has(product, "bluetooth") /\ product.radio THEN {"bluetooth.conf"} ELSE {},
         !.foreign = {"com.mica.ext.conf"}, !.unsaid = {"own_prefix=com.mica"}]))

DeviceContent ==
  [Nothing EXCEPT
     !.files = {"libkmod.so.2", "systemd-udevd", "udev rules", "systemd-udevd.service"},
     !.lines = {"IMPORT{builtin}", "udev actions"},
     !.foreign = {"hwdb.bin", "a stray .hwdb", "systemd-hwdb-update.service"},
     !.unwanted = {"systemd-hwdb-update wanted"},
     !.unsaid = {"After=systemd-hwdb-update", "IMPORT hwdb", "sets HWDB"}]

FilterContent(product) ==
  IF ~Has(product, "tools") THEN Nothing
  ELSE Together(
    [Nothing EXCEPT !.files = {"nft"}, !.lines = {"nft is executable"}],
    IF OnSystemd(product)
      THEN [Nothing EXCEPT !.files = {"nftables.service"}, !.lines = {"nftables preset disable"},
                           !.unwanted = {"nftables wanted"}]
      ELSE [Nothing EXCEPT !.foreign = {"init.d/nftables"}, !.unwanted = {"nftables in a runlevel"}])

ConsoleContent ==
  [Nothing EXCEPT
     !.files = {"getty@.service", "login programs", "systemd-logind.service", "getty-static.service", "dbus.service"},
     !.lines = {"getty@tty1 preset disable", "ConditionPathExists=!dbus"},
     !.links = {"autovt@.service"}, !.names = {"systemd-logind wanted"},
     !.unwanted = {"getty@tty1 wanted"}]

TimeContent ==
  [Nothing EXCEPT
     !.files = {"manifest.tsv", "timesyncd 50-mica.conf"},
     !.lines = {"systemd-timesyncd row", "pinned assignments"}, !.names = {"systemd-timesyncd wanted"},
     !.unsaid = {"another assignment"}]

SystemContent(product) ==
  Together(BusContent(product), Together(FilterContent(product),
    Together([Nothing EXCEPT !.links = {"/etc/localtime"}],
      IF OnSystemd(product)
        THEN Together(DeviceContent, Together(ConsoleContent,
               Together(TimeContent, [Nothing EXCEPT !.unsaid = {"preset enable *"}])))
        ELSE Nothing)))

-----------------------------------------------------------------------------
(* unit-state.ts: the rule of a unit is the first that matches it, over the *)
(* files by their names; a rule for all that sorts first decides.           *)

presetDisables(r, unit) == r["preset enable *"] = "absent" /\ r[unit \o " preset disable"] = "file"

\* A unit that only a decision keeps off: it is there, nothing wants it, and a
\* preset says so.
KeptOff(r, unitFile, unit) ==
  /\ statInRoot(r, unitFile) /\ ~entry(r, unit \o " wanted") /\ presetDisables(r, unit)

-----------------------------------------------------------------------------
(* D-Bus.                                                                   *)

\* A mutant: the units of systemd are asked for under OpenRC as well.
BusUnitsAlways(r, product) == verdict(regularFileInRoot(r, "dbus.service") /\ regularFileInRoot(r, "dbus.socket"))

dbus_system_bus_present(r, product) ==
  verdict(IF OnSystemd(product)
            THEN regularFileInRoot(r, "dbus.service") /\ regularFileInRoot(r, "dbus.socket")
            ELSE /\ regularFileInRoot(r, "dbus-daemon") /\ regularFileInRoot(r, "init.d/mica-dbus")
                 /\ r["mica-dbus in the default runlevel"] = "linked")

\* The last BusName= of micad's unit; empty where there is none.
micadBusName(r) == IF HasLine(r, "micad.service", "micad BusName=") THEN "com.mica.micad" ELSE ""

\* What micad's policy says of the bus, comments left out.
policyFacts(r, bus) ==
  LET said(line) == HasLine(r, "com.mica.micad.conf", line)
  IN [defaultAllows |-> bus # "" /\ said("policy: anyone calls micad"),
      ownRoot       |-> bus # "" /\ said("policy: root owns micad"),
      ownOther      |-> bus # "" /\ said("policy: another owns micad"),
      names         |-> (IF \E l \in {"policy: root owns micad", "policy: another owns micad",
                                      "policy: anyone calls micad"} : said(l)
                           THEN {"com.mica.micad"} ELSE {})
                        \cup (IF said("policy: another name") THEN {"com.mica.other"} ELSE {})]

\* Without a bus name there is nothing to look for in the other files.
secondPolicyFiles(r, bus) == bus # "" /\ regularFileInRoot(r, "a second micad policy")

MICAD_CHECKS(r) ==
  LET bus == micadBusName(r)
      facts == policyFacts(r, bus)
  IN {verdict(regularFileInRoot(r, "com.mica.micad.conf")),
      verdict(~facts.defaultAllows),
      verdict(facts.ownRoot /\ ~facts.ownOther),
      verdict(bus # "" /\ facts.names = {bus}),
      verdict(~secondPolicyFiles(r, bus))}

NAMESPACE_CHECKS(r) ==
  {verdict(~regularFileInRoot(r, "com.mica.ext.conf")), verdict(r["own_prefix=com.mica"] = "absent")}

bluez_dbus_policy(r, product) ==
  IF ~product.radio THEN "skip" ELSE verdict(regularFileInRoot(r, "bluetooth.conf"))

-----------------------------------------------------------------------------
(* The device manager, without a hardware database.                         *)

packed_udev_libkmod(r) == verdict(statInRoot(r, "libkmod.so.2"))

\* "None ships" is said of a root that has the device manager and its rules.
packed_hwdb_absent(r) ==
  verdict(/\ r["udev rules"] # "absent" /\ statInRoot(r, "systemd-udevd")
          /\ ~entry(r, "hwdb.bin") /\ ~entry(r, "a stray .hwdb"))

packed_hwdb_update_machinery_absent(r) ==
  verdict(/\ entryIsFile(r, "systemd-udevd.service")
          /\ \A p \in {"systemd-hwdb-update.service", "systemd-hwdb-update wanted", "After=systemd-hwdb-update"} :
               ~entry(r, p))

packed_udev_rules_query_no_hwdb(r) ==
  verdict(/\ HasLine(r, "udev rules", "IMPORT{builtin}")
          /\ \A l \in {"IMPORT hwdb", "sets HWDB"} : ~HasLine(r, "udev rules", l))

packed_udev_actions_survived(r) == verdict(HasLine(r, "udev rules", "udev actions"))

HWDB_CHECKS(r) ==
  {packed_udev_libkmod(r), packed_hwdb_absent(r), packed_hwdb_update_machinery_absent(r),
   packed_udev_rules_query_no_hwdb(r), packed_udev_actions_survived(r)}

-----------------------------------------------------------------------------
(* The packet filter.                                                       *)

packed_nftables_openrc_never_started(r) ==
  verdict(~entry(r, "init.d/nftables") /\ ~entry(r, "nftables in a runlevel"))
packed_nft_present(r) == verdict(regularFileInRoot(r, "nft") /\ r["nft is executable"] = "file")
packed_nftables_service_disabled(r) == verdict(KeptOff(r, "nftables.service", "nftables"))

-----------------------------------------------------------------------------
(* The consoles: none on tty1, one on a key, none by itself.                *)

packed_getty_tty1_disabled(r) == verdict(KeptOff(r, "getty@.service", "getty@tty1"))
packed_autovt_alias(r) == verdict(r["autovt@.service"] = "linked")
packed_console_login_path(r) ==
  verdict(/\ statInRoot(r, "login programs") /\ statInRoot(r, "systemd-logind.service")
          /\ entry(r, "systemd-logind wanted"))

\* Inert where a path it asks to be absent is there: D-Bus, of this very root.
packed_getty_static_inert(r) ==
  IF ~statInRoot(r, "getty-static.service") THEN "pass"
  ELSE Guarded(r, "getty-static.service", r["ConditionPathExists=!dbus"] = "file" /\ statInRoot(r, "dbus.service"))

CONSOLE_CHECKS(r) ==
  {packed_getty_tty1_disabled(r), packed_autovt_alias(r), packed_console_login_path(r), packed_getty_static_inert(r)}

-----------------------------------------------------------------------------
(* The clock.                                                               *)

packed_timesyncd_installed(r) == verdict(entryIsFile(r, "manifest.tsv") /\ r["systemd-timesyncd row"] = "file")
packed_timesyncd_enabled(r) == verdict(entry(r, "systemd-timesyncd wanted"))
packed_timesyncd_policy(r) ==
  verdict(/\ entryIsFile(r, "timesyncd 50-mica.conf")
          /\ r["pinned assignments"] = "file" /\ r["another assignment"] = "absent")

\* No /etc/localtime at all is UTC as well.
packed_localtime_utc(r) == verdict(r["/etc/localtime"] \in {"absent", "linked"})

TIME_CHECKS(r) == {packed_timesyncd_installed(r), packed_timesyncd_enabled(r), packed_timesyncd_policy(r)}

SYSTEM_CHECKS(r, product) ==
  {dbus_system_bus_present(r, product), packed_localtime_utc(r)} \cup NAMESPACE_CHECKS(r)
  \cup (IF Has(product, "micad") THEN MICAD_CHECKS(r) ELSE {})
  \cup (IF Has(product, "bluetooth") THEN {bluez_dbus_policy(r, product)} ELSE {})
  \cup (IF OnSystemd(product) THEN HWDB_CHECKS(r) \cup CONSOLE_CHECKS(r) \cup TIME_CHECKS(r) ELSE {})
  \cup (IF Has(product, "tools")
          THEN {packed_nft_present(r),
                IF OnSystemd(product) THEN packed_nftables_service_disabled(r)
                                      ELSE packed_nftables_openrc_never_started(r)}
          ELSE {})

=============================================================================
