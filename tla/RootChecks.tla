----------------------------- MODULE RootChecks -----------------------------
(***************************************************************************)
(* The root itself: the programs it is to have, what DATA is mounted on,   *)
(* the health gate, the SSH server and what no root may carry.             *)
(* src/verify/checks-file-root.ts, checks-busybox.ts.                      *)
(***************************************************************************)
EXTENDS RootImage

Systemd(product) == product.init = "systemd"
Selected(product, feature) == feature \in product.features

Programs == {"mica-deploy", "mica-health", "mica-boot-failure", "mica-seed-state", "other programs"}
required(product) ==
  Programs \cup {"manifest.tsv", IF Systemd(product) THEN "systemd" ELSE "openrc-init"}
    \cup (IF Selected(product, "micad") THEN {"micad", "mica-apid", "mica-update"} ELSE {})

InitContent(product) ==
  IF Systemd(product)
    THEN [Nothing EXCEPT
            !.files = {"var.mount", "mica-seed-var.service", "var-lib-mica.mount", "mica-hosts.service",
                       "mica-health.service"},
            !.lines = {"var.mount binds", "var-lib-mica What=STATE", "mica-hosts ExecStart=", "OnFailure="},
            !.links = {"random-seed"}, !.names = {"mica-hosts wanted", "mica-health wanted"},
            !.foreign = {"obsolete mounts"}]
    ELSE [Nothing EXCEPT
            !.files = {"init.d/mica-mounts", "init.d/mica-health"}
                        \cup (IF product.layout THEN {"mica-data-layout.conf"} ELSE {}),
            !.lines = {"binds /var", "binds /var/lib/mica", "runs mica-hosts", "runs mica-boot-failure"}
                        \cup (IF product.layout THEN {"grows its system"} ELSE {}),
            !.foreign = IF product.layout THEN {} ELSE {"mica-data-layout.conf"},
            !.links = {"mica-data-layout at boot", "mica-mounts at boot", "mica-health in the default runlevel"}]

ContainerContent(product) ==
  Together(
    IF Systemd(product)
      THEN [Nothing EXCEPT !.files = {"mica-containers.mount", "mica.mount"},
                           !.lines = {"mica-containers.mount binds", "mica.mount binds"},
                           !.names = {"mica-containers.mount wanted"}]
      ELSE [Nothing EXCEPT !.lines = {"binds /mica/containers"}],
    IF product.engine = "docker"
      THEN [Nothing EXCEPT !.lines = {"docker: mount"}]
      ELSE [Nothing EXCEPT !.lines = {"mica-containerd: mount", "graphroot=/mica", "runroot=", "image_copy_tmp_dir="}])

SshContent(product) ==
  Together(
    [Nothing EXCEPT !.files = {"sshd.env"}, !.lines = {"SSH_ENABLED=", product.ssh \o " row"},
                    !.foreign = {"host key", "/mnt/data/state"}],
    IF Systemd(product)
      THEN [Nothing EXCEPT
              !.files = {"mica-sshd.service"}, !.lines = {"ExecCondition=", "mica-sshd preset enable"},
              !.names = {"mica-sshd wanted"}]
      ELSE [Nothing EXCEPT
              !.files = {"mica-sshd", "mica-sshd-boot"}, !.links = {"mica-sshd-boot in the default runlevel"},
              !.unwanted = {"mica-sshd in a runlevel"}])
DropbearContent ==
  [Nothing EXCEPT !.files = {"dropbear.service"}, !.lines = {"dropbear preset disable"}, !.unwanted = {"dropbear wanted"}]

BusyboxContent(product) ==
  Together(
    [Nothing EXCEPT
       !.files = {"busybox", "mica-busybox.sh", "manifest.tsv"},
       !.lines = {"busybox is executable", "PATH appended last", "mica-busybox row"},
       !.names = {"applets", "init files"},
       !.foreign = {"/build", "initramfs busybox"}, !.unsaid = {"busybox in another PATH", "busybox in a unit"}],
    IF Selected(product, "tools")
      THEN [Nothing EXCEPT !.files = {"GNU commands"}, !.unwanted = {"an applet in PATH"}] ELSE Nothing)

If(condition, content) == IF condition THEN content ELSE Nothing

RootContent(product) ==
  LET always ==
        [Nothing EXCEPT
           !.files = (required(product) \ {"mica-apid", "mica-update"})
                       \cup {"/etc/fstab", "/etc/machine-id", "device-code.conf", "health.conf", "mica-hosts",
                             "health commands", "commands of a member", "manifest.json"},
           !.lines = {"fstab DATA", "fstab /tmp", "source=", "confirm", "fail-boot", "probes", "requires the member", "mica/meta/v1", "ELF"},
           !.links = {"/etc/hosts", "dbus/machine-id"}
                       \cup (IF Selected(product, "micad") THEN {"mica-apid", "mica-update"} ELSE {}),
           !.directories = {"meta", "meta/updates"},
           !.foreign = {"an updater", "modules", "mica-machine-id.service", "meta/other"},
           !.unsaid = {"fstab other", "a machine id", "private key", "an endpoint", "another SSH row"}]
  IN Together(always, Together(InitContent(product),
       Together(If(Selected(product, "containers"), ContainerContent(product)),
         Together(If(Selected(product, "ssh"), SshContent(product)),
           Together(If(product.ssh = "dropbear" /\ Systemd(product), DropbearContent),
             Together(If(Selected(product, "wifi"),
                         [Nothing EXCEPT !.files = {"ap-secret"}, !.lines = {"0600 root:root", "16 bytes"}]),
                      BusyboxContent(product)))))))

-----------------------------------------------------------------------------
(* The root of every product.                                               *)

file_root_required(r, product) == {verdict(regularFileInRoot(r, p)) : p \in required(product)}

file_root_is_component(r) == verdict(~entry(r, "an updater") /\ ~entry(r, "modules"))

Fstab(r) ==
  /\ HasLine(r, "/etc/fstab", "fstab DATA") /\ HasLine(r, "/etc/fstab", "fstab /tmp")
  /\ r["fstab other"] = "absent"

file_root_data_policy(r) ==
  Reading(r, {"/etc/fstab", "var-lib-mica.mount"},
          /\ Fstab(r) /\ ~entry(r, "obsolete mounts")
          /\ entryIsFile(r, "var.mount") /\ r["var.mount binds"] = "file"
          /\ regularFileInRoot(r, "mica-seed-var.service")
          /\ HasLine(r, "var-lib-mica.mount", "var-lib-mica What=STATE"))

\* A board of raw flash has no layout and grows nothing: it has no text that
\* says what to grow, or an empty one (a file there stands for one with a line).
file_root_data_policy_openrc(r, product) ==
  verdict(/\ Fstab(r)
          /\ IF product.layout THEN HasLine(r, "mica-data-layout.conf", "grows its system")
             ELSE ~regularFileInRoot(r, "mica-data-layout.conf")
          /\ \A l \in {"binds /var", "binds /var/lib/mica"} : HasLine(r, "init.d/mica-mounts", l)
          /\ \A l \in {"mica-data-layout at boot", "mica-mounts at boot"} : r[l] = "linked")

\* The images of the containers are on DATA, whichever the engine and the init.
file_root_container_policy(r, product) ==
  LET docker == product.engine = "docker"
      supervisor == IF Systemd(product) THEN IF docker THEN "docker.service" ELSE "mica-containerd.service"
                    ELSE IF docker THEN "init.d/docker" ELSE "init.d/mica-containerd"
      bound == IF Systemd(product)
                 THEN /\ HasLine(r, "mica-containers.mount", "mica-containers.mount binds")
                      /\ HasLine(r, "mica.mount", "mica.mount binds") /\ entry(r, "mica-containers.mount wanted")
                 ELSE HasLine(r, "init.d/mica-mounts", "binds /mica/containers")
  IN verdict(/\ bound
             /\ HasLine(r, supervisor, IF docker THEN "docker: mount" ELSE "mica-containerd: mount")
             /\ \/ docker
                \/ /\ HasLine(r, "storage.conf", "graphroot=/mica") /\ HasLine(r, "storage.conf", "runroot=")
                   /\ HasLine(r, "containers.conf", "image_copy_tmp_dir="))

\* An empty machine id; the link of D-Bus is resolved without a guard.
file_root_identity(r, product) ==
  IF r["dbus/machine-id"] \in {"absent", "dangling"} \/ ~statInRoot(r, "/etc/machine-id") THEN "error"
  ELSE verdict(/\ entryIsFile(r, "/etc/machine-id") /\ r["a machine id"] = "absent"
               /\ r["dbus/machine-id"] = "linked"
               /\ Systemd(product) => r["random-seed"] = "linked"
               /\ ~entry(r, "mica-machine-id.service"))

file_root_hosts(r, product) ==
  verdict(/\ r["/etc/hosts"] = "linked" /\ regularFileInRoot(r, "mica-hosts")
          /\ IF Systemd(product)
               THEN HasLine(r, "mica-hosts.service", "mica-hosts ExecStart=") /\ entry(r, "mica-hosts wanted")
               ELSE HasLine(r, "init.d/mica-mounts", "runs mica-hosts"))

file_root_device_code(r) == verdict(HasLine(r, "device-code.conf", "source="))

file_root_ap_secret(r) ==
  verdict(entryIsFile(r, "ap-secret") /\ r["0600 root:root"] = "file" /\ r["16 bytes"] = "file")

\* A healthy boot is confirmed and a failed one reported: three texts say so,
\* read without a guard.
file_root_health(r, product) ==
  Reading(r, {IF Systemd(product) THEN "mica-health.service" ELSE "init.d/mica-health", "mica-health", "mica-boot-failure"},
          /\ IF Systemd(product)
               THEN entry(r, "mica-health wanted") /\ HasLine(r, "mica-health.service", "OnFailure=")
               ELSE /\ r["mica-health in the default runlevel"] = "linked"
                    /\ HasLine(r, "init.d/mica-health", "runs mica-boot-failure")
          /\ HasLine(r, "mica-health", "confirm") /\ HasLine(r, "mica-boot-failure", "fail-boot"))

\* The commands the gate cannot do without, those of a member once health.conf
\* requires the member; a gate that asks for none is none.
file_root_health_commands(r) ==
  verdict(/\ HasLine(r, "mica-health", "probes") /\ regularFileInRoot(r, "health commands")
          /\ HasLine(r, "health.conf", "requires the member") => regularFileInRoot(r, "commands of a member"))

-----------------------------------------------------------------------------
(* SSH.                                                                     *)

file_root_ssh_package(r, product) ==
  verdict(/\ Selected(product, "ssh") => HasLine(r, "manifest.tsv", product.ssh \o " row")
          /\ ~(regularFileInRoot(r, "manifest.tsv") /\ r["another SSH row"] = "file"))

\* The server follows the settings at every boot: enabled by a link and by the
\* first preset that names it, or by its boot service in a runlevel.
SshdEnabled(r, product) ==
  IF Systemd(product)
    THEN /\ HasLine(r, "mica-sshd.service", "ExecCondition=")
         /\ entry(r, "mica-sshd wanted") /\ r["mica-sshd preset enable"] = "file"
         /\ product.ssh = "dropbear" =>
              /\ regularFileInRoot(r, "dropbear.service") /\ ~entry(r, "dropbear wanted")
              /\ r["dropbear preset disable"] = "file"
    ELSE /\ regularFileInRoot(r, "mica-sshd") /\ regularFileInRoot(r, "mica-sshd-boot")
         /\ r["mica-sshd-boot in the default runlevel"] = "linked" /\ ~entry(r, "mica-sshd in a runlevel")

file_root_ssh_boot(r, product) ==
  verdict(Selected(product, "ssh") =>
            /\ SshdEnabled(r, product) /\ HasLine(r, "sshd.env", "SSH_ENABLED=")
            /\ ~entry(r, "host key") /\ ~entry(r, "/mnt/data/state"))

-----------------------------------------------------------------------------
(* Nothing secret and no endpoint in a root.                                *)

file_root_public_defaults(r) ==
  IF ~entry(r, "meta") THEN "error"
  ELSE verdict(/\ isDirectoryInRoot(r, "meta") /\ ~entry(r, "meta/other") /\ isDirectoryInRoot(r, "meta/updates")
               /\ entryIsFile(r, "manifest.json") /\ r["private key"] = "absent" /\ r["mica/meta/v1"] = "file")

file_root_native_endpoints(r, product) ==
  LET micad == Selected(product, "micad") IN
  verdict(/\ \A p \in {"mica-deploy"} \cup (IF micad THEN {"micad"} ELSE {}) : entryIsFile(r, p)
          /\ r["ELF"] = "file" /\ r["an endpoint"] = "absent"
          /\ micad => \A p \in {"mica-apid", "mica-update"} : r[p] = "linked")

ROOT_CHECKS(r, product) ==
  file_root_required(r, product)
  \cup {file_root_is_component(r), file_root_identity(r, product), file_root_hosts(r, product),
        file_root_device_code(r), file_root_health(r, product), file_root_health_commands(r),
        file_root_ssh_package(r, product), file_root_ssh_boot(r, product), file_root_public_defaults(r),
        file_root_native_endpoints(r, product),
        IF Systemd(product) THEN file_root_data_policy(r) ELSE file_root_data_policy_openrc(r, product)}
  \cup (IF Selected(product, "containers") THEN {file_root_container_policy(r, product)} ELSE {})
  \cup (IF Selected(product, "wifi") THEN {file_root_ap_secret(r)} ELSE {})

-----------------------------------------------------------------------------
(* BusyBox: an emergency tool that answers for no command of the system.    *)

packed_busybox_present(r) == verdict(entryIsFile(r, "busybox") /\ r["busybox is executable"] = "file")
packed_busybox_applets_confined(r) == verdict(entryIsFile(r, "busybox") /\ ~entry(r, "an applet in PATH"))

packed_busybox_path_fallback(r) ==
  verdict(/\ ~entry(r, "/build") /\ r["mica-busybox.sh"] \in {"file", "linked", "dangling"}
          /\ HasLine(r, "mica-busybox.sh", "PATH appended last")
          /\ r["busybox in another PATH"] = "absent" /\ entry(r, "applets"))

packed_busybox_not_early_boot(r) ==
  verdict(entry(r, "init files") /\ ~entry(r, "initramfs busybox") /\ r["busybox in a unit"] = "absent")

packed_busybox_in_manifest(r) ==
  verdict(entryIsFile(r, "manifest.tsv") /\ r["mica-busybox row"] = "file" /\ entry(r, "busybox"))

\* What a name of PATH resolves to exists and is not BusyBox.
packed_gnu_commands_unshadowed(r) == verdict(statInRoot(r, "GNU commands") /\ ~entry(r, "an applet in PATH"))

BUSYBOX_CHECKS(r, product) ==
  {packed_busybox_present(r), packed_busybox_path_fallback(r), packed_busybox_not_early_boot(r),
   packed_busybox_in_manifest(r)}
  \cup (IF Selected(product, "tools")
          THEN {packed_busybox_applets_confined(r), packed_gnu_commands_unshadowed(r)} ELSE {})

=============================================================================
