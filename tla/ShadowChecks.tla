---------------------------- MODULE ShadowChecks ----------------------------
(***************************************************************************)
(* The credentials of the root: /etc/shadow is a link to a file that is    *)
(* built in RAM at every boot from a factory copy without any usable       *)
(* password.  src/verify/checks-shadow.ts.                                 *)
(***************************************************************************)
EXTENDS RootImage

ScriptLines == {"FACTORY=", "SHADOW=/run", "reads $FACTORY", "locks"}
Readers(product) ==
  {"systemd-logind.service", "systemd-user-sessions.service"}
    \cup (IF "micad" \in product.features THEN {"micad.service"} ELSE {})
    \cup (IF "ssh" \in product.features THEN {"mica-sshd.service"} ELSE {})
    \cup (IF product.ssh = "dropbear" THEN {"dropbear.service"} ELSE {})
Before(unit) == "Before=" \o unit

SshScripts(product) ==
  (IF "ssh" \in product.features THEN {"mica-sshd"} ELSE {})
    \cup (IF product.ssh = "dropbear" THEN {"mica-dropbear"} ELSE {})
Needs(script) == script \o " needs mica-shadow-reconcile"

ReconcileContent(product) ==
  IF product.init = "openrc"
    THEN [Nothing EXCEPT
            !.files = {"init.d/mica-shadow-reconcile"} \cup SshScripts(product),
            !.lines = {"before micad", "before apid"} \cup {Needs(s) : s \in SshScripts(product)},
            !.names = {"mica-shadow-reconcile in the default runlevel"}]
    ELSE [Nothing EXCEPT
            !.files = {"mica-shadow-reconcile.service"} \cup Readers(product),
            !.lines = {Before(u) : u \in Readers(product)},
            !.unsaid = {"After=STATE"}]

ShadowContent(product) ==
  Together(ReconcileContent(product),
    [Nothing EXCEPT
       !.files = {"/etc/passwd", "/etc/group", "/etc/shells", "factory shadow", "mica-shadow-reconcile",
                  "mica-seed-state", "bash"},
       !.lines = {"shadow group", "0640 root:shadow", "every account has an entry", "bash for logins",
                  "/etc/shells: /bin/bash"} \cup ScriptLines,
       !.links = {"/etc/shadow"},
       !.foreign = {"/run/mica/shadow"},
       !.unsaid = {"reads $SHADOW", "shadow on STATE", "MICA_SHADOW_FACTORY=", "a hash", "an empty field", "a root hash"}])

-----------------------------------------------------------------------------
(* /etc/shadow: linked to /run/mica/shadow, or dangling into DATA.          *)

shadow_is_symlink_to_run(r) == verdict(r["/etc/shadow"] = "linked")
shadow_no_regular_in_image(r) == verdict(~entryIsFile(r, "/etc/shadow"))
shadow_target_absent_in_image(r) == verdict(~entry(r, "/run/mica/shadow"))
shadow_link_lands_on_tmpfs(r) == verdict(r["/etc/shadow"] = "linked")
shadow_link_not_persistent(r) == verdict(r["/etc/shadow"] # "dangling")

\* The accounts are read from the texts without a guard.
factory_shadow_covers_passwd(r) ==
  IF ~entry(r, "factory shadow") \/ ~entry(r, "/etc/passwd") THEN "fail"
  ELSE IF Throws(r, "factory shadow") \/ Throws(r, "/etc/passwd") THEN "error"
  ELSE verdict(r["every account has an entry"] = "file")

shadow_group_defined(r) == Guarded(r, "/etc/group", HasLine(r, "/etc/group", "shadow group"))

\* The owner and the mode come from the packed file system's own listing.
factory_shadow_mode(r) ==
  Guarded(r, "/etc/group",
          HasLine(r, "/etc/group", "shadow group") /\ HasLine(r, "factory shadow", "0640 root:shadow"))

-----------------------------------------------------------------------------
(* The service that builds the file.                                        *)

shadow_reconcile_ordered_before(r, product) ==
  verdict(/\ entryIsFile(r, "mica-shadow-reconcile.service")
          /\ \A u \in Readers(product) : r[Before(u)] = "file" /\ entryIsFile(r, u))

shadow_reconcile_openrc_ordered(r, product) ==
  IF \E s \in SshScripts(product) \cup {"init.d/mica-shadow-reconcile"} : Throws(r, s) THEN "error"
  ELSE verdict(/\ entry(r, "mica-shadow-reconcile in the default runlevel")
               /\ \A l \in {"before micad", "before apid"} : HasLine(r, "init.d/mica-shadow-reconcile", l)
               /\ \A s \in SshScripts(product) : HasLine(r, s, Needs(s)))

shadow_reconcile_no_state_dep(r) ==
  verdict(entryIsFile(r, "mica-shadow-reconcile.service") /\ r["After=STATE"] = "absent")

seed_state_no_shadow_on_state(r) ==
  verdict(entryIsFile(r, "mica-seed-state") /\ r["shadow on STATE"] = "absent")

shadow_reconcile_builds_in_ram(r) ==
  verdict(/\ entryIsFile(r, "mica-shadow-reconcile")
          /\ \A l \in ScriptLines : r[l] = "file"
          /\ r["reads $SHADOW"] = "absent")

shadow_reconcile_no_test_override(r) == verdict(r["MICA_SHADOW_FACTORY="] = "absent")

-----------------------------------------------------------------------------
(* The factory copy.                                                        *)

factory_shadow_locked(r) ==
  verdict(entryIsFile(r, "factory shadow") /\ r["a hash"] = "absent" /\ r["a root hash"] = "absent")

factory_shadow_root_locked(r) ==
  Guarded(r, "factory shadow",
          HasLine(r, "factory shadow", "every account has an entry") /\ r["a root hash"] = "absent")

factory_shadow_accounts_locked(r) ==
  IF ~entry(r, "factory shadow") \/ ~entry(r, "/etc/passwd") THEN "fail"
  ELSE IF Throws(r, "factory shadow") \/ Throws(r, "/etc/passwd") THEN "error"
  ELSE verdict(\A l \in {"an empty field", "a hash", "a root hash"} : r[l] = "absent")

\* The shell of the two login accounts follows the root: bash where it is.
login_shell_matches_root(r) ==
  IF Throws(r, "/etc/passwd") \/ (entryIsFile(r, "bash") /\ Throws(r, "/etc/shells")) THEN "error"
  ELSE verdict(/\ regularFileInRoot(r, "/etc/passwd")
               /\ entryIsFile(r, "bash") <=> r["bash for logins"] = "file"
               /\ entryIsFile(r, "bash") => HasLine(r, "/etc/shells", "/etc/shells: /bin/bash"))

SHADOW_CHECKS(r, product) ==
  {shadow_is_symlink_to_run(r), shadow_no_regular_in_image(r), shadow_target_absent_in_image(r),
   shadow_link_lands_on_tmpfs(r), shadow_link_not_persistent(r), factory_shadow_covers_passwd(r),
   shadow_group_defined(r), factory_shadow_mode(r), seed_state_no_shadow_on_state(r),
   shadow_reconcile_builds_in_ram(r), factory_shadow_locked(r), factory_shadow_root_locked(r),
   factory_shadow_accounts_locked(r), shadow_reconcile_no_test_override(r), login_shell_matches_root(r)}
  \cup (IF product.init = "openrc"
          THEN {shadow_reconcile_openrc_ordered(r, product)}
          ELSE {shadow_reconcile_ordered_before(r, product), shadow_reconcile_no_state_dep(r)})

=============================================================================
