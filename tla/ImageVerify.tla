---------------------------- MODULE ImageVerify ----------------------------
(***************************************************************************)
(* The verification of a packed root: every check of the register that     *)
(* applies to the product, and one result over all of them                 *)
(* (src/verify/checks.ts, verify-cli.ts).  A root is composed for a        *)
(* product, then up to MaxDamage of its places go wrong, and the register  *)
(* is run.                                                                 *)
(***************************************************************************)
EXTENDS EngineChecks, ShadowChecks, ConndChecks, MqttChecks, RootChecks, SystemChecks, FiniteSets, Naturals

CONSTANTS Products, \* the products whose roots are verified
          MaxDamage \* how many places of a root go wrong

ASSUME MaxDamageAssumption == MaxDamage \in Nat

\* The parts of the register; two faults of one run are in the same part.
CheckedParts == {"engine", "shadow", "connd", "mqtt", "root", "busybox", "system"}
PartContent(product, part) ==
  CASE part = "engine"  -> EngineContent(product)
    [] part = "shadow"  -> ShadowContent(product)
    [] part = "connd"   -> ConndContent(product)
    [] part = "mqtt"    -> MqttContent(product)
    [] part = "root"    -> RootContent(product)
    [] part = "busybox" -> BusyboxContent(product)
    [] part = "system"  -> SystemContent(product)

\* What each product's root is to hold: all the parts together.
ContentOf(p) ==
  LET held == {PartContent(p, part) : part \in CheckedParts}
  IN [class \in DOMAIN Nothing |-> UNION {content[class] : content \in held}]
Content == [p \in Products |-> ContentOf(p)]
Places == UNION {PlacesOf(Content[p]) : p \in Products}

VARIABLES product, \* what the root was composed for
          part,    \* the part of the register whose places go wrong
          root,    \* what is at every place
          damaged, \* the places that went wrong
          result   \* "" before the verification, then "PASS" or "FAIL"
vars == <<product, part, root, damaged, result>>

-----------------------------------------------------------------------------

\* The register, restricted to what the product selected.
CHECKS(r, p) ==
  ENGINE_CHECKS_ALL(r, p) \cup SHADOW_CHECKS(r, p) \cup CONND_CHECKS(r, p) \cup MQTT_CHECKS(r, p)
    \cup ROOT_CHECKS(r, p) \cup BUSYBOX_CHECKS(r, p) \cup SYSTEM_CHECKS(r, p)

\* A mutant: a check that threw is logged and not counted.
ErrorsNotCounted(r, p) ==
  LET verdicts == CHECKS(r, p)
  IN IF "pass" \in verdicts /\ "fail" \notin verdicts THEN "PASS" ELSE "FAIL"

\* A mutant: a skipped check makes a result of its own.
SkipIsAResult(r, p) == IF "skip" \in CHECKS(r, p) THEN "SKIP" ELSE "PASS"

\* A skip is neither; a run that passed nothing is no pass.
runChecks(r, p) ==
  LET verdicts == CHECKS(r, p)
  IN IF "pass" \in verdicts /\ verdicts \cap {"fail", "error"} = {} THEN "PASS" ELSE "FAIL"

-----------------------------------------------------------------------------

Init ==
  /\ product \in Products /\ part \in CheckedParts
  /\ root = [p \in Places |-> Composed(Content[product], p)]
  /\ damaged = {} /\ result = ""

\* A place of the root is not what it was composed to be.
Damage ==
  /\ result = "" /\ Cardinality(damaged) < MaxDamage
  /\ \E p \in PlacesOf(PartContent(product, part)) \ damaged :
       \E kind \in Faults(Content[product], p) :
         /\ root' = [root EXCEPT ![p] = kind]
         /\ damaged' = damaged \cup {p}
  /\ UNCHANGED <<product, part, result>>

Verify ==
  /\ result = "" /\ result' = runChecks(root, product)
  /\ UNCHANGED <<product, part, root, damaged>>

Next == Damage \/ Verify

Spec == Init /\ [][Next]_vars

-----------------------------------------------------------------------------

TypeOK ==
  /\ product \in Products /\ part \in CheckedParts
  /\ \A p \in DOMAIN root : root[p] \in Kinds
  /\ damaged \subseteq DOMAIN root /\ Cardinality(damaged) <= MaxDamage
  /\ result \in {"", "PASS", "FAIL"}

\* Differences from the composed root that are no fault: without the link UTC
\* is the default, without the unit nothing has to be inert, a root without
\* bash has another shell for the logins, and a unit that is masked cannot start.
Harmless(r, p) ==
  \/ p = "/etc/localtime" /\ r[p] = "absent"
  \/ p \in {"getty-static.service", "ConditionPathExists=!dbus"} /\ ~statInRoot(r, "getty-static.service")
  \/ \E u \in MaskedUnits : p \in {Mask(u), Packaged(u)} /\ r[Mask(u)] = "linked"
  \/ p \in {"bash", "bash for logins"} /\ ~entryIsFile(r, "bash") /\ r["bash for logins"] = "absent"

\* Faults the checks do not tell from the composed root: what is only asked to
\* exist may be a directory, what the gate needs for a member is looked at where
\* the text that requires the member can be read, and four facts are not asked.
Unseen(r, p) ==
  \/ /\ isDirectoryInRoot(r, p)
     /\ p \in {"GNU commands", "getty@.service", "libkmod.so.2", "login programs", "nftables.service",
               "systemd-udevd", "libsystemd.so.0"}
  \/ /\ p \in {"health.conf", "requires the member", "commands of a member"}
     /\ ~HasLine(r, "health.conf", "requires the member")
  \/ r[p] = "dangling" /\ p \in {"libsystemd.so.0", ".network files", "mqttd in a runlevel"}
  \/ p = "50-mica-x.netdev"

\* A root that passes is the one that was composed, but for what is harmless or
\* known to go unseen: no fault, and no two faults of one part, hide each other
\* from the register (verify-cli.ts main, checks.ts runChecks).
PassIsWhole == result = "PASS" => \A p \in damaged : Harmless(root, p) \/ Unseen(root, p)

\* No check refuses a root as it was composed, whatever the product selected:
\* what is asked of it is what its features, its init and its engine owe
\* (checks.ts featuresMissing).
ComposedPasses == damaged = {} => result # "FAIL"
=============================================================================
