----------------------------- MODULE MqttChecks -----------------------------
(***************************************************************************)
(* The MQTT bridge and its broker: installed and inert, each running as a  *)
(* static account, and the bridge granted on the bus exactly what the      *)
(* enrolled applications grant it.  src/verify/checks-mqtt.ts.             *)
(***************************************************************************)
EXTENDS RootImage

Mqtt(product) == "mqtt" \in product.features

UnitLines == {"mqttd User=", "mqttd device id condition", "mqttd device id file", "mqttd device id argument",
              "mqttd broker from environment"}
EnrolmentLines == {"enrolled", "bridge GetItems", "bridge ItemsChanged", "root GetItems", "owned by one user"}
ForeignGrants == {"bridge to com.mica.micad", "bridge to any", "bridge to unenrolled", "bridge other member"}

MqttContent(product) ==
  IF ~Mqtt(product) THEN Nothing
  ELSE Together(
    [Nothing EXCEPT
       !.files = {"mqttd", "mica-mqttd.service", "mqtt-broker", "mica-mqtt-broker.service", "/etc/passwd"},
       !.lines = UnitLines \cup EnrolmentLines \cup {"passwd: mqttd", "broker User=", "passwd: mqtt-broker"},
       !.directories = {"mqtt-applications.d"},
       !.unwanted = {"mqttd wanted", "mqtt-broker wanted"},
       !.foreign = {"mica-mqttd.conf"},
       !.unsaid = ForeignGrants \cup {"mqttd DynamicUser=yes", "broker DynamicUser=yes", "invalid enrolment"}],
    IF product.init = "systemd"
      THEN [Nothing EXCEPT !.files = {"var-lib-mica.mount"},
                           !.lines = {"mqttd EnvironmentFile=-", "Where=/var/lib/mica"}]
      ELSE [Nothing EXCEPT
              !.files = {"init.d/mica-mqttd", "init.d/mica-mounts"},
              !.lines = {"sources mqttd.env", "binds /var/lib/mica"},
              !.links = {"mica-mounts at boot"},
              !.unwanted = {"mqttd in a runlevel"}])

-----------------------------------------------------------------------------

prefixedRegularFile(r, p) == verdict(entryIsFile(r, p))
mqttd_micad_policy_absent(r) == verdict(~entry(r, "mica-mqttd.conf"))
mqttd_applications_directory(r) == verdict(isDirectoryInRoot(r, "mqtt-applications.d"))
mqttd_not_enabled(r) == verdict(~entry(r, "mqttd wanted"))
mqtt_broker_not_enabled(r) == verdict(~entry(r, "mqtt-broker wanted"))

\* A unit is read by its path, with no guard against what is no file.
StaticUser(r, unit, user, dynamic) == Guarded(r, unit, HasLine(r, unit, user) /\ r[dynamic] = "absent")
mqttd_static_user(r) == StaticUser(r, "mica-mqttd.service", "mqttd User=", "mqttd DynamicUser=yes")
mqtt_broker_static_user(r) == StaticUser(r, "mica-mqtt-broker.service", "broker User=", "broker DynamicUser=yes")

UserInPasswd(r, unit, user, account) ==
  IF Throws(r, unit) \/ Throws(r, "/etc/passwd") THEN "error"
  ELSE verdict(HasLine(r, unit, user) /\ HasLine(r, "/etc/passwd", account))
mqttd_user_in_passwd(r) == UserInPasswd(r, "mica-mqttd.service", "mqttd User=", "passwd: mqttd")
mqtt_broker_user_in_passwd(r) == UserInPasswd(r, "mica-mqtt-broker.service", "broker User=", "passwd: mqtt-broker")

mqttd_device_id_runtime_input(r) ==
  Guarded(r, "mica-mqttd.service",
          \A l \in {"mqttd device id condition", "mqttd device id file", "mqttd device id argument"} :
            HasLine(r, "mica-mqttd.service", l))

mqttd_broker_from_environment(r) ==
  Guarded(r, "mica-mqttd.service", HasLine(r, "mica-mqttd.service", "mqttd broker from environment"))

\* The optional settings of the bridge are on STATE: the directory of the file
\* is what a mount unit of the image mounts.
mqttd_envfile_on_state(r) ==
  Guarded(r, "mica-mqttd.service",
          /\ HasLine(r, "mica-mqttd.service", "mqttd EnvironmentFile=-")
          /\ entryIsFile(r, "var-lib-mica.mount") /\ r["Where=/var/lib/mica"] = "file")

mqttd_envfile_on_state_openrc(r) ==
  verdict(/\ entryIsFile(r, "init.d/mica-mqttd") /\ r["sources mqttd.env"] = "file"
          /\ entryIsFile(r, "init.d/mica-mounts") /\ r["binds /var/lib/mica"] = "file"
          /\ entry(r, "mica-mounts at boot"))

-----------------------------------------------------------------------------
(* The policies of the bus.                                                 *)

\* The grants the policies give the bridge: by its account's name and number,
\* by its groups, and to everyone.  Without an account only the last are found.
identityPolicyRules(r) ==
  IF HasLine(r, "mica-mqttd.service", "mqttd User=")
    THEN {g \in ForeignGrants \cup {"bridge GetItems", "bridge ItemsChanged"} : r[g] = "file"}
    ELSE {}

\* A mutant: the grants to the name of the application are not looked at.
EnrolmentsUnpaired(r) == r["invalid enrolment"] = "file" \/ "bridge to any" \in identityPolicyRules(r)

\* An application's enrolment, its registry grant, its owner and its grants to
\* the bridge come together or not at all.
Unpaired(r) ==
  LET enrolled == isDirectoryInRoot(r, "mqtt-applications.d") /\ r["enrolled"] = "file"
      rules == identityPolicyRules(r)
  IN \/ r["invalid enrolment"] = "file"
     \/ rules \cap ForeignGrants # {}
     \/ ~enrolled /\ rules # {}
     \/ enrolled /\ ~(/\ {"bridge GetItems", "bridge ItemsChanged"} \subseteq rules
                      /\ r["root GetItems"] = "file" /\ r["owned by one user"] = "file")

mqttd_zero_micad_access(r) ==
  Guarded(r, "mica-mqttd.service", "bridge to com.mica.micad" \notin identityPolicyRules(r))
mqttd_exact_application_grants(r) == Guarded(r, "mica-mqttd.service", ~Unpaired(r))

MQTT_CHECKS(r, product) ==
  IF ~Mqtt(product) THEN {}
  ELSE {prefixedRegularFile(r, p) : p \in {"mqttd", "mica-mqttd.service", "mqtt-broker", "mica-mqtt-broker.service"}}
       \cup {mqttd_micad_policy_absent(r), mqttd_applications_directory(r), mqttd_not_enabled(r),
             mqttd_static_user(r), mqttd_user_in_passwd(r), mqttd_device_id_runtime_input(r),
             mqttd_zero_micad_access(r), mqttd_exact_application_grants(r), mqttd_broker_from_environment(r),
             mqtt_broker_not_enabled(r), mqtt_broker_static_user(r), mqtt_broker_user_in_passwd(r),
             IF product.init = "systemd" THEN mqttd_envfile_on_state(r) ELSE mqttd_envfile_on_state_openrc(r)}

=============================================================================
