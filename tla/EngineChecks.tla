---------------------------- MODULE EngineChecks ----------------------------
(***************************************************************************)
(* The container engine, the purge of the package manager and the CA       *)
(* bundle: src/verify/checks-engine.ts.  A product selects one of two      *)
(* engines; the checks of the other one do not run.                        *)
(***************************************************************************)
EXTENDS RootImage

\* "podman" stands for itself, "podman tools" for the other programs of
\* CONTAINER_BINARIES, mica-containerd among them.
CONTAINER_BINARIES == {"podman", "podman tools"}
CONTAINER_CONFIG == {"policy.json", "containers.conf", "registries.conf"}
DOCKER_BINARIES == {"dockerd", "docker"}

Supervisor(product) == IF product.init = "openrc" THEN "init.d/mica-containerd" ELSE "mica-containerd.service"
DockerUnit(product) == IF product.init = "openrc" THEN "init.d/docker" ELSE "docker.service"

PodmanContent(product) ==
  [Nothing EXCEPT
     !.files = CONTAINER_BINARIES \cup CONTAINER_CONFIG
                 \cup {"storage.conf", "libsystemd.so.0", "/usr/sbin/nft", Supervisor(product)},
     !.lines = {"helper_binaries_dir=", "graphroot=/mica"},
     !.unwanted = {"podman wanted", "mica-containerd wanted", "mica-containerd in a runlevel"},
     !.foreign = {"quadlet", "podman units", "share/containers.conf", "dockerd"}]

DockerContent(product) ==
  [Nothing EXCEPT
     !.files = DOCKER_BINARIES \cup {"daemon.json", "docker sysctl", "/usr/sbin/nft", DockerUnit(product)},
     !.lines = {"docker: after micad", "docker: mount", "ip_forward=1", "data-root=/mica"},
     !.unwanted = {"docker wanted", "docker in a runlevel"},
     !.foreign = CONTAINER_BINARIES \cup {"storage.conf", "containers.conf"}]

PurgedContent ==
  [Nothing EXCEPT
     !.files = {"manifest.tsv", "copyright", "ca-certificates.crt"},
     !.lines = {"packages", "100 certificates"},
     !.foreign = {"package timers", "package programs", "package logs", "perl shebang"}]

EngineContent(product) ==
  Together(PurgedContent,
           CASE product.engine = "podman" -> PodmanContent(product)
             [] product.engine = "docker" -> DockerContent(product)
             [] OTHER                     -> Nothing)

-----------------------------------------------------------------------------
(* podman.  Eight checks skip a root without any engine.                    *)

\* Neither the engine nor its storage: the eight checks below have nothing to
\* say.  The register's container policy still asks for storage.conf.
noEngineAtAll(r) == ~statInRoot(r, "podman") /\ ~statInRoot(r, "storage.conf")

engineCheck(r, ok) == IF noEngineAtAll(r) THEN "skip" ELSE verdict(ok)

container_engine_installed(r, product) ==
  verdict(\/ noEngineAtAll(r)
          \/ /\ \A p \in CONTAINER_BINARIES \cup {Supervisor(product)} : regularFileInRoot(r, p)
             /\ ~entry(r, "quadlet") /\ ~entry(r, "dockerd"))

container_engine_no_units(r) == engineCheck(r, ~entry(r, "podman units"))
container_engine_nft(r) == engineCheck(r, regularFileInRoot(r, "/usr/sbin/nft"))
container_engine_libsystemd(r) == engineCheck(r, entry(r, "libsystemd.so.0"))
container_engine_config_files(r) == engineCheck(r, \A p \in CONTAINER_CONFIG : regularFileInRoot(r, p))
container_engine_single_config_layer(r) == engineCheck(r, ~statInRoot(r, "share/containers.conf"))
container_engine_helper_dir_pinned(r) == engineCheck(r, HasLine(r, "containers.conf", "helper_binaries_dir="))
container_engine_not_enabled(r) ==
  engineCheck(r, \A p \in {"podman wanted", "mica-containerd wanted", "mica-containerd in a runlevel"} : ~entry(r, p))
container_engine_graphroot_on_data(r) == engineCheck(r, HasLine(r, "storage.conf", "graphroot=/mica"))

PodmanChecks(r, product) ==
  {container_engine_installed(r, product), container_engine_no_units(r), container_engine_nft(r),
   container_engine_libsystemd(r), container_engine_config_files(r), container_engine_single_config_layer(r),
   container_engine_helper_dir_pinned(r), container_engine_not_enabled(r), container_engine_graphroot_on_data(r)}

-----------------------------------------------------------------------------
(* docker.                                                                  *)

docker_engine_installed(r, product) ==
  verdict(/\ \A p \in DOCKER_BINARIES \cup {"daemon.json", "/usr/sbin/nft", DockerUnit(product)} : regularFileInRoot(r, p)
          /\ \A p \in CONTAINER_BINARIES \cup {"mica-containerd.service", "init.d/mica-containerd", "storage.conf", "containers.conf"} :
               ~entry(r, p))

docker_engine_not_enabled(r) == verdict(~entry(r, "docker wanted") /\ ~entry(r, "docker in a runlevel"))
docker_engine_after_micad(r, product) ==
  verdict(\A line \in {"docker: after micad", "docker: mount"} : HasLine(r, DockerUnit(product), line))
docker_engine_forwarding(r) == verdict(HasLine(r, "docker sysctl", "ip_forward=1"))
docker_engine_data_root_on_data(r) == verdict(HasLine(r, "daemon.json", "data-root=/mica"))

DockerChecks(r, product) ==
  {docker_engine_installed(r, product), docker_engine_not_enabled(r), docker_engine_after_micad(r, product),
   docker_engine_forwarding(r), docker_engine_data_root_on_data(r)}

-----------------------------------------------------------------------------
(* Every product.                                                           *)

purge_no_package_timers(r) == verdict(~entry(r, "package timers"))
purge_no_package_manager(r) ==
  verdict(/\ ~statInRoot(r, "package programs") /\ ~statInRoot(r, "package logs"))

\* A manifest that names no package leaves nothing to look for: no pass.
purge_licences_survived(r) ==
  verdict(HasLine(r, "manifest.tsv", "packages") /\ regularFileInRoot(r, "copyright"))

purge_no_dangling_perl_shebang(r) == verdict(~entryIsFile(r, "perl shebang"))
ca_bundle_generated(r) == verdict(HasLine(r, "ca-certificates.crt", "100 certificates"))

\* The verdicts of the checks that run: the engine the product selected, and
\* the ones that ask nothing of the product.
ENGINE_CHECKS_ALL(r, product) ==
  (CASE product.engine = "podman" -> PodmanChecks(r, product)
     [] product.engine = "docker" -> DockerChecks(r, product)
     [] OTHER                     -> {})
  \cup {purge_no_package_timers(r), purge_no_package_manager(r), purge_licences_survived(r),
        purge_no_dangling_perl_shebang(r), ca_bundle_generated(r)}

=============================================================================
