-------------------------------- MODULE Settings --------------------------------
(***************************************************************************)
(* The settings of a target: what `init` is answered, what it checks, what *)
(* it writes to lightrail.toml, and what the plugin that is given them     *)
(* accepts.  The two sides parse them with code of their own.              *)
(*                                                                         *)
(* A value is a shape, one for each difference that a validator makes:     *)
(*   "fine"     as documented          "absent"   not answered             *)
(*   "blank"    spaces or nothing      "padded"   fine between spaces      *)
(*   "dashed"   begins with a dash     "dotted"   labels between dots      *)
(*   "upper"    has upper case         "long"     over the length limit    *)
(*   "control"  has a control character "odd"     of another type          *)
(* and some that only one kind of field knows.                             *)
(***************************************************************************)
EXTENDS Integers, FiniteSets

CONSTANTS
    StTargets,  \* subset of {"kubernetes", "fly", "ssh", "hetzner"}
    StOdd       \* bound: how many answers are not the usual ones

ASSUME StAssumption ==
    StTargets \subseteq {"kubernetes", "fly", "ssh", "hetzner"} /\ StOdd \in Nat

VARIABLES
    stTarget,
    stAsks,    \* `init` may ask at a terminal
    stAnswer,  \* the answers, field by field
    stFile,    \* what lightrail.toml says
    stAt       \* "answered", "refused" by init, "written", "accepted" or
               \* "rejected" by the plugin

stVars == <<stTarget, stAsks, stAnswer, stFile, stAt>>

------------------------------------------------------------------------------
(* The fields and their kinds; "extra" is a key of the exposure capability, *)
(* "unknown" one of the target that nobody knows.                           *)

StRequired == {"context", "registry", "repository", "ingress_class",
               "ingress_service_namespace", "ingress_service_name"}

StSlugs == {"organization", "region", "app_prefix"}
StSubdomains == {"ingress_class", "ingress_service_namespace", "control_namespace",
                 "cluster_issuer", "image_pull_secret"}
StEntrypoints == {"traefik_http_entrypoint", "traefik_https_entrypoint"}
StNumbers == {"replicas", "cpus", "memory_mb", "ttl_hours", "command_timeout_seconds",
              "readiness_timeout_seconds", "port"}
StChoices == {"dns_domain", "platform", "platforms", "auto_stop", "bootstrap"}

StFields(target) ==
    CASE target = "kubernetes" ->
            StRequired \cup StSubdomains \cup StEntrypoints
            \cup {"kubeconfig", "namespace_prefix", "dns_domain", "platforms", "replicas",
                  "ttl_hours", "command_timeout_seconds", "dns", "extra", "unknown"}
      [] target = "fly" ->
            StSlugs \cup {"platform", "cpu_kind", "cpus", "memory_mb", "auto_stop", "ttl_hours",
                          "lock_ttl_seconds", "token", "dns", "extra", "unknown"}
      [] target = "ssh" -> {"host", "user", "public_ipv4", "port", "bootstrap", "unknown"}
      [] OTHER -> {"server_type", "ssh_keys", "allowed_ssh_cidrs", "token", "unknown"}

StKind(field) ==
    CASE field \in StSlugs -> "slug"             [] field \in StSubdomains -> "subdomain"
      [] field \in StEntrypoints -> "entrypoint" [] field \in StNumbers -> "number"
      [] field \in StChoices -> "choice"
      [] field \in {"namespace_prefix", "ingress_service_name"} -> "label"
      [] OTHER -> field

StText == {"fine", "blank", "padded", "dashed", "dotted", "upper", "long", "control", "odd"}

StShapes(kind) ==
    CASE kind = "number" -> {"fine", "low", "high", "odd"}
      [] kind = "lock_ttl_seconds" -> {"fine", "low", "high", "tight", "odd"}
      [] kind = "choice" -> {"fine", "padded", "upper", "odd"}
      [] kind = "entrypoint" -> StText \cup {"twin"}
      [] kind = "host" -> StText \cup {"address", "shared", "loopback"}
      [] kind = "public_ipv4" -> {"fine", "private", "shared", "padded", "odd"}
      [] kind = "ssh_keys" -> {"fine", "empty", "blank", "padded", "odd"}
      [] kind = "allowed_ssh_cidrs" ->
            {"fine", "empty", "padded", "bare", "world", "host bits", "odd"}
      [] kind = "token" -> {"reference", "plain"}
      [] kind = "dns" -> {"fine", "other", "padded", "odd"}
      [] kind \in {"extra", "unknown"} -> {"fine"}
      [] OTHER -> StText

\* The usual answers: what is required, and nothing else.
StNeeded(target) ==
    CASE target = "kubernetes" -> StRequired
      [] target = "fly" -> {}
      [] target = "ssh" -> {"host", "public_ipv4"}
      [] OTHER -> {"ssh_keys", "allowed_ssh_cidrs"}
StUsual(target) ==
    [f \in StFields(target) |-> IF f \in StNeeded(target) THEN "fine" ELSE "absent"]

StStart(targets, bound) ==
    /\ stTarget \in targets /\ stAsks \in BOOLEAN
    /\ \E odd \in SUBSET StFields(stTarget) :
        /\ Cardinality(odd) <= bound
        /\ \E shape \in [odd -> UNION {StShapes(StKind(f)) : f \in odd} \cup {"absent"}] :
            /\ \A f \in odd : shape[f] \in StShapes(StKind(f)) \cup {"absent"}
            /\ stAnswer = [f \in StFields(stTarget) |->
                              IF f \in odd THEN shape[f] ELSE StUsual(stTarget)[f]]
    /\ stFile = [f \in StFields(stTarget) |-> "absent"]
    /\ stAt = "answered"

StInit == StStart(StTargets, StOdd)

------------------------------------------------------------------------------
(* init.                                                                   *)

\* The validators of init.rs, as the shapes that they let pass.
StArgument == {"fine", "dotted", "upper"}              \* validate_safe_provider_argument
StLabel == {"fine"}                                    \* validate_dns_label_setting
StSubdomain == {"fine", "dotted"}                      \* validate_dns_subdomain_setting
StRegistry == {"fine", "dotted", "upper"}              \* validate_registry_setting
StRepository == {"fine", "dotted", "dashed", "long"}   \* validate_repository_setting
StSlug == {"fine"}                                     \* validate_fly_slug

StKubernetesInit(kind) ==
    CASE kind = "context" -> StArgument
      [] kind = "registry" -> StRegistry
      [] kind = "repository" -> StRepository
      [] kind = "subdomain" -> StSubdomain
      [] kind \in {"label", "entrypoint"} -> StLabel
      [] kind = "dns" -> {"fine", "other", "padded"}
      [] kind = "unknown" -> {}
      [] OTHER -> {"fine"}

StFlyInit(kind) ==
    CASE kind = "slug" -> StSlug
      [] kind = "cpu_kind" -> {"fine", "dashed", "dotted", "upper", "long"}
      [] kind = "token" -> {"reference", "plain"}
      [] kind \in {"dns", "unknown"} -> {}
      [] OTHER -> {"fine"}

\* ssh_settings and hetzner_settings look at few of the fields.
StSshInit(kind) ==
    CASE kind = "host" -> StShapes("host") \ {"loopback"}
      [] kind = "public_ipv4" -> {"fine", "shared"}
      [] OTHER -> StShapes(kind)

StHetznerInit(kind) ==
    CASE kind = "ssh_keys" -> {"fine", "padded"}
      [] kind = "allowed_ssh_cidrs" -> {"fine", "padded", "host bits"}
      [] OTHER -> StShapes(kind)

StInitTakes(kind) ==
    CASE stTarget = "kubernetes" -> StKubernetesInit(kind)
      [] stTarget = "fly" -> StFlyInit(kind)
      [] stTarget = "ssh" -> StSshInit(kind)
      [] OTHER -> StHetznerInit(kind)

\* What a prompt would ask for: answers that are not there, or that are not
\* what required_setting and its like look for.
StAskable(field) ==
    LET shape == stAnswer[field] IN
    CASE field \in StRequired -> shape \in {"absent", "blank", "odd"}
      [] field = "host" -> shape \in {"absent", "odd"}
      [] field = "public_ipv4" ->
            shape \in {"absent", "odd"} /\ stAnswer["host"] \notin {"address", "shared"}
      [] field = "ssh_keys" -> shape \in {"absent", "empty"}
      [] field = "allowed_ssh_cidrs" -> shape \in {"absent", "empty"}
      [] OTHER -> FALSE

\* What is checked: required strings without their padding, what is asked for
\* as it is answered then.
StChecked(field) ==
    IF StAskable(field) THEN IF stAsks THEN "fine" ELSE "missing"
    ELSE IF field \in StRequired /\ stAnswer[field] = "padded" THEN "fine"
    ELSE IF field \in {"public_ipv4", "user", "server_type"} /\ stAnswer[field] = "odd"
    THEN "absent"
    ELSE stAnswer[field]

\* Fly has no DNS settings; the two that Kubernetes knows must not disagree.
StDnsAgrees ==
    CASE stTarget = "fly" -> stAnswer["dns"] = "absent"
      [] stTarget = "kubernetes" -> ~(stAnswer["dns"] = "other" /\ stAnswer["dns_domain"] # "absent")
      [] OTHER -> TRUE

\* Mutant of StPasses: what is neither answered nor asked for is let pass.
StPassesMissing == StDnsAgrees /\ \A f \in StFields(stTarget) :
                       StChecked(f) \in StInitTakes(StKind(f)) \cup {"absent", "missing"}

StPasses == StDnsAgrees /\ \A f \in StFields(stTarget) :
                StChecked(f) \in StInitTakes(StKind(f)) \cup {"absent"}

\* merge_value: an answer wins over what was checked.
StOver(field) == IF stAnswer[field] # "absent" THEN stAnswer[field] ELSE StChecked(field)

\* Mutant of StMerged: the reference to the token is set before the merge.
StMergedLast ==
    [f \in StFields(stTarget) |->
        CASE f = "dns" -> "absent"
          [] f = "token" /\ stAnswer[f] = "absent" -> "reference"
          [] OTHER -> StOver(f)]

\* build_settings: the answers are merged over the table that was checked, as
\* they were given; the reference to the token, and the domain, come last.
StMerged ==
    [f \in StFields(stTarget) |->
        CASE f = "token" -> "reference"
          [] f = "dns" -> "absent"
          [] OTHER -> StOver(f)]

StWrite ==
    /\ stAt = "answered"
    /\ IF StPasses THEN stAt' = "written" /\ stFile' = StMerged
       ELSE stAt' = "refused" /\ UNCHANGED stFile
    /\ UNCHANGED <<stTarget, stAsks, stAnswer>>

------------------------------------------------------------------------------
(* The plugins.                                                            *)

StKubernetesTakes(kind) ==
    CASE kind \in {"context", "registry"} -> {"fine", "dotted", "upper"}
      [] kind \in {"repository", "subdomain"} -> {"fine", "dotted"}
      [] kind = "kubeconfig" -> {"fine", "control"}
      [] kind \in {"extra", "unknown"} -> {}
      [] OTHER -> {"fine"}

StFlyTakes(kind) ==
    CASE kind = "cpu_kind" -> StText \ {"blank", "odd"}
      [] kind = "token" -> {"reference"}
      [] kind \in {"extra", "unknown"} -> {}
      [] OTHER -> {"fine"}

StSshTakes(kind) ==
    CASE kind = "host" -> {"fine", "dotted", "upper", "address", "shared"}
      [] kind = "user" -> {"fine", "dotted", "upper"}
      [] OTHER -> {"fine"}

StHetznerTakes(kind) ==
    CASE kind = "server_type" -> StText \ {"blank", "odd"}
      [] kind = "ssh_keys" -> {"fine", "padded"}
      [] kind = "token" -> {"reference"}
      [] kind = "unknown" -> {}
      [] OTHER -> {"fine"}

StPluginTakes(kind) ==
    CASE stTarget = "kubernetes" -> StKubernetesTakes(kind)
      [] stTarget = "fly" -> StFlyTakes(kind)
      [] stTarget = "ssh" -> StSshTakes(kind)
      [] OTHER -> StHetznerTakes(kind)

\* A machine has a public address: one of its own, or its host is one.
StPublic == stTarget = "ssh" /\ stFile["public_ipv4"] = "absent" => stFile["host"] = "address"

StAccepts ==
    /\ \A f \in StNeeded(stTarget) \ {"public_ipv4"} : stFile[f] # "absent"
    /\ \A f \in StFields(stTarget) : stFile[f] \in StPluginTakes(StKind(f)) \cup {"absent"}
    /\ StPublic

\* The settings of all capabilities that the plugin has are merged for it.
StParse ==
    /\ stAt = "written"
    /\ stAt' = IF StAccepts THEN "accepted" ELSE "rejected"
    /\ UNCHANGED <<stTarget, stAsks, stAnswer, stFile>>

StNext == StWrite \/ StParse
StSpec == StInit /\ [][StNext]_stVars

------------------------------------------------------------------------------
StTypeOK ==
    /\ stTarget \in StTargets /\ stAsks \in BOOLEAN
    /\ stAt \in {"answered", "refused", "written", "accepted", "rejected"}
    /\ \A f \in StFields(stTarget) :
        /\ stAnswer[f] \in StShapes(StKind(f)) \cup {"absent"}
        /\ stFile[f] \in StShapes(StKind(f)) \cup {"absent"}

\* What is written is what was checked, but for the fields that are set last.
StAsChecked == \A f \in StFields(stTarget) \ {"token", "dns"} : stFile[f] = StChecked(f)

\* What `init` writes for Kubernetes and Fly, if it is what `init` has checked,
\* is accepted by the plugin, except for a repository that begins with a dash
\* or is too long and for settings of another capability; and `init` never
\* writes a credential, a source that opens SSH to the world, or the machine
\* that it runs on (init.rs and the Settings of the plugins).
StAnswersAreTrue ==
    /\ stAt = "rejected" /\ stTarget \in {"kubernetes", "fly"} /\ StAsChecked =>
        \/ stFile["extra"] # "absent"
        \/ stTarget = "kubernetes" /\ stFile["repository"] \in {"dashed", "long"}
    /\ stAt \in {"written", "accepted", "rejected"} =>
        /\ stTarget \in {"fly", "hetzner"} => stFile["token"] = "reference"
        /\ stTarget = "hetzner" => stFile["allowed_ssh_cidrs"] # "world"
        /\ stTarget = "ssh" => stFile["host"] # "loopback"
==============================================================================
