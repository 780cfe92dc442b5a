----------------------------- MODULE ComposeContract -----------------------------
(***************************************************************************)
(* A Compose document and what a deployment makes of it: what the core and *)
(* the plugin of the runtime refuse, the names under which it then exists  *)
(* on a host, a cluster or in an organization, and the revision that says  *)
(* what runs.  Two checkouts are deployed, one after the other; they may   *)
(* be of one environment.                                                  *)
(*                                                                         *)
(* A document has two services: "db", which mounts the volume "v" if that  *)
(* is declared, and "web", to which the service fields belong.  A field is *)
(* a shape, one for each difference that a validator or a renderer makes;  *)
(* only shapes that `docker compose config` puts out are here.             *)
(***************************************************************************)
EXTENDS Integers, FiniteSets

CONSTANTS
    CcRuntimes,  \* subset of {"compose", "kubernetes", "fly"}
    CcVisits,    \* whose environments two checkouts deploy: pairs of identities,
                 \* records [project, slug, profile, branch]
    CcNormal,    \* what is left of a name when it is normalized
    CcOdd        \* bound: how many fields of the two documents are not the usual

CcCheckouts == 1 .. 2
CcRemote == {"compose", "kubernetes", "fly"}

ASSUME CcAssumption ==
    /\ CcRuntimes \subseteq CcRemote /\ CcOdd \in 0 .. 2
    /\ \A visit \in CcVisits, c \in CcCheckouts :
        visit[c] \in [project : STRING, slug : STRING, profile : STRING, branch : STRING]

VARIABLES
    ccRuntime,
    ccWho,  \* checkout -> identity
    ccDoc,  \* checkout -> document
    ccAt    \* checkout -> "none", "refused" or "up"

ccVars == <<ccRuntime, ccWho, ccDoc, ccAt>>

------------------------------------------------------------------------------
(* Documents.                                                              *)

\* "generated" names are derived from the directory of the checkout.  "pods"
\* is the `replicas` of the Kubernetes target, "public" the apps of the
\* profile, "tree" the state of the checkout.
CcShapes ==
    [network |-> {"generated", "custom", "external", "options", "another"},
     volume |-> {"generated", "absent", "custom", "external", "options"},
     assets |-> {"absent", "file", "outside", "inline", "external", "custom"},
     attached |-> {"default", "aliases", "another", "host", "none", "service"},
     mount |-> {"none", "own", "shared", "two", "read-only", "optioned",
                "anonymous", "tmpfs", "bind"},
     source |-> {"image", "build", "outside", "options"},
     privileged |-> {"no", "yes"},
     kind |-> {"absent", "job", "stateful", "other"},
     deploy |-> {"absent", "one", "two", "limits"},
     other |-> {"absent", "container_name", "other"},
     environment |-> {"absent", "first", "second"},
     public |-> {"yes", "no", "twice", "missing", "redirect"},
     pods |-> {"one", "many"},
     tree |-> {"clean", "dirty"}]

CcFields == DOMAIN CcShapes

CcUsual ==
    [network |-> "generated", volume |-> "generated", assets |-> "absent",
     attached |-> "default", mount |-> "none", source |-> "image", privileged |-> "no",
     kind |-> "absent", deploy |-> "absent", other |-> "absent",
     environment |-> "absent", public |-> "yes", pods |-> "one", tree |-> "clean"]

CcOdds(doc) == {f \in CcFields : doc[f] # CcUsual[f]}

\* Docker Compose itself refuses what is not declared.
CcResolves(doc) ==
    /\ doc.attached = "another" => doc.network = "another"
    /\ doc.mount = "shared" => doc.volume # "absent"

CcEdited(docs) ==
    docs \cup UNION {{[doc EXCEPT ![f] = shape] : shape \in CcShapes[f]} : doc \in docs, f \in CcFields}
CcOneOdd == CcEdited({CcUsual})
CcTwoOdd == CcEdited(CcOneOdd)
CcDocs(odd) ==
    {doc \in CASE odd = 0 -> {CcUsual} [] odd = 1 -> CcOneOdd [] OTHER -> CcTwoOdd :
        CcResolves(doc)}

\* Which service mounts which volume by name.
CcMounts(doc) ==
    (IF doc.volume # "absent" THEN {<<"db", "v">>} ELSE {})
    \cup {"web"} \X (CASE doc.mount \in {"own", "read-only", "optioned"} -> {"w"}
                       [] doc.mount = "two" -> {"w", "x"}
                       [] doc.mount = "shared" -> {"v"}
                       [] OTHER -> {})
CcVolumes(doc) == {m[2] : m \in CcMounts(doc)}

------------------------------------------------------------------------------
(* What is refused: the shapes that validators let pass.                   *)

\* validate_remote_safety, on every document that is to leave the machine.
CcCoreTakes(doc) == doc.attached # "host" /\ doc.mount # "bind"

CcDefaultNetwork == {"generated"}                  \* validate_top_level_networks
CcDefaultMember == {"default"}                     \* validate_service_networks, network_mode
CcOwnVolumes == {"generated", "absent"}            \* validate_top_level_volumes
CcFileAssets == {"absent", "file"}                 \* validate_top_level_assets
CcContained == {"image", "build", "options"}       \* canonical_build_revision_value
CcRegistryBuilds == {"image", "build"}             \* parse_build_input
CcWorkloadKinds == {"absent", "job", "stateful"}   \* validate_extension
CcFlyMounts == {"none", "own", "shared", "anonymous"}  \* service_volume, parse_mount
CcFlyDeploys == {"absent", "one"}                  \* workloads

CcComposeTakes(f) ==
    CASE f = "network" -> CcDefaultNetwork
      [] f = "attached" -> CcDefaultMember
      [] f = "volume" -> CcOwnVolumes
      [] f = "assets" -> CcFileAssets
      [] f = "mount" -> CcShapes.mount \ {"bind"}
      [] f = "source" -> CcContained
      [] f = "public" -> CcShapes.public \ {"missing"}
      [] OTHER -> CcShapes[f]

CcKubernetesTakes(f) ==
    CASE f \in {"privileged", "deploy", "other", "assets"} -> {CcUsual[f]}
      [] f = "source" -> CcRegistryBuilds
      [] f = "kind" -> CcWorkloadKinds
      [] OTHER -> CcComposeTakes(f)

CcFlyTakes(f) ==
    CASE f \in {"privileged", "kind", "other", "assets"} -> {CcUsual[f]}
      [] f = "mount" -> CcFlyMounts
      [] f = "deploy" -> CcFlyDeploys
      [] f = "public" -> {"yes", "no"}
      [] OTHER -> CcComposeTakes(f)

\* Mutant of CcTakes: nobody looks for `external`.
CcTakesExternal(f) ==
    (CASE ccRuntime = "compose" -> CcComposeTakes(f)
       [] ccRuntime = "kubernetes" -> CcKubernetesTakes(f)
       [] OTHER -> CcFlyTakes(f)) \cup (IF f = "volume" THEN {"external"} ELSE {})

CcTakes(f) ==
    CASE ccRuntime = "compose" -> CcComposeTakes(f)
      [] ccRuntime = "kubernetes" -> CcKubernetesTakes(f)
      [] OTHER -> CcFlyTakes(f)

\* A Job serves no app, and a volume that one node may mount is not for many
\* Pods of a service; a Job has only one.
CcPodsFit(doc) ==
    /\ doc.kind = "job" => doc.public = "no"
    /\ doc.pods = "many" => \A m \in CcMounts(doc) : m[1] = "web" /\ doc.kind = "job"

CcAccepts(doc) ==
    /\ CcCoreTakes(doc)
    /\ \A f \in CcFields : doc[f] \in CcTakes(f)
    /\ ccRuntime = "kubernetes" => CcPodsFit(doc)

------------------------------------------------------------------------------
(* What is rendered: the shapes that keep their meaning.                   *)

\* render_deployment takes the document with networks of its own, without the
\* names of volumes and assets, and leaves x-lightrail to nobody.
CcComposeCarries(f) ==
    CASE f = "volume" -> {"generated", "absent", "options"}
      [] f = "assets" -> {"absent", "file", "inline"}
      [] f = "kind" -> {"absent"}
      [] OTHER -> CcComposeTakes(f)

\* render_environment and pod_spec build every object from the fields that they know.
CcKubernetesCarries(f) ==
    CASE f \in {"network", "attached", "assets", "privileged", "deploy", "other"} -> {CcUsual[f]}
      [] f = "volume" -> {"generated", "absent"}
      [] f = "mount" -> CcShapes.mount \ {"bind", "optioned"}
      [] f = "source" -> {"image", "build"}
      [] f = "kind" -> {"absent", "job", "stateful"}
      [] f = "public" -> CcShapes.public \ {"missing"}
      [] OTHER -> CcShapes[f]

\* A Machine has one volume, of its own.
CcFlyCarries(f) ==
    CASE f \in {"network", "attached", "assets", "privileged", "kind", "other"} -> {CcUsual[f]}
      [] f = "volume" -> {"generated", "absent"}
      [] f = "mount" -> {"none", "own"}
      [] f = "source" -> {"image", "build", "options"}
      [] f = "deploy" -> {"absent", "one"}
      [] f = "public" -> {"yes", "no"}
      [] OTHER -> CcShapes[f]

CcCarries(f) ==
    CASE ccRuntime = "compose" -> CcComposeCarries(f)
      [] ccRuntime = "kubernetes" -> CcKubernetesCarries(f)
      [] OTHER -> CcFlyCarries(f)

------------------------------------------------------------------------------
(* Identities and names.  A hash is the value that it is taken of.         *)

CcEnvironment(who) == <<who.project, who.profile, who.branch>>

\* Mutant of CcLabel: nothing is appended to a label that was changed.
CcLabelPlain(name) == <<CcNormal[name]>>

\* DnsLabel: a name that normalization changes carries its hash.
CcLabel(name) == IF CcNormal[name] = name THEN <<name>> ELSE <<CcNormal[name], name>>

\* The apps of the profile, and the hostnames of their routes on one address.
\* A project has an app; if "web" backs none, "db" does.
CcApps(doc) ==
    CASE doc.public = "no" -> {"admin"} [] doc.public = "twice" -> {"app", "app2"} [] OTHER -> {"app"}
CcRoutes(who, doc) ==
    {<<"route", CcLabel(who.branch), app, CcLabel(who.profile), CcLabel(who.slug)>> :
        app \in CcApps(doc)}

\* Mutant of CcVolumeOwner: a volume keeps the name that its directory gave it.
CcVolumeOwnerKept(c, volume) == <<c>>

\* scope_named_volumes removes every name, so that the Compose project of the
\* environment gives a new one; an external volume is nobody's.
CcVolumeOwner(c, volume) ==
    IF volume = "v" /\ ccDoc[c].volume = "external" THEN <<"host">> ELSE CcEnvironment(ccWho[c])

\* What differs between deployments of one document is in none of its fields:
\* files that Git ignores, the bytes of assets and the values of environments.
CcHidden(doc) ==
    {f \in {"source", "assets", "environment", "tree"} :
        doc[f] \in {"build", "options", "file", "first", "second", "dirty"}}

\* Mutant of CcSalts: a build is taken for what its Dockerfile says.
CcSaltsWithoutBuilds == {"assets", "environment", "tree"}

\* The facts that put the identifier of the operation into the revision.
CcSalts ==
    CASE ccRuntime = "compose" -> {"source", "assets", "environment", "tree"}
      [] ccRuntime = "fly" -> {"source", "environment", "tree"}
      [] OTHER -> {"source", "tree"}

\* What is hashed of a document: services and, but for Kubernetes, the apps.
CcHashed ==
    CcFields \ ({"environment", "pods", "tree"} \cup (IF ccRuntime = "kubernetes" THEN {"public"} ELSE {}))

\* Mutant of CcStable: the generated names stay in what is hashed.
CcStableNamed(c) ==
    [f \in CcHashed |-> IF ccDoc[c][f] = "generated" THEN <<"generated", c>> ELSE <<ccDoc[c][f]>>]

\* The document without what the directory of the checkout gives it: the
\* project's name, names of networks and volumes, absolute paths.
CcStable(c) == [f \in CcHashed |-> <<ccDoc[c][f]>>]

\* Compose and Fly hash the whole identity, Kubernetes what cannot be renamed.
CcRevision(c) ==
    [document |-> CcStable(c),
     environment |-> ccDoc[c].environment # "absent",  \* only its names
     who |-> IF ccRuntime = "kubernetes" THEN CcEnvironment(ccWho[c]) ELSE ccWho[c],
     operation |-> IF CcHidden(ccDoc[c]) \cap CcSalts # {} THEN c ELSE 0]

------------------------------------------------------------------------------
(* What is claimed of a place that others use too.                         *)

CcServices == {"db", "web"}
CcBuilt(doc) == IF doc.source \in {"build", "options"} THEN {"web"} ELSE {}

\* render_deployment, with `container_name` as the document has it.
CcComposeClaims(c) ==
    LET env == CcEnvironment(ccWho[c])
        doc == ccDoc[c]
    IN  {<<"project", env>>, <<"network", env>>, <<"ingress", env>>}
        \cup {<<"volume", CcVolumeOwner(c, v), v>> : v \in CcVolumes(doc)}
        \cup {<<"asset", env>> : f \in {doc.assets} \ {"absent"}}
        \cup {<<"container", IF s = "web" /\ doc.other = "container_name" THEN <<"host">> ELSE env, s>> :
                 s \in CcServices}
        \cup {<<"image", env, s, CcRevision(c)>> : s \in CcBuilt(doc)}
        \cup {<<"router", env, app>> : app \in CcApps(doc)}
        \cup CcRoutes(ccWho[c], doc)

\* render_environment: everything but routes and images is in the namespace.
CcKubernetesClaims(c) ==
    {<<"namespace", CcEnvironment(ccWho[c])>>}
    \cup {<<"image", CcLabel(ccWho[c].slug), s, CcRevision(c)>> : s \in CcBuilt(ccDoc[c])}
    \cup CcRoutes(ccWho[c], ccDoc[c])

\* Fly apps have hostnames of their own.
CcFlyClaims(c) ==
    LET env == CcEnvironment(ccWho[c]) IN
    {<<"network", env>>}
    \cup {<<"app", env, s>> : s \in CcServices}
    \cup {<<"volume", env, m>> : m \in CcMounts(ccDoc[c])}
    \cup {<<"image", env, s, CcRevision(c)>> : s \in CcBuilt(ccDoc[c])}

CcClaims(c) ==
    CASE ccRuntime = "compose" -> CcComposeClaims(c)
      [] ccRuntime = "kubernetes" -> CcKubernetesClaims(c)
      [] OTHER -> CcFlyClaims(c)

------------------------------------------------------------------------------
CcStart(runtimes, visits) ==
    /\ ccRuntime \in runtimes /\ ccWho \in visits
    /\ ccDoc = [c \in CcCheckouts |-> CcUsual]
    /\ ccAt = [c \in CcCheckouts |-> "none"]

CcInit == CcStart(CcRuntimes, CcVisits)

\* An `up` of a checkout, as far as names and meaning go.
CcUp(c) ==
    /\ ccAt[c] = "none" /\ \A b \in 1 .. c - 1 : ccAt[b] # "none"
    /\ \E doc \in CcDocs(CcOdd - Cardinality(UNION {CcOdds(ccDoc[b]) : b \in 1 .. c - 1})) :
        /\ ccDoc' = [ccDoc EXCEPT ![c] = doc]
        /\ ccAt' = [ccAt EXCEPT ![c] = IF CcAccepts(doc) THEN "up" ELSE "refused"]
    /\ UNCHANGED <<ccRuntime, ccWho>>

CcNext == \E c \in CcCheckouts : CcUp(c)
CcSpec == CcInit /\ [][CcNext]_ccVars

------------------------------------------------------------------------------
CcTypeOK ==
    /\ ccRuntime \in CcRuntimes /\ ccWho \in CcVisits
    /\ \A c \in CcCheckouts :
        /\ DOMAIN ccDoc[c] = CcFields /\ \A f \in CcFields : ccDoc[c][f] \in CcShapes[f]
        /\ ccAt[c] \in {"none", "refused", "up"}

CcBothUp == \A c \in CcCheckouts : ccAt[c] = "up"
CcSame ==
    \A key \in {"project", "profile", "branch"} : ccWho[1][key] = ccWho[2][key]
CcHeld(c) == {n \in CcClaims(c) : n[1] \notin {"route", "image"}}

\* Two environments claim no name in common, whatever their documents say, but
\* for the routes of two projects of one slug and containers that have a name.
CcScoped ==
    CcBothUp /\ ~CcSame => \A n \in CcClaims(1) \cap CcClaims(2) :
        \/ n[1] = "route" /\ ccWho[1].project # ccWho[2].project /\ ccWho[1].slug = ccWho[2].slug
        \/ n[1] = "container" /\ \A c \in CcCheckouts : ccDoc[c].other = "container_name"

\* A document finds its own volumes, networks and containers again, in another
\* directory and after its project was renamed.
CcFindsItsOwn == CcBothUp /\ CcSame /\ ccDoc[1] = ccDoc[2] => CcHeld(1) = CcHeld(2)

\* What is accepted keeps its meaning, but for: x-lightrail under Compose, the
\* options of a mount under Kubernetes, and under Fly a volume that two services
\* mount, which becomes two, and one without a name, which is dropped.
CcMeaningKept ==
    \A c \in CcCheckouts, f \in CcFields : ccAt[c] = "up" =>
        \/ ccDoc[c][f] \in CcCarries(f)
        \/ ccRuntime = "compose" /\ f = "kind"
        \/ ccRuntime = "kubernetes" /\ ccDoc[c][f] = "optioned"
        \/ ccRuntime = "fly" /\ ccDoc[c][f] \in {"shared", "anonymous"}

\* Two deployments of one revision run the same: the same document, and nothing
\* in it that the document does not show.  (Kubernetes restarts what has an
\* environment by an annotation, and its apps are not part of a workload.)  And
\* a document that shows everything has one revision in every directory.
CcRevisionTells ==
    CcBothUp /\ CcSame =>
        /\ CcRevision(1) = CcRevision(2) =>
            /\ \A f \in CcHashed : ccDoc[1][f] = ccDoc[2][f]
            /\ CcHidden(ccDoc[1]) \ (IF ccRuntime = "kubernetes" THEN {"environment"} ELSE {}) = {}
        /\ ccDoc[1] = ccDoc[2] /\ ccWho[1] = ccWho[2] /\ CcHidden(ccDoc[1]) = {} =>
            CcRevision(1) = CcRevision(2)

\* docs/product-spec.md, 8.1, 13 and README.md on networks, volumes, names and revisions.
CcAnswersAreTrue == CcScoped /\ CcFindsItsOwn /\ CcMeaningKept /\ CcRevisionTells
==============================================================================
