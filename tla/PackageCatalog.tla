--------------------------- MODULE PackageCatalog ---------------------------
(***************************************************************************)
(* The resolver of the machine catalog and the planner that uses it.       *)
(*                                                                         *)
(* A catalog has package manifests and template manifests by identifier    *)
(* and version, and the places that its generator and SDK support.         *)
(* Identifiers and versions are numbers, in the order in which the code    *)
(* sorts them; a version range is the set of its versions; a place is a    *)
(* target with a delivery mode; a path is the sequence of its segments.    *)
(* What is found is a set of at most one element: no element is an error.  *)
(***************************************************************************)
EXTENDS Naturals, Sequences, SequencesExt, FiniteSetsExt

\* versionMatchesAll
MatchesAll(version, ranges) == \A range \in ranges : version \in range

\* validateSelectionAvailability, for a manifest and an application
IsAvailable(manifest, app) == <<app.place, app.environment>> \in manifest.available

Manifest(catalog, id, version) == catalog.packages[id][version]

Dependencies(catalog, chosen) ==
    UNION {Manifest(catalog, id, chosen[id]).dependencies : id \in DOMAIN chosen}

\* The requirements on the packages, once some are chosen.  Instead: a
\* dependency is met by any version.
AnyVersionOf(catalog, required, chosen) ==
    LET any == UNION {DOMAIN catalog.packages[id] : id \in DOMAIN catalog.packages}
    IN  required \union {[id |-> d.id, range |-> any] : d \in Dependencies(catalog, chosen)}
Constraints(catalog, required, chosen) == required \union Dependencies(catalog, chosen)

RangesOf(constraints, id) == {c.range : c \in {d \in constraints : d.id = id}}

\* validateConflicts
WithoutConflict(catalog, chosen) ==
    \A id \in DOMAIN chosen : \A c \in Manifest(catalog, id, chosen[id]).conflicts :
        c.id \in DOMAIN chosen => chosen[c.id] \notin c.range

\* validateDependencyCycles: in a cycle every package depends on another one.
WithoutCycle(catalog, chosen) ==
    \A ids \in SUBSET DOMAIN chosen \ {{}} : \E id \in ids :
        \A d \in Manifest(catalog, id, chosen[id]).dependencies : d.id \notin ids

\* validateTemplatePackages and validatePackageTemplateRequirements, for one
\* package, as validateTemplatePackageCandidate calls them.
TemplateTakes(template, id, version, manifest) ==
    /\ id \in DOMAIN template.packages
    /\ version \in template.packages[id]
    /\ manifest.blocks \subseteq template.blocks
    /\ \E t \in manifest.templates : t.id = template.id /\ template.version \in t.range

\* The versions of a package that may be chosen next.
Candidates(catalog, app, template, constraints, chosen, id) ==
    {version \in DOMAIN catalog.packages[id] :
        /\ MatchesAll(version, RangesOf(constraints, id))
        /\ IsAvailable(Manifest(catalog, id, version), app)
        /\ TemplateTakes(template, id, version, Manifest(catalog, id, version))
        /\ WithoutConflict(catalog, chosen @@ (id :> version))}

Selections(catalog) ==
    UNION {[ids -> UNION {DOMAIN catalog.packages[id] : id \in ids}]
              : ids \in SUBSET DOMAIN catalog.packages}

\* Catalog.solve: the first package that is required and not chosen gets its
\* newest version with which the rest can be solved.
Solve(catalog, required, app, template) ==
    LET solve[chosen \in Selections(catalog)] ==
          LET constraints == Constraints(catalog, required, chosen)
              open == {c.id : c \in constraints} \ DOMAIN chosen
              next == Min(open)
              good == {version \in Candidates(catalog, app, template, constraints, chosen, next) :
                          solve[chosen @@ (next :> version)] # {}}
          IN  IF \E id \in DOMAIN chosen : ~MatchesAll(chosen[id], RangesOf(constraints, id))
              THEN {}
              ELSE IF open = {}
              THEN IF WithoutCycle(catalog, chosen) THEN {chosen} ELSE {}
              ELSE IF next \notin DOMAIN catalog.packages \/ good = {}
              THEN {}
              ELSE solve[chosen @@ (next :> Max(good))]
    IN  solve[<<>>]

\* The versions of the application's template that may be tried.
TemplatesFor(catalog, app) ==
    IF app.template \notin DOMAIN catalog.templates THEN {}
    ELSE {version \in DOMAIN catalog.templates[app.template] \intersect app.range :
             LET template == catalog.templates[app.template][version]
             IN  IsAvailable(template, app) /\ app.place \in DOMAIN template.entrypoints}

\* Catalog.Resolve: the newest template with which the packages can be solved.
Resolve(catalog, required, app) ==
    LET Found(version) == Solve(catalog, required, app, catalog.templates[app.template][version])
        good == {version \in TemplatesFor(catalog, app) : Found(version) # {}}
    IN  {[packages |-> CHOOSE chosen \in Found(version) : TRUE, template |-> version]
            : version \in IF good = {} THEN {} ELSE {Max(good)}}

\* Catalog.ResolveTool, for the generator and the SDK
ToolsSupport(catalog, app) == <<app.place, app.environment>> \in catalog.tools

\* pathsOverlap
Overlap(first, second) == IsPrefix(first, second) \/ IsPrefix(second, first)

\* What is generated for an application: the outputs of the packages and the
\* entry point of the template, each under the application's path.
OutputsOf(catalog, app, resolution) ==
    {<<output[1], app.path \o output[2]>> : output \in
        UNION {{<<id, path>> : path \in Manifest(catalog, id, resolution.packages[id]).outputs}
                  : id \in DOMAIN resolution.packages}
        \union {<<0, catalog.templates[app.template][resolution.template].entrypoints[app.place]>>}}

\* The applications of the blueprint differ and are all for the environment.
ApplicationsAgree(catalog, apps, environment) ==
    /\ apps # <<>>
    /\ \A i, j \in DOMAIN apps : i < j =>
          apps[i].id # apps[j].id /\ ~Overlap(apps[i].path, apps[j].path)
    /\ \A i \in DOMAIN apps : apps[i].environment = environment /\ ToolsSupport(catalog, apps[i])

\* Two applications have one version of each package.
OneVersionEach(resolutions) ==
    \A r, s \in resolutions : \A id \in DOMAIN r.packages \intersect DOMAIN s.packages :
        r.packages[id] = s.packages[id]

\* A capability has one package, and the blueprint names every provider that a
\* package needs.
Supplied(catalog, chosen, providers) ==
    LET ManifestOf(id) == Manifest(catalog, id, chosen[id])
    IN  /\ \A id, other \in DOMAIN chosen : id # other =>
              ManifestOf(id).capabilities \intersect ManifestOf(other).capabilities = {}
        /\ \A id \in DOMAIN chosen : ManifestOf(id).needs \subseteq providers

OutputsApart(outputs) ==
    \A i, j \in DOMAIN outputs : \A o \in outputs[i], p \in outputs[j] :
        <<i, o>> # <<j, p>> => ~Overlap(o[2], p[2])

\* Planner.BuildPlan
BuildPlan(catalog, blueprint, environment) ==
    LET apps == blueprint.applications
        found == [i \in DOMAIN apps |-> Resolve(catalog, blueprint.packages, apps[i])]
        resolutions == UNION {found[i] : i \in DOMAIN apps}
        chosen == FoldSet(LAMBDA r, all : r.packages @@ all, <<>>, resolutions)
        ResolutionOf(i) == CHOOSE r \in found[i] : TRUE
    IN  IF /\ ApplicationsAgree(catalog, apps, environment)
           /\ \A i \in DOMAIN apps : found[i] # {}
           /\ OneVersionEach(resolutions)
           /\ Supplied(catalog, chosen, blueprint.providers)
           /\ OutputsApart([i \in DOMAIN apps |-> OutputsOf(catalog, apps[i], ResolutionOf(i))])
        THEN {[blueprint |-> blueprint, environment |-> environment, packages |-> chosen,
               templates |-> [i \in DOMAIN apps |-> ResolutionOf(i).template]]}
        ELSE {}
=============================================================================
