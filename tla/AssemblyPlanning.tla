-------------------------- MODULE AssemblyPlanning --------------------------
(***************************************************************************)
(* From a blueprint to a started run: designers create blueprints and have *)
(* them planned against the server's catalog, and the requests of          *)
(* AssemblyPlan then confirm and start the first plan that was made.  A    *)
(* designer that gets no answer repeats its requests under the same key,   *)
(* and a new server may come with another catalog.                         *)
(*                                                                         *)
(* The permissions of the requests are left out, and a blueprint is valid  *)
(* under its schema.  MaxLost bounds the answers that are lost, MaxServers *)
(* the servers.                                                            *)
(***************************************************************************)
EXTENDS AssemblyPlan, PackageCatalog

CONSTANTS Designers,
          DraftOf,   \* of each, the blueprint, the environment and the keys of its two requests
          Catalogs,  \* digests of the catalogs that the first server may load
          Updates,   \* of those that may replace each
          Contents,  \* the catalog of each digest
          MaxLost, MaxServers

\* The plan that a server with a catalog makes of a blueprint, if it makes one.
PlansFor(digest, blueprint, environment) ==
    {[digest |-> digest, blueprint |-> blueprint, environment |-> environment,
      packages |-> built.packages, templates |-> built.templates]
       : built \in BuildPlan(Contents[digest], blueprint, environment)}

ASSUME PlanningAssumption ==
    /\ Catalogs \subseteq DOMAIN Contents
    /\ \A digest \in DOMAIN Contents : Updates[digest] \subseteq DOMAIN Contents
    /\ \A d \in Designers : DraftOf[d].blueprint # None
    /\ \A digest \in DOMAIN Contents, d, e \in Designers :
          None \notin PlansFor(digest, DraftOf[d].blueprint, DraftOf[e].environment)

VARIABLES catalog,       \* the digest of the catalog of the running server
          blueprints,    \* product_blueprints, by identifier, each at revision 1
          blueprintKeys, \* per key, the idempotency record of create_blueprint
          planKeys,      \* per key and blueprint identifier, that of create_plan
          plans,         \* assembly_plans, in the order of their creation
          draft,         \* per designer, what it does next and what it was told
          lost, servers

drafting == <<catalog, blueprints, blueprintKeys, planKeys, plans, draft, lost, servers>>

BlueprintKeys == {DraftOf[d].blueprintKey : d \in Designers}
PlanKeys == {DraftOf[d].planKey : d \in Designers}
BlueprintIds == {DraftOf[d].blueprint.id : d \in Designers}

Drafting(pc, own, told) == [pc |-> pc, own |-> own, told |-> told]

InitPlanning ==
    /\ Init
    /\ catalog \in Catalogs
    /\ blueprints = [id \in BlueprintIds |-> None]
    /\ blueprintKeys = [k \in BlueprintKeys |-> None]
    /\ planKeys = [k \in PlanKeys \X BlueprintIds |-> None]
    /\ plans = <<>>
    /\ draft = [d \in Designers |-> Drafting("blueprint", TRUE, None)]
    /\ lost = 0
    /\ servers = 1

Turns(d, pc, told) == draft' = [draft EXCEPT ![d] = Drafting(pc, draft[d].own, told)]

\* The record of the key is that of this blueprint.  Instead: of any.
AnyBlueprint(d, record) == TRUE
SameBlueprint(d, record) == record = DraftOf[d].blueprint

\* CreateBlueprint: a used key is answered with its blueprint or refused, and
\* an identifier is taken once.
CreateBlueprint(d) ==
    /\ draft[d].pc = "blueprint"
    /\ LET key == DraftOf[d].blueprintKey
           blueprint == DraftOf[d].blueprint
       IN  IF blueprintKeys[key] # None
           THEN /\ IF SameBlueprint(d, blueprintKeys[key])
                   THEN Turns(d, "plan", blueprintKeys[key].id) ELSE Turns(d, "refused", None)
                /\ UNCHANGED <<blueprints, blueprintKeys>>
           ELSE IF blueprints[blueprint.id] # None
           THEN Turns(d, "refused", None) /\ UNCHANGED <<blueprints, blueprintKeys>>
           ELSE /\ blueprints' = [blueprints EXCEPT ![blueprint.id] = blueprint]
                /\ blueprintKeys' = [blueprintKeys EXCEPT ![key] = blueprint]
                /\ Turns(d, "plan", blueprint.id)
    /\ UNCHANGED <<vars, catalog, planKeys, plans, lost, servers>>

\* GetBlueprint: a designer takes a blueprint that is there.
OpenBlueprint(d) ==
    /\ draft[d].pc = "blueprint" /\ blueprints[DraftOf[d].blueprint.id] # None
    /\ draft' = [draft EXCEPT ![d] = Drafting("plan", FALSE, DraftOf[d].blueprint.id)]
    /\ UNCHANGED <<vars, catalog, blueprints, blueprintKeys, planKeys, plans, lost, servers>>

\* A stored plan with the identifier of a plan that was built.
IsStored(planned) == \E i \in DOMAIN plans : plans[i] = planned

\* The record of the key is for this blueprint and environment.
SamePlan(d, record) ==
    record.blueprint = blueprints[draft[d].told] /\ record.environment = DraftOf[d].environment

\* CreatePlan: the blueprint is planned, whether or not the key is used.  The
\* plan's identifier is a digest of blueprint, environment and catalog.  A
\* used key is answered with its plan, which may be of an earlier catalog.
CreatePlan(d) ==
    /\ draft[d].pc = "plan"
    /\ LET id == draft[d].told
           slot == <<DraftOf[d].planKey, id>>
           built == PlansFor(catalog, blueprints[id], DraftOf[d].environment)
           new == CHOOSE b \in built : TRUE
       IN  IF built = {}
           THEN Turns(d, "unplanned", None) /\ UNCHANGED <<plans, planKeys>>
           ELSE IF planKeys[slot] # None
           THEN /\ IF SamePlan(d, planKeys[slot])
                   THEN Turns(d, "ready", planKeys[slot]) ELSE Turns(d, "refused", None)
                /\ UNCHANGED <<plans, planKeys>>
           ELSE IF IsStored(new)
           THEN Turns(d, "refused", None) /\ UNCHANGED <<plans, planKeys>>
           ELSE /\ plans' = Append(plans, new)
                /\ planKeys' = [planKeys EXCEPT ![slot] = new]
                /\ Turns(d, "ready", new)
    /\ UNCHANGED <<vars, catalog, blueprints, blueprintKeys, lost, servers>>

\* An answer is lost, and the designer begins again.
LoseDraft(d) ==
    /\ draft[d].pc \in {"plan", "ready"}
    /\ lost < MaxLost
    /\ lost' = lost + 1
    /\ draft' = [draft EXCEPT ![d] = Drafting("blueprint", TRUE, None)]
    /\ UNCHANGED <<vars, catalog, blueprints, blueprintKeys, planKeys, plans, servers>>

\* The catalog is loaded when a server starts.
Restart ==
    /\ servers < MaxServers
    /\ servers' = servers + 1
    /\ catalog' \in Updates[catalog]
    /\ UNCHANGED <<vars, blueprints, blueprintKeys, planKeys, plans, draft, lost>>

\* A request for a plan is made once there is one.
PlanStep ==
    /\ plans # <<>>
    /\ Next
    /\ UNCHANGED drafting

PlanningNext ==
    \/ \E d \in Designers :
          CreateBlueprint(d) \/ OpenBlueprint(d) \/ CreatePlan(d) \/ LoseDraft(d)
    \/ Restart
    \/ PlanStep

allVars == <<vars, drafting>>

PlanningSpec == InitPlanning /\ [][PlanningNext]_allVars

FairPlanningSpec ==
    PlanningSpec /\ \A c \in Clients :
        WF_allVars(plans # <<>> /\ Proceed(c) /\ UNCHANGED drafting)

-----------------------------------------------------------------------------
(***************************************************************************)
(* What a plan must be, stated without the search.                         *)
(***************************************************************************)

\* What the blueprint and the chosen packages among some ask for.
Demands(from, planned, ids) ==
    planned.blueprint.packages
      \union UNION {from.packages[id][planned.packages[id]].dependencies : id \in ids}

\* Every package has a version that fits all that is required of it, no two
\* conflict, and the application's template takes them all.
Fits(from, planned, i) ==
    LET app == planned.blueprint.applications[i]
        chosen == planned.packages
        template == from.templates[app.template][planned.templates[i]]
    IN  /\ \A r \in Demands(from, planned, DOMAIN chosen) : r.id \in DOMAIN chosen /\ chosen[r.id] \in r.range
        /\ template.version \in app.range /\ app.place \in DOMAIN template.entrypoints
        /\ <<app.place, planned.environment>> \in template.available
        /\ \A id \in DOMAIN chosen :
              LET manifest == from.packages[id][chosen[id]]
              IN  /\ <<app.place, planned.environment>> \in manifest.available
                  /\ TemplateTakes(template, id, chosen[id], manifest)
                  /\ \A c \in manifest.conflicts : c.id \in DOMAIN chosen => chosen[c.id] \notin c.range
        /\ WithoutCycle(from, chosen)

\* Nothing is chosen that nobody else requires.
Needed(from, planned) ==
    \A ids \in SUBSET DOMAIN planned.packages \ {{}} :
        \E r \in Demands(from, planned, DOMAIN planned.packages \ ids) : r.id \in ids

\* The plans of one application that fit, for a blueprint and a catalog.
FittingPlans(blueprint, environment, digest) ==
    LET from == Contents[digest]
        app == blueprint.applications[1]
        Versions == IF app.template \in DOMAIN from.templates THEN DOMAIN from.templates[app.template] ELSE {}
        Chosen == {s \in Selections(from) : \A id \in DOMAIN s : s[id] \in DOMAIN from.packages[id]}
    IN  {planned \in {[digest |-> digest, blueprint |-> blueprint, environment |-> environment,
                       packages |-> chosen, templates |-> <<version>>]
                         : chosen \in Chosen, version \in Versions} : Fits(from, planned, 1)}

-----------------------------------------------------------------------------
\* A stored plan locks versions that meet every constraint of the blueprint, of
\* the packages and of the templates, for every application, and no others; and
\* a blueprint of one application is refused only if no versions meet them, or
\* its tools or environment are wrong, or versions that meet them are short of a
\* provider or share a capability.  (Catalog.solve: contract.md on
\* backtracking past the highest version)
PlansAreResolutions ==
    /\ \A n \in DOMAIN plans :
          LET from == Contents[plans[n].digest]
          IN  /\ Needed(from, plans[n])
              /\ \A i \in DOMAIN plans[n].blueprint.applications : Fits(from, plans[n], i)
    /\ servers = 1 => \A d \in Designers :
          LET blueprint == DraftOf[d].blueprint
              environment == DraftOf[d].environment
          IN  (/\ draft[d].pc = "unplanned" /\ draft[d].own
               /\ Len(blueprint.applications) = 1
               /\ ApplicationsAgree(Contents[catalog], blueprint.applications, environment)) =>
                  LET fitting == FittingPlans(blueprint, environment, catalog)
                  IN  \/ fitting = {}
                      \/ \E planned \in fitting :
                            ~Supplied(Contents[catalog], planned.packages, blueprint.providers)

\* A designer that is told of a plan is told of a stored one for its environment,
\* made from the blueprint that it sent if it created one, and one key has one
\* plan, although an answer was lost and the catalog is another since.
\* (CreateBlueprint, CreatePlan, reserveIdempotency)
DraftsAgree ==
    \A d \in Designers : draft[d].pc = "ready" =>
        LET told == draft[d].told
        IN  /\ IsStored(told)
            /\ draft[d].own => told.blueprint = DraftOf[d].blueprint
            /\ told.environment = DraftOf[d].environment
            /\ \A e \in Designers :
                  (/\ draft[e].pc = "ready" /\ DraftOf[e].planKey = DraftOf[d].planKey
                   /\ draft[e].told.blueprint.id = told.blueprint.id) => draft[e].told = told
=============================================================================
