--------------------------- MODULE MCAssemblyPlan ---------------------------
(***************************************************************************)
(* Three designers: one plans a blueprint of one application, a twin sends *)
(* another blueprint of two applications under the same keys, and a third  *)
(* wants the first blueprint under keys of its own.  The catalogs differ   *)
(* in what three packages of two versions require of each other, which of  *)
(* them conflict, and where one of them is available.                      *)
(*                                                                         *)
(* Then requests for one plan: two under one key for different targets,    *)
(* one of a second administrator at the same version, and one of a third   *)
(* who expects the confirmed version.                                      *)
(***************************************************************************)
EXTENDS AssemblyPlanning

MCClients == {"sent", "elsewhere", "second", "third"}
MCKeyOf == [c \in MCClients |-> IF c = "second" THEN "k2" ELSE IF c = "third" THEN "k3" ELSE "k1"]
MCTargetOf == [c \in MCClients |-> IF c = "elsewhere" THEN "t2" ELSE "t1"]
MCExpectedOf == [c \in MCClients |-> IF c = "third" THEN 2 ELSE 1]

App(id, place, path, range) ==
    [id |-> id, place |-> place, path |-> path, environment |-> "test", template |-> 1, range |-> range]

OneApplication ==
    [id |-> "b1", packages |-> {[id |-> 1, range |-> {1, 2}]}, providers |-> {},
     applications |-> <<App(1, "web", <<"web">>, {1, 2})>>]
TwoApplications ==
    [id |-> "b2", packages |-> {[id |-> 1, range |-> {1, 2}], [id |-> 3, range |-> {1}]}, providers |-> {"pay"},
     applications |-> <<App(1, "web", <<"web">>, {1, 2}), App(2, "desk", <<"desk">>, {1, 2})>>]

MCDesigners == {"first", "twin", "other"}
MCDraftOf == [d \in MCDesigners |->
    [blueprintKey |-> IF d = "other" THEN "k2" ELSE "k1",
     planKey |-> IF d = "other" THEN "k2" ELSE "k1",
     blueprint |-> IF d = "twin" THEN TwoApplications ELSE OneApplication,
     environment |-> "test"]]

Need(id, range) == [id |-> id, range |-> range]
Web == {<<"web", "test">>}
Everywhere == {<<"web", "test">>, <<"desk", "test">>}

Package(id, dependencies, conflicts, available) ==
    [dependencies |-> dependencies, conflicts |-> conflicts, available |-> available,
     templates |-> {Need(1, IF id = 2 THEN {1} ELSE {1, 2})}, blocks |-> {},
     capabilities |-> {id}, needs |-> IF id = 3 /\ conflicts # {} THEN {"pay"} ELSE {},
     outputs |-> {<<"src", id>>}]

Template(version, range) ==
    [id |-> 1, version |-> version, packages |-> <<{1, 2}, {1, 2}, range>>,
     blocks |-> {}, available |-> Everywhere,
     entrypoints |-> [web |-> <<"main">>, desk |-> <<"main">>]]

\* The catalogs differ in what version 2 of the first package requires, what
\* version 2 of the second does, which packages conflict with version 2 of the
\* third, where version 2 of the first is available, and which versions of the
\* third package the newer template takes.
News == <<{}, {Need(2, {1, 2})}, {Need(2, {1, 2}), Need(3, {2})}, {Need(2, {2})}>>
Seconds == <<{Need(3, {1, 2})}, {Need(1, {1})}, {Need(1, {1, 2})}, {Need(4, {1})}>>
Clashes == <<{}, {Need(2, {2})}, {Need(1, {1, 2})}>>
Places == <<Everywhere, Web>>
Ranges == <<{1, 2}, {2}>>

MCCatalogs == (1..4) \X (1..4) \X (1..3) \X (1..2) \X (1..2)

Catalog(digest) ==
    [tools |-> Everywhere,
     packages |-> <<
        <<Package(1, {Need(3, {1})}, {}, Everywhere),
          Package(1, News[digest[1]], {}, Places[digest[4]])>>,
        <<Package(2, {Need(3, {1})}, {}, Everywhere),
          Package(2, Seconds[digest[2]], {}, Everywhere)>>,
        <<Package(3, {}, {}, Everywhere),
          Package(3, {}, Clashes[digest[3]], Everywhere)>> >>,
     templates |-> << <<Template(1, {1, 2}), Template(2, Ranges[digest[5]])>> >>]

MCContents == [digest \in MCCatalogs |-> Catalog(digest)]

Plain == <<1, 1, 1, 1, 1>>

Newer == <<2, 1, 1, 1, 1>>
MCUpdates == [digest \in MCCatalogs |-> IF digest = Plain THEN {Newer} ELSE {}]

\* Answers are lost with two of the catalogs only.  The plan requests follow
\* one planning of one designer, at the end of the bounds: the plan is one of
\* an earlier catalog, and the other designers are refused.
OnePlanStarted ==
    /\ lost = 0 \/ catalog \in {Plain, Newer}
    /\ \/ \A c \in Clients : request[c].pc = "idle"
       \/ /\ servers = MaxServers /\ lost = MaxLost
          /\ \A d \in Designers :
                draft[d].own /\ draft[d].pc = IF d = "first" THEN "ready" ELSE "refused"
          /\ \A i \in DOMAIN plans : plans[i].digest = Plain
=============================================================================
