------------------------------ MODULE AtlasPaths ------------------------------
(* The technical registry of the research atlas and where its identities are    *)
(* shown (research_atlas/validator.py, preferred_paths.py, private_views.py and  *)
(* the architecture tree of final_projection.py).  The registry is a set of      *)
(* named identities and authored part_of edges; a commit is accepted by          *)
(* validate_registry.  Everything the views show of the hierarchy is derived:    *)
(* upwards, from an identity to its roots, and downwards, from a scope to its    *)
(* components.  A page's path is derived too, from names and from ancestry.      *)
(*                                                                               *)
(* Names are portable and already normalised (_identity_filename_stem); two      *)
(* names that differ in letter case only are one name here.                      *)
EXTENDS Integers, Sequences, FiniteSets, SequencesExt

CONSTANTS
    Systems, Components, Interfaces,  \* identities, by Registry type
    Names,
    Pilot,          \* the Component whose identity page has a fixed file name
    PilotStem,      \* that name
    Hub,            \* the Component with pages of its own outside identity-pages
    IdentitiesName, \* the name that is also the folder of unrooted Components
    None

PathAssumption ==
    /\ Pilot \in Components /\ Hub \in Components \ {Pilot}
    /\ {PilotStem, IdentitiesName} \subseteq Names
    /\ None \notin Names \union Components \union Systems \union Interfaces

Ids == Systems \union Components \union Interfaces
Depth == Cardinality(Ids)

VARIABLE atlas   \* [name |-> title of every declared identity, partOf |-> edges]
vars == atlas

Declared(a) == {i \in Ids : a.name[i] # None}

KindOf(i) == CASE i \in Systems -> "System"
               [] i \in Components -> "Component"
               [] i \in Interfaces -> "Interface"

-------------------------------------------------------------------------------
(* Registry.                                                                     *)
Parents(a, i) == {p \in Ids : <<i, p>> \in a.partOf}
Children(a, i) == {c \in Ids : <<c, i>> \in a.partOf}

Ancestors(a, i) ==
    LET up[n \in 0..Depth] ==
            IF n = 0 THEN Parents(a, i)
            ELSE LET near == up[n - 1]
                 IN  near \union UNION {Parents(a, p) : p \in near}
    IN  up[Depth]

PairAllowed(source, target) ==
    source \in Components /\ target \in Systems \union Components

ValidateRegistry(a) ==
    /\ \A e \in a.partOf : {e[1], e[2]} \subseteq Declared(a) /\ PairAllowed(e[1], e[2])
    /\ \A i \in Declared(a) : i \notin Ancestors(a, i)

-------------------------------------------------------------------------------
(* Hierarchy, upwards: every parent is kept, one trail for each way up.          *)
Climbs(a, i) ==
    LET climb[n \in 0..Depth] ==
            IF n = 0 THEN {<<i>>}
            ELSE UNION {{<<p>> \o t : p \in Parents(a, Head(t))} : t \in climb[n - 1]}
    IN  climb

Trails(a, i) ==
    {t \in UNION {Climbs(a, i)[n] : n \in 0..Depth} : Parents(a, Head(t)) = {}}

Endless(a, i) == Climbs(a, i)[Depth] # {}

ComponentChildren(a, i) ==
    {c \in Children(a, i) : c \in Components /\ i \in Systems \union Components}

Descents(a, scope) ==
    LET walk[n \in 0..Depth] ==
            IF n = 0 THEN {<<scope>>}
            ELSE UNION {{Append(t, c) : c \in ComponentChildren(a, Last(t))} : t \in walk[n - 1]}
    IN  IF scope \in Interfaces THEN {} ELSE UNION {walk[n] : n \in 1..Depth}

(* The entry page: the branches drawn below the Systems, and everyone else.      *)
Rooted(a, i) == {t \in Trails(a, i) : t[1] \in Systems}
Branches(a) ==
    LET roots == Systems \intersect Declared(a)
    IN  {<<s>> : s \in roots} \union UNION {Descents(a, s) : s \in roots}
Detached(a) == {i \in Declared(a) : Rooted(a, i) = {}}

(* architecture_tree draws a trail below the trail that is one identity shorter. *)
TreeTrails(a) == UNION {Trails(a, i) : i \in Declared(a) \ Interfaces}
Drawn(a) ==
    {t \in TreeTrails(a) : \A n \in 1..Len(t) : SubSeq(t, 1, n) \in TreeTrails(a)}

-------------------------------------------------------------------------------
(* Page names.  A path is <<folder, title, stable id or None>>.                  *)
Claim(a, i) == IF i = Pilot THEN PilotStem ELSE a.name[i]

Suffixed(a, i) ==
    \E j \in Declared(a) \ {i} : Claim(a, j) = a.name[i]

IdentityPage(a, i) ==
    CASE i = Pilot -> <<"identity-pages", PilotStem, None>>
      [] i = Hub   -> <<"components", Hub, None>>
      [] OTHER     -> <<"identity-pages", a.name[i], IF Suffixed(a, i) THEN i ELSE None>>

Label(a, i) ==
    LET twins == {j \in Declared(a) \ {i} : KindOf(j) = KindOf(i) /\ a.name[j] = a.name[i]}
    IN  <<a.name[i], IF twins # {} THEN i ELSE None>>

PreferredPath(a, i) ==
    LET only == CHOOSE t \in Trails(a, i) : TRUE
        nested == Cardinality(Trails(a, i)) = 1 /\ only[1] \in Systems
    IN  IF i \notin Components THEN <<<<KindOf(i)>>, Label(a, i)>>
        ELSE IF nested
        THEN <<<<"Component">> \o [n \in 1..Len(only) - 2 |-> Label(a, only[n + 1])],
               Label(a, i)>>
        ELSE <<<<"Component", <<IdentitiesName, None>>>>, <<a.name[i], i>>>>

-------------------------------------------------------------------------------
Init == atlas = [name |-> [i \in Ids |-> None], partOf |-> {}]

Commit(a) == ValidateRegistry(a) /\ atlas' = a

Declare(i, n) == atlas.name[i] = None /\ Commit([atlas EXCEPT !.name[i] = n])
Rename(i, n)  == atlas.name[i] \notin {None, n} /\ Commit([atlas EXCEPT !.name[i] = n])
Retire(i)     == atlas.name[i] # None /\ Commit([atlas EXCEPT !.name[i] = None])
Attach(i, p)  == <<i, p>> \notin atlas.partOf
                 /\ Commit([atlas EXCEPT !.partOf = @ \union {<<i, p>>}])
Detach(i, p)  == <<i, p>> \in atlas.partOf
                 /\ Commit([atlas EXCEPT !.partOf = @ \ {<<i, p>>}])

Next ==
    \/ \E i \in Ids, n \in Names : Declare(i, n)
    \/ \E i \in Ids, n \in Names : Rename(i, n)
    \/ \E i \in Ids : Retire(i)
    \/ \E i, p \in Ids : Attach(i, p)
    \/ \E i, p \in Ids : Detach(i, p)

Spec == Init /\ [][Next]_vars

-------------------------------------------------------------------------------
(* The store holds titles of identities and edges between identities.            *)
TypeOK ==
    /\ atlas.name \in [Ids -> Names \union {None}]
    /\ atlas.partOf \subseteq Ids \X Ids

(* What is shown downwards is what is declared upwards: a scope discovers a      *)
(* Component exactly when the scope is its ancestor, by exactly the pieces of    *)
(* its trails; the branches of the entry page are the trails that start at a     *)
(* System, so an identity is missing from them exactly when it is listed as      *)
(* detached; and the architecture tree draws every trail                         *)
(* (component_descendant_paths, containment_paths, hierarchy_tree,               *)
(* architecture_tree: four separate walks over the same edges).                  *)
DescentMirrorsAncestry ==
    /\ \A s \in Declared(atlas) :
          /\ {Last(t) : t \in Descents(atlas, s)}
                = {i \in Declared(atlas) : s \in Ancestors(atlas, i)}
          /\ Descents(atlas, s)
                = {SubSeq(t, n, Len(t)) : <<t, n>> \in
                     {<<u, m>> \in TreeTrails(atlas) \X (1..Depth) :
                         m < Len(u) /\ u[m] = s}}
    /\ Branches(atlas) = UNION {Rooted(atlas, i) : i \in Declared(atlas)}
    /\ {Last(t) : t \in Branches(atlas)} = Declared(atlas) \ Detached(atlas)
    /\ Drawn(atlas) = TreeTrails(atlas)

(* No accepted registry makes a view raise: the walks end, every identity has an *)
(* identity page and a preferred page of its own, and the identity pages find    *)
(* only Components contained and only Systems or Components containing           *)
(* (validate_registry against the ProjectionErrors of private_views and          *)
(* preferred_paths).                                                             *)
ViewsAcceptWhatValidates ==
    /\ \A i \in Declared(atlas) : ~Endless(atlas, i)
    /\ \A i, j \in Declared(atlas) : i # j =>
          /\ IdentityPage(atlas, i) # IdentityPage(atlas, j)
          /\ PreferredPath(atlas, i) # PreferredPath(atlas, j)
    /\ \A i \in Declared(atlas) :
          /\ Parents(atlas, i) # {} => i \in Components
          /\ Parents(atlas, i) \subseteq (Systems \union Components) \intersect Declared(atlas)

(* A page moves only for a reason a reader of the change can see: a commit that  *)
(* leaves the identity, everything above it and everything with their titles     *)
(* alone leaves its pages where they are (identity_page_paths, preferred_paths). *)
Renamed == {i \in Ids : atlas.name[i] # atlas.name'[i]}
Moved == {i \in Ids : Parents(atlas, i) # Parents(atlas', i)}
Titles(S) == {atlas.name[i] : i \in S} \union {atlas.name'[i] : i \in S}

PagesStay ==
    \A i \in Declared(atlas) \ Renamed :
      LET line == {i} \union Ancestors(atlas, i) \union Ancestors(atlas', i)
          twin(j, S) == \E k \in S : KindOf(j) = KindOf(k)
                                   /\ Titles({j}) \intersect Titles({k}) # {}
      IN  /\ (~\E j \in Renamed :
                 atlas.name[i] \in Titles({j}) \union
                    (IF j = Pilot THEN {PilotStem} ELSE {}))
             => IdentityPage(atlas', i) = IdentityPage(atlas, i)
          /\ (line \intersect (Renamed \union Moved) = {}
                /\ ~\E j \in Renamed : twin(j, line))
             => PreferredPath(atlas', i) = PreferredPath(atlas, i)
=============================================================================
