------------------------------ MODULE ResearchMap -----------------------------
(* The final product of a projection (research_atlas/final_projection.py): the   *)
(* files of the technical and the direct views are routed to the Research Map,   *)
(* folded together where several old pages become one, and every link and every  *)
(* native filter is rewritten.  package builds the product with one Edge Audit   *)
(* per Component; consolidate_graph_audits then folds the audits into the graph  *)
(* guides.  Both are functions of the registry; the authored explanations, which *)
(* add prose and panels, are left out.                                           *)
(*                                                                               *)
(* Old paths, final paths and headings are tuples whose first member says what   *)
(* they are.  A body is a set of <<file, heading, old path>>: the text of the    *)
(* old path can be read under that heading of the file.                          *)
EXTENDS AtlasPaths

CONSTANTS
    Modes,            \* the graph modes, by their titles
    Details,          \* identities with a technical detail page and canvas
    Public, Private   \* the two owners

Complete(a) == {Hub} \union Details \subseteq Declared(a)

Contained(a) == Declared(a) \intersect Components

(* The trees of the two projectors for a registry.                               *)
TechnicalTree(a) ==
    {<<"public home">>, <<"map">>, <<"index">>, <<"anatomy">>, <<"slice">>, <<"hero">>,
     <<"manifest", Public>>}
    \union {<<"record", i>> : i \in Declared(a)}

DerivedTree(a) ==
    {<<"home">>, <<"view index">>, <<"hierarchy entry">>, <<"reference index">>,
     <<"steering">>, <<"reader">>, <<"base">>, <<"manifest", Private>>}
    \union {<<"page", i>> : i \in Declared(a)}
    \union {<<"hierarchy", i>> : i \in Declared(a)}
    \union {<<"hub", Hub, view>> : view \in {"technical", "research"}}
    \union {<<"detail", i, form>> : i \in Details, form \in {"md", "canvas"}}
    \union {<<"scope", c, m, part>> : c \in Contained(a), m \in Modes,
                                      part \in {"profile", "audit", "nodes", "overlay"}}
    \union {<<"pilot", part>> : part \in {"profile", "audit", "nodes"}}

OldTree(a) == TechnicalTree(a) \union DerivedTree(a)
OldAliases == {<<"legacy workbench", Hub>>}

-------------------------------------------------------------------------------
(* package: where an old path goes, and which old files are carried over.        *)
Page(a, i) == <<"page", PreferredPath(a, i)>>

Route(a, old) ==
    CASE old[1] \in {"public home", "home", "view index", "hierarchy entry"} -> <<"Home">>
      [] old[1] \in {"map", "anatomy"} -> <<"anatomy diagram">>
      [] old[1] = "record" -> <<"registry", old[2]>>
      [] old[1] \in {"page", "hub", "hierarchy", "legacy workbench"} -> Page(a, old[2])
      [] old[1] = "detail" -> IF old[3] = "canvas" THEN <<"relations", old[2]>>
                              ELSE Page(a, old[2])
      [] old[1] = "scope" /\ old[4] = "profile" -> <<"guide", old[2]>>
      [] old[1] = "scope" /\ old[4] = "audit" -> <<"edge audit", old[2]>>
      [] old[1] = "scope" -> <<"graph", old[2], old[3], old[4]>>
      [] old[1] = "pilot" -> <<IF old[2] = "audit" THEN "edge audit" ELSE "guide", Hub>>
      [] OTHER -> old

Kept(old) ==
    \/ old[1] \in {"index", "anatomy", "slice", "hero", "record", "manifest", "home",
                   "reference index", "steering", "page", "reader", "base"}
    \/ old[1] = "detail" /\ old[3] = "canvas"
    \/ old[1] = "scope" /\ old[4] \in {"nodes", "overlay"}

Retained(a) == {old \in OldTree(a) : Kept(old)}

Added(a) ==
    {<<"architecture tree">>, <<"execution flow">>, <<"interaction map">>, <<"graphs">>,
     <<"guidebook">>, <<"ledger">>}
    \union {<<kind, c>> : kind \in {"guide", "edge audit"}, c \in Contained(a)}

Collides(a) ==
    \/ \E p, q \in Retained(a) : p # q /\ Route(a, p) = Route(a, q)
    \/ \E p \in Retained(a) : Route(a, p) \in Added(a)

Companions(i) ==
    {old \in {<<"hub", i, "technical">>, <<"hub", i, "research">>} : i = Hub}
    \union {old \in {<<"detail", i, "md">>} : i \in Details}

(* A link to an old path becomes a link to a heading of its final file.          *)
Navigation(a, old) ==
    <<Route(a, old),
      CASE old[1] = "scope" /\ old[4] \in {"profile", "audit"} -> <<"mode", old[3]>>
        [] old[1] = "pilot" -> <<"mode", "Architecture">>
        [] old[1] = "hub" -> <<"detail">>
        [] OTHER -> <<"top">> >>

(* The folder of a native graph filter.                                          *)
FilterFolder(c, m, part) == <<"graph", c, m, part>>

Package(a) ==
    LET files == {Route(a, old) : old \in Retained(a)} \union Added(a)
        folded(i) == {<<"page", i>>} \union Companions(i)
    IN  [files  |-> files,
         owners |-> [f \in files |->
                       IF \E old \in TechnicalTree(a) \intersect Retained(a) : Route(a, old) = f
                       THEN Public ELSE Private],
         routes |-> [old \in OldTree(a) \union OldAliases |-> Route(a, old)],
         body   |-> {<<Route(a, old), <<"top">>, old>> : old \in Retained(a)}
                    \union (UNION {{<<Page(a, i), <<"top">>, old>> : old \in folded(i)} :
                                    i \in Declared(a)})
                    \union (UNION {{<<Page(a, i), <<"detail">>, old>> : old \in Companions(i)} :
                                    i \in Declared(a)})
                    \union {<<<<"guide", c>>, <<"mode", m>>, <<"scope", c, m, "profile">>>> :
                              c \in Contained(a), m \in Modes}
                    \union {<<<<"edge audit", c>>, <<"mode", m>>, <<"scope", c, m, "audit">>>> :
                              c \in Contained(a), m \in Modes}]

-------------------------------------------------------------------------------
(* consolidate_graph_audits.                                                     *)
Audits(tree) == {f \in tree.files : f[1] = "edge audit"}
GuideOf(audit) == <<"guide", audit[2]>>

Unfoldable(tree) ==
    \E f \in Audits(tree) :
      \/ GuideOf(f) \notin tree.files
      \/ tree.owners[f] # Private \/ tree.owners[GuideOf(f)] # Private
      \/ \E m \in Modes : ~\E entry \in tree.body : entry[1] = f /\ entry[2] = <<"mode", m>>

Target(tree, place) ==
    IF place[1] \notin Audits(tree) THEN place
    ELSE <<GuideOf(place[1]),
           IF place[2][1] = "mode" THEN <<"mode audit", place[2][2]>> ELSE <<"audits">> >>

FoldedRoutes(tree) ==
    [old \in DOMAIN tree.routes \union Audits(tree) |->
       IF old \in Audits(tree) THEN GuideOf(old)
       ELSE Target(tree, <<tree.routes[old], <<"top">>>>)[1]]

Consolidate(tree) ==
    LET files == tree.files \ Audits(tree)
    IN  [files  |-> files,
         owners |-> [f \in files |-> tree.owners[f]],
         routes |-> FoldedRoutes(tree),
         body   |-> {IF entry[1] \in Audits(tree)
                     THEN <<GuideOf(entry[1]), <<"mode audit", entry[2][2]>>, entry[3]>>
                     ELSE entry : entry \in tree.body}]

ManifestRows(tree, owner) ==
    {f \in tree.files : tree.owners[f] = owner /\ f # <<"manifest", owner>>}

Product(a) == Consolidate(Package(a))

-------------------------------------------------------------------------------
(* Every path the vault had before, as a file, as an alias or as an audit of the *)
(* intermediate product, leads to a file of the final product: readers' own      *)
(* notes keep their links across the migration (package, the ledger,             *)
(* consolidate_graph_audits).                                                    *)
EveryOldPathArrives ==
    Complete(atlas) =>
      LET product == Product(atlas)
      IN  /\ OldTree(atlas) \union OldAliases \union Audits(Package(atlas))
               \subseteq DOMAIN product.routes
          /\ \A old \in DOMAIN product.routes : product.routes[old] \in product.files

(* A link that is rewritten lands where the old text can be read: the detail of  *)
(* a hub under its detail heading, a profile or an audit of a Component under    *)
(* the heading of the same Component and the same mode, also after the audits    *)
(* have moved into the guides (navigation, and the rewriting of                  *)
(* consolidate_graph_audits).                                                    *)
Reread(a) ==
    Retained(a) \union {old \in OldTree(a) : \/ old[1] = "hub"
                                             \/ old[1] = "detail"
                                             \/ old[1] = "scope"}

LinksLandOnTheirText ==
    Complete(atlas) =>
      LET packed == Package(atlas)
          product == Consolidate(packed)
      IN  \A old \in Reread(atlas) :
            Target(packed, Navigation(atlas, old)) \o <<old>> \in product.body

(* The product of a complete registry is never refused: no two old files and no  *)
(* added file claim one path, every audit has its guide, each file is in exactly *)
(* one manifest, and the folders of the native filters are those the proxies of  *)
(* that Component and mode went to (the ProjectionErrors of package and          *)
(* consolidate_graph_audits, and its manifests).                                 *)
CompleteRegistriesPackage ==
    Complete(atlas) =>
      LET packed == Package(atlas)
          product == Consolidate(packed)
      IN  /\ ~Collides(atlas) /\ ~Unfoldable(packed)
          /\ ManifestRows(product, Public) \intersect ManifestRows(product, Private) = {}
          /\ product.files = ManifestRows(product, Public) \union ManifestRows(product, Private)
                               \union {<<"manifest", o>> : o \in {Public, Private}}
          /\ \A c \in Contained(atlas), m \in Modes, part \in {"nodes", "overlay"} :
               FilterFolder(c, m, part) = product.routes[<<"scope", c, m, part>>]
=============================================================================
