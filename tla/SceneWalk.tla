------------------------------- MODULE SceneWalk -------------------------------
(***************************************************************************)
(* collectVisibleSurface of the game plugin: a depth-first walk over the   *)
(* display objects of the current scene, which reports a dialogue as soon  *)
(* as it meets an open message window that is visible with all that        *)
(* contains it.  Display objects belong to the game and its other plugins: *)
(* an object may appear in several lists of children, and lists and parent *)
(* links may run in circles.                                               *)
(***************************************************************************)
EXTENDS Integers, Sequences, SequencesExt, FiniteSets

CONSTANTS
  Nodes,     \* display objects of the scene
  Root,      \* the scene
  Messages,  \* those that are message windows
  Lists,     \* lists of children an object may have
  None

SceneAssumption ==
  /\ IsFiniteSet(Nodes) /\ Root \in Nodes /\ Messages \subseteq Nodes /\ Lists \subseteq Seq(Nodes)
  /\ None \notin Nodes \cup {"dialogue", "unknown"}

VARIABLES
  children,  \* lists of children, as sequences
  parent,    \* the object a display object was last added to
  shown,     \* visible and renderable
  open,      \* message windows with some openness
  pending, visited,  \* the walk's stack and its visited list
  surface    \* ui_state of the surface, or None while the walk lasts

scene == <<children, parent, shown, open>>
vars == <<children, parent, shown, open, pending, visited, surface>>

\* A child's parent link names an object that lists it, or nothing any more.
Init ==
  /\ children \in [Nodes -> Lists]
  /\ parent \in [Nodes -> Nodes \cup {None}]
  /\ \A n \in Nodes : parent[n] # None => Contains(children[parent[n]], n)
  /\ shown \in SUBSET Nodes /\ open \in SUBSET Messages
  /\ pending = <<Root>> /\ visited = {} /\ surface = None

\* The objects met going up from n, with None when the way up ends: the walk up
\* remembers what it met and gives up on a circle.
Up[way \in (Nodes \cup {None}) \X SUBSET Nodes] ==
  LET m == way[1]
      met == way[2]
  IN  m # None => m \notin met /\ m \in shown /\ Up[<<parent[m], met \cup {m}>>]

AncestorsAreVisible(n) == Up[<<parent[n], {}>>]

IsVisibleMessageWindow(n) ==
  n \in Messages /\ n \in shown /\ n \in open /\ AncestorsAreVisible(n)

\* One turn of the loop: the last pending object is taken.
Visit ==
  /\ surface = None
  /\ pending # <<>>
  /\ LET node == Last(pending)
         rest == Front(pending)
     IN  IF node \in visited
         THEN pending' = rest /\ UNCHANGED <<visited, surface>>
         ELSE /\ visited' = visited \cup {node}
              /\ IF IsVisibleMessageWindow(node)
                 THEN surface' = "dialogue" /\ pending' = rest
                 ELSE UNCHANGED surface /\ pending' = rest \o children[node]
  /\ UNCHANGED scene

Exhausted ==
  /\ surface = None
  /\ pending = <<>>
  /\ surface' = "unknown"
  /\ UNCHANGED <<scene, pending, visited>>

Next == Visit \/ Exhausted

Spec == Init /\ [][Next]_vars

\* The walk runs in one turn of the game's event loop.
FairSpec == Spec /\ WF_vars(Next)

-----------------------------------------------------------------------------
(* Properties.                                                              *)

\* Each variable has the shape of the object it stands for.
TypeOK ==
  /\ pending \in Seq(Nodes) /\ visited \subseteq Nodes
  /\ surface \in {"dialogue", "unknown", None}

\* The objects the scene contains, directly or not.
Contained ==
  {n \in Nodes : \A S \in SUBSET Nodes :
     Root \in S /\ (\A m \in S : ToSet(children[m]) \subseteq S) => n \in S}

\* What n is and is in, directly or not, with None when the way up ends.
Above(n) ==
  {m \in Nodes \cup {None} : \A S \in SUBSET (Nodes \cup {None}) :
     n \in S /\ (\A a \in S \ {None} : parent[a] \in S) => m \in S}

\* The player sees a message window when it and everything it is in is visible.
PlayerSees(n) == n \in open /\ None \in Above(n) /\ Above(n) \subseteq shown \cup {None}

\* The surface tells what the player sees, in whatever order the objects are met
\* and however lists and links are tangled.
SurfaceIsWhatIsSeen ==
  surface # None =>
    ((surface = "dialogue") <=> \E n \in Messages \cap Contained : PlayerSees(n))

\* The walk ends, on circular scenes too; the game would hang otherwise.
WalkEnds == <>(surface # None)
=============================================================================
