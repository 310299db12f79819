----------------------------- MODULE VisiblePayload -----------------------------
(***************************************************************************)
(* The three ways visible data becomes an Observation: a surface the game  *)
(* plugin wraps into a payload, a payload read from a feed, and bridge     *)
(* data given with a saved frame.  The first two go through the bridge     *)
(* sanitizer, the last through the no-spoiler firewall; both end in the    *)
(* same pairing of sprite positions with hashes.                           *)
(***************************************************************************)
EXTENDS Integers, Sequences

CONSTANTS
  Shots,   \* screenshot evidence ids
  Places,  \* positions on the screen
  Off,     \* a position with a negative coordinate
  Hashes,  \* visual hashes
  Name,    \* an entity's name where a hash belongs
  None     \* an absent field or value

PayloadAssumption == None \notin Shots \cup Places \cup {Off} /\ Off \notin Places
NoneAssumption == None \notin {"nested", "bridge-assisted", "dialogue", "unknown"}

VARIABLES
  door,   \* "plugin", "feed" or "offline"
  given,  \* the data as it came
  asked,  \* what the caller adds: the request's or frame's evidence, a hint, read text
  data,   \* the data as far as it was let through
  observation, stage,
  latest  \* the last screenshot evidence in the event log

vars == <<door, given, asked, data, observation, stage, latest>>

\* "nested" menu items are not all texts: one is an object with a hidden key in it.
Menus == {None, "items", "nested"}
Looks ==
  {None, <<Name>>} \cup {<<h>> : h \in Hashes} \cup {l \in Hashes \X Hashes : l[1] # l[2]}
Pairs == {s \in Places \X Places : s[1] # s[2]}
Sprites == {None, <<Off>>} \cup {<<p>> : p \in Places} \cup Pairs
Flags == {None, TRUE, FALSE}
UIStates == {"field", "dialogue", "menu", "combat", "death", "unknown"}

\* extra: map_id stands for the forbidden fields, overlay for unknown ones.
Blank == [mode |-> None, text |-> None, menu |-> None, ui |-> None, player |-> None,
          sprites |-> None, looks |-> None, shot |-> None, extra |-> {},
          dead |-> None, combat |-> None, open |-> None, window |-> None]

BridgeData ==
  [mode : {None, "bridge-assisted"}, text : {None, "line"}, menu : Menus,
   ui : {None, "dialogue", "unknown", "bogus"}, player : {None, Off}, sprites : Sprites, looks : Looks,
   shot : Shots \cup {None}, extra : SUBSET {"map_id", "overlay"},
   dead : {None}, combat : {None}, open : {None}, window : {None}]

OfflineData ==
  [mode : {None}, text : {None, "line"}, menu : Menus, ui : {None}, player : {None},
   sprites : {None} \cup Pairs, looks : Looks, shot : Shots \cup {None}, extra : SUBSET {"map_id", "overlay"},
   dead : Flags, combat : Flags, open : Flags, window : {None}]

\* Only the plugin is asked about a screenshot that may no longer be the latest.
Init ==
  /\ \/ /\ door \in {"plugin", "feed"}
        /\ given \in BridgeData
        /\ asked \in [shot : Shots, hint : {None}, spans : {FALSE}]
     \/ /\ door = "offline"
        /\ given \in OfflineData
        /\ asked \in [shot : Shots, hint : {None, "field", "menu", "death"}, spans : BOOLEAN]
  /\ latest \in IF door = "plugin" THEN Shots ELSE {asked.shot}
  /\ data = given /\ observation = None
  /\ stage = IF door = "plugin" THEN "surface" ELSE "raw"

Move(to) == stage' = to /\ UNCHANGED <<door, given, asked, latest>>
Refuse == Move("refused") /\ UNCHANGED <<data, observation>>

\* The plugin looks at the fields of the surface, not at their values.
SurfaceIsValid == given.shot = None /\ given.mode = None /\ given.extra = {}

BuildSnapshotPayload ==
  /\ stage = "surface"
  /\ IF SurfaceIsValid
     THEN Move("raw") /\ UNCHANGED observation
          /\ data' = [given EXCEPT !.mode = "bridge-assisted", !.shot = asked.shot]
     ELSE Refuse

FindForbidden(raw) == raw.extra \cap {"map_id"} # {} \/ raw.menu = "nested"

\* The model the payload is validated against.
Validates(raw) ==
  /\ raw.mode # None
  /\ raw.menu # "nested"
  /\ raw.ui \in UIStates \cup {None}
  /\ raw.player # Off
  /\ raw.sprites # None => \A i \in DOMAIN raw.sprites : raw.sprites[i] # Off
  /\ raw.looks # None => \A i \in DOMAIN raw.looks : raw.looks[i] \in Hashes

\* Mutant: unknown fields are dropped before the forbidden ones are looked for.
SanitizeAfterDropping ==
  /\ stage = "raw" /\ door # "offline"
  /\ IF Validates(data) /\ ~FindForbidden([data EXCEPT !.extra = {}])
     THEN Move("clean") /\ UNCHANGED <<data, observation>>
     ELSE Refuse

SanitizeBridgePayload ==
  /\ stage = "raw" /\ door # "offline"
  /\ IF ~FindForbidden(data) /\ data.extra = {} /\ Validates(data)
     THEN Move("clean") /\ UNCHANGED <<data, observation>>
     ELSE Refuse

Listed(value) == IF value = None THEN <<>> ELSE value

NormalizeVisibleSprites(places, looks, shot) ==
  [i \in DOMAIN places |->
     [at |-> places[i], look |-> IF i <= Len(looks) THEN looks[i] ELSE None, evidence |-> shot]]

\* More looks than sprites, or sprites without evidence, are errors.
CanNormalize(places, looks, shot) ==
  Len(looks) <= Len(places) /\ (places # <<>> => shot # None)

Observe(ui, text, shot) ==
  LET places == Listed(data.sprites)
      looks == Listed(data.looks)
  IN  IF CanNormalize(places, looks, shot) /\ data.menu # "nested"
      THEN /\ observation' = [ui |-> ui, text |-> text, menu |-> data.menu, shot |-> shot,
                              sprites |-> NormalizeVisibleSprites(places, looks, shot)]
           /\ Move("observed")
           /\ UNCHANGED data
      ELSE Refuse

ObservationFromPayload ==
  /\ stage = "clean" /\ door # "offline"
  /\ Observe(IF data.ui = None THEN "unknown" ELSE data.ui, data.text, data.shot)

\* The source of a bridge-assisted run wants the screenshot that is the latest
\* when it looks, after the conversion.
RequireCurrentScreenshot ==
  /\ stage = "observed" /\ door # "offline"
  /\ IF observation.shot # None /\ observation.shot = latest
     THEN Move("admitted") /\ UNCHANGED <<data, observation>>
     ELSE stage' = "stale" /\ observation' = None /\ UNCHANGED <<door, given, asked, data, latest>>

\* Another frame is captured while the payload is on its way.
Capture ==
  /\ door # "offline" /\ stage \in {"raw", "observed"}
  /\ \E shot \in Shots \ {latest} : latest' = shot
  /\ UNCHANGED <<door, given, asked, data, observation, stage>>

\* The field a hint adds, unless the data has it.
MergeUiHint(raw) ==
  CASE asked.hint = "death" /\ raw.dead = None -> [raw EXCEPT !.dead = TRUE]
    [] asked.hint = "menu" /\ raw.open = None -> [raw EXCEPT !.open = TRUE]
    [] asked.hint = "field" /\ raw.player = None -> [raw EXCEPT !.player = CHOOSE p \in Places : TRUE]
    [] OTHER -> raw

\* The firewall looks at the top fields only and drops the ones it does not know.
Firewall ==
  /\ stage = "raw" /\ door = "offline"
  /\ IF data.extra \cap {"map_id"} = {}
     THEN Move("clean") /\ UNCHANGED observation
          /\ data' = [MergeUiHint(data) EXCEPT !.extra = {}]
     ELSE Refuse

ClassifyUiState ==
  IF data.dead = TRUE THEN "death"
  ELSE IF data.combat = TRUE THEN "combat"
  ELSE IF data.open = TRUE THEN "menu"
  ELSE IF data.window = TRUE \/ data.text # None \/ asked.spans THEN "dialogue"
  ELSE IF data.player # None \/ Listed(data.sprites) # <<>> THEN "field"
  ELSE "unknown"

\* A saved frame is its own evidence, whatever the bridge data says.
BuildObservation ==
  /\ stage = "clean" /\ door = "offline"
  /\ Observe(ClassifyUiState,
             IF data.text # None THEN data.text ELSE IF asked.spans THEN "line" ELSE None,
             asked.shot)

Next ==
  \/ BuildSnapshotPayload \/ SanitizeBridgePayload \/ ObservationFromPayload
  \/ RequireCurrentScreenshot \/ Capture \/ Firewall \/ BuildObservation

Spec == Init /\ [][Next]_vars

-----------------------------------------------------------------------------
(* Properties.                                                              *)

\* An observation's screenshot is a known one; positions off the screen are only
\* kept out by the bridge door.
TypeOK ==
  /\ stage \in {"surface", "raw", "clean", "observed", "admitted", "stale", "refused"}
  /\ observation # None =>
       /\ observation.ui \in UIStates
       /\ observation.shot \in Shots \cup {None}
       /\ door # "offline" => \A i \in DOMAIN observation.sprites : observation.sprites[i].at \in Places

\* Data with hidden state in it at any depth never becomes an observation,
\* through whichever door: the bridge refuses it, the offline door refuses a
\* hidden field and cannot hold a nested one.
NothingHiddenGetsIn == observation # None => ~FindForbidden(given)

\* A sprite keeps the look that came with its position, and everything in an
\* observation cites the screenshot it was seen on: the saved frame itself, or the
\* one the request named.
SpritesKeepTheirLook ==
  observation # None =>
    \A i \in DOMAIN observation.sprites :
      LET sprite == observation.sprites[i]
      IN  /\ sprite.at = given.sprites[i]
          /\ sprite.look = IF i \in DOMAIN Listed(given.looks) THEN given.looks[i] ELSE None
          /\ sprite.evidence = observation.shot /\ sprite.evidence # None

\* The evidence is the frame that was looked at: the saved frame, or the one the
\* plugin was asked about.
EvidenceIsTheFrame ==
  observation # None /\ door \in {"offline", "plugin"} => observation.shot = asked.shot

\* What the plugin reports of a scene passes the sanitizer: the two sides keep
\* separate lists of fields and states.
PluginIsUnderstood ==
  (\E ui \in {"dialogue", "unknown"} : given = [Blank EXCEPT !.ui = ui])
    /\ door = "plugin" => stage # "refused"

\* A death screen the data shows or the hint tells is never classified as
\* something else, whatever else is on the screen.
DeathIsNotMasked ==
  observation # None /\ door = "offline"
      /\ (given.dead = TRUE \/ (given.dead = None /\ asked.hint = "death"))
    => observation.ui = "death"
=============================================================================
