--------------------------------- MODULE Tiles ----------------------------------
(***************************************************************************)
(* A video tile of the console in a browser (web/media.js).  Media.tla     *)
(* models the registry the plans come from.                                *)
(*                                                                         *)
(* Pulling a stream is a promise: the tile is taken for playing as soon as *)
(* it is asked for, the connection is entered in a table when the promise  *)
(* is kept, and every plan, change of layout and return to the page that   *)
(* comes before starts another one.                                        *)
(***************************************************************************)
EXTENDS Integers, FiniteSets

CONSTANTS
  Paths,    \* streams of the camera: its main and its sub stream
  MaxPulls  \* bound: pulls under way

ASSUME TilesAssumption == IsFiniteSet(Paths) /\ "none" \notin Paths /\ MaxPulls \in Nat

VARIABLES
  plan,        \* path and main of media.plan
  pcs,         \* path of the connection in media.pcs
  playingPath,
  idle,        \* the placeholder is shown
  pulls,       \* path |-> number of pulls of it under way
  crossed,     \* history: pulls of two paths have been under way together
  tabHidden

tile == <<pcs, playingPath, idle, pulls, crossed>>
tilesVars == <<plan, tile, tabHidden>>

NoPlan == [path |-> "none", main |-> FALSE]
Plans == [path : Paths, main : BOOLEAN]

TilesTypeOK ==
  /\ plan \in Plans \cup {NoPlan}
  /\ pcs \in Paths \cup {"none"} /\ playingPath \in Paths \cup {"none"}
  /\ pulls \in [Paths -> 0..MaxPulls]
  /\ idle \in BOOLEAN /\ crossed \in BOOLEAN /\ tabHidden \in BOOLEAN

TilesInit ==
  /\ plan = NoPlan /\ pcs = "none" /\ playingPath = "none" /\ idle = TRUE
  /\ pulls = [p \in Paths |-> 0] /\ crossed = FALSE
  /\ tabHidden = FALSE

UnderWay == {p \in Paths : pulls[p] > 0}

-------------------------------------------------------------------------------
(***************************************************************************)
(* playTile: nothing if the path is playing.  A pull under way is no       *)
(* connection yet, and is neither counted nor cancelled.                   *)
(***************************************************************************)
playTile(path) ==
  IF pcs # "none" /\ playingPath = path
    THEN UNCHANGED tile
    ELSE /\ pulls[path] < MaxPulls
         /\ pcs' = "none" /\ playingPath' = path /\ idle' = FALSE
         /\ pulls' = [pulls EXCEPT ![path] = @ + 1]
         /\ crossed' = (UnderWay \ {path} # {} \/ (crossed /\ UnderWay # {}))

(***************************************************************************)
(* whepPlay ends.  Whatever tile and page have become, a connection is     *)
(* entered, over one that may be there already, and a failure takes away   *)
(* the one that is there.                                                  *)
(***************************************************************************)
PullEnds(path) ==
  /\ pulls[path] > 0
  /\ pulls' = [pulls EXCEPT ![path] = @ - 1]
  /\ UNCHANGED <<plan, crossed, tabHidden>>

whepPlayKept(path) ==
  /\ PullEnds(path)
  /\ pcs' = path
  /\ UNCHANGED <<playingPath, idle>>

(***************************************************************************)
(* Mutant: a failed pull leaves the tile as it is.                         *)
(***************************************************************************)
whepPlayDropped(path) ==
  /\ PullEnds(path)
  /\ pcs' = "none"
  /\ UNCHANGED <<playingPath, idle>>

whepPlayBroken(path) ==
  /\ PullEnds(path)
  /\ pcs' = "none" /\ playingPath' = "none" /\ idle' = TRUE

(***************************************************************************)
(* renderMediaPanel: without a main view it asks for one and leaves the    *)
(* tiles alone.                                                            *)
(***************************************************************************)
renderMediaPanel(p) == IF p.main THEN playTile(p.path) ELSE UNCHANGED tile

onMediaPlan(p) ==
  /\ plan' = p
  /\ renderMediaPanel(p)
  /\ UNCHANGED tabHidden

(***************************************************************************)
(* onLayout, resync: syncTiles with the plan there is.                     *)
(***************************************************************************)
syncTiles ==
  /\ plan # NoPlan
  /\ playTile(plan.path)
  /\ UNCHANGED <<plan, tabHidden>>

(***************************************************************************)
(* visibilitychange: stopAll closes what is in the table, and nothing that *)
(* is under way.                                                           *)
(***************************************************************************)
HideTab ==
  /\ ~tabHidden /\ tabHidden' = TRUE
  /\ IF pcs # "none" THEN pcs' = "none" /\ playingPath' = "none"
                 ELSE UNCHANGED <<pcs, playingPath>>
  /\ UNCHANGED <<plan, idle, pulls, crossed>>

ShowTab ==
  /\ tabHidden /\ tabHidden' = FALSE
  /\ IF plan = NoPlan THEN UNCHANGED tile ELSE renderMediaPanel(plan)
  /\ UNCHANGED plan

-------------------------------------------------------------------------------
TilesNext ==
  \/ \E p \in Plans : onMediaPlan(p)
  \/ syncTiles
  \/ \E path \in Paths : whepPlayKept(path) \/ whepPlayBroken(path)
  \/ HideTab \/ ShowTab

TilesSpec == TilesInit /\ [][TilesNext]_tilesVars

-------------------------------------------------------------------------------
(***************************************************************************)
(* A tile without its placeholder shows, or is about to show, the stream   *)
(* of the plan, also after failures, hiding and returning, unless pulls of *)
(* two streams were under way together: the one that ends last wins.       *)
(***************************************************************************)
TileShowsPlan ==
  ~tabHidden /\ plan.main /\ ~idle /\ UnderWay = {} =>
    pcs = plan.path \/ (crossed /\ pcs # "none")
===============================================================================
