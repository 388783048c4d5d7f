------------------------------- MODULE CloudMap --------------------------------
(***************************************************************************)
(* The map a console page builds from the clouds it receives (web/cloud.js *)
(* from onCloudFrame on): voxels, trail and floors.                        *)
(*                                                                         *)
(* Body clouds are placed with the pose of the moment, whose origin is     *)
(* that of the odometry source in use; registered clouds come in the LIO's *)
(* own frame.  Voxels of two frames in one map would show walls that are   *)
(* not there.                                                              *)
(*                                                                         *)
(* Time is abstracted: whether a cell has been seen often and long enough  *)
(* to be a wall, or not for too long, is a choice of the step.  Nothing    *)
(* but the toolbar and the messages drives this state, so the module has   *)
(* no fairness.                                                            *)
(***************************************************************************)
EXTENDS Integers, FiniteSets

CONSTANTS
  Voxels,     \* cells of the map, each on a storey of its own
  Sources,    \* what odom_source may say
  MaxTrail,   \* MAX_TRAIL
  KeptTrail   \* points that are left when the trail is cut

ASSUME MapAssumption ==
  /\ IsFiniteSet(Voxels)
  /\ "none" \notin Sources /\ "lio" \in Sources /\ "map" \notin Sources
  /\ MaxTrail \in Nat /\ KeptTrail \in 1..MaxTrail

VARIABLES
  cells,      \* persistMap: what each voxel has been found to be
  cellFrame,  \* history: the frame a voxel's coordinates were taken in
  world,      \* est.world
  source,     \* est.source
  anchored,   \* est.lastOdomX is set
  trail,      \* length of trail
  persist,    \* opts.persist
  floorCut, floorView, floors \* opts of the same names; the length of floors

view == <<persist, floorCut, floorView, floors>>
mapVars == <<cells, cellFrame, world, source, anchored, trail, view>>

Clouds == {"world", "body"}

(***************************************************************************)
(* The frame in which a cloud that arrives now is entered; before the      *)
(* first pose body clouds are entered at the origin.                       *)
(***************************************************************************)
FrameOf(w, s) == IF w THEN "map" ELSE s

MapInit ==
  /\ cells = [v \in Voxels |-> "none"]
  /\ cellFrame = [v \in Voxels |-> "none"]
  /\ world = FALSE /\ source = "none" /\ anchored = FALSE /\ trail = 0
  /\ persist = FALSE
  /\ floorCut = FALSE /\ floorView = -1 /\ floors = 0

-------------------------------------------------------------------------------
(***************************************************************************)
(* pruneVoxels drops what has not been confirmed for GHOST_MS, and in live *)
(* mode walls that have not been seen for accumMs.                         *)
(***************************************************************************)
cellConfirmed(c, v) == c[v] = "wall"

pruneVoxels(c, live) ==
  {[v \in Voxels |-> IF v \in gone THEN "none" ELSE c[v]] :
     gone \in SUBSET {v \in Voxels : live \/ ~cellConfirmed(c, v)}}

(***************************************************************************)
(* ingestPersist: a voxel that is hit is entered, where it stays put; hit  *)
(* again it is a wall as soon as CONFIRM_HITS frames over 800 ms agree.    *)
(***************************************************************************)
ingestPersist(c, hit) ==
  {[v \in Voxels |->
      IF v \notin hit THEN c[v]
      ELSE IF c[v] = "none" THEN "seen"
      ELSE IF v \in confirmed THEN "wall" ELSE c[v]] :
     confirmed \in SUBSET hit}

(***************************************************************************)
(* Frames of the voxels after a step: those entered anew are in frame f.   *)
(***************************************************************************)
Placed(before, f) ==
  [v \in Voxels |-> IF before[v] = "none" THEN f ELSE cellFrame[v]]

-------------------------------------------------------------------------------
(***************************************************************************)
(* detectFloors finds as many floors as storeys of the height that is set  *)
(* hold enough walls, at least one, and takes back a selection beyond      *)
(* them; without a wall it returns early with one floor.                   *)
(***************************************************************************)
collectZs(c) == {v \in Voxels : cellConfirmed(c, v)}

FloorCounts(c) ==
  IF collectZs(c) = {} THEN {1} ELSE 1..Cardinality(collectZs(c))

StillThere(c, selected, n) ==
  IF collectZs(c) # {} /\ selected >= n THEN -1 ELSE selected

detectFloors(c, selected) ==
  \E n \in FloorCounts(c) :
    /\ floors' = n
    /\ floorView' = StillThere(c, selected, n)

Redetect(c, cut, selected) ==
  IF cut THEN detectFloors(c, selected)
         ELSE UNCHANGED floors /\ floorView' = selected

(***************************************************************************)
(* The floor applyFloorView cuts at, if not at the lowest wall.            *)
(***************************************************************************)
applyFloorView ==
  IF floorCut /\ floorView >= 0 /\ floors > 0 THEN {floorView} ELSE {}

(***************************************************************************)
(* The types; and what is cut at is a floor that was found, as soon as     *)
(* there is a wall to be shown.                                            *)
(***************************************************************************)
MapTypeOK ==
  /\ cells \in [Voxels -> {"none", "seen", "wall"}]
  /\ cellFrame \in [Voxels -> Sources \cup {"none", "map"}]
  /\ {world, anchored, persist, floorCut} \subseteq BOOLEAN
  /\ source \in Sources \cup {"none"}
  /\ trail \in 0..MaxTrail
  /\ floors \in Nat
  /\ floorView \in Int
  /\ collectZs(cells) # {} => applyFloorView \subseteq 0..(floors - 1)

(***************************************************************************)
(* applyOpts, after a change to the toolbar: floors first, then rebuild,   *)
(* which prunes once more.                                                 *)
(***************************************************************************)
applyOpts(c, cut, selected) ==
  /\ floorCut' = cut
  /\ Redetect(c, cut, selected)
  /\ cells' \in pruneVoxels(c, ~persist')
  /\ UNCHANGED <<cellFrame, world, source, anchored>>

-------------------------------------------------------------------------------
(***************************************************************************)
(* The rest of onCloudFrame.  Once the map is registered body clouds are   *)
(* dropped; the first registered one empties it.  A registered cloud       *)
(* carries the pose.                                                       *)
(***************************************************************************)
ingestFrame(cloud, hit) ==
  LET w == cloud = "world"
      base == IF w # world THEN [v \in Voxels |-> "none"] ELSE cells
  IN  /\ ~(world /\ ~w)
      /\ world' = w
      /\ source' = IF w THEN "lio" ELSE source
      /\ \E c \in ingestPersist(base, hit) :
         \E d \in pruneVoxels(c, ~persist) :
           /\ Redetect(d, floorCut, floorView)
           /\ cells' \in pruneVoxels(d, ~persist)
      /\ cellFrame' = Placed(base, FrameOf(w, source'))
      /\ UNCHANGED <<anchored, trail, persist, floorCut>>

(***************************************************************************)
(* recordTrail: a point if the dog has moved since the last.               *)
(***************************************************************************)
recordTrail ==
  \/ trail > 0 /\ UNCHANGED trail
  \/ trail' = IF trail = MaxTrail THEN KeptTrail ELSE trail + 1

(***************************************************************************)
(* Mutant: only a change between the other sources moves the origin.       *)
(***************************************************************************)
OtherOriginButLio(s) == s # source /\ source # "none" /\ ~world /\ s # "lio"

OtherOrigin(s) == s # source /\ source # "none" /\ ~world

(***************************************************************************)
(* onPose, with every telemetry message.  Another odometry source has      *)
(* another origin: the map starts again, unless it is registered.  The     *)
(* first pose anchors, a jump of a metre anchors again, and otherwise the  *)
(* position is followed or, with the leg odometry frozen, integrated.      *)
(***************************************************************************)
onPose(s) ==
  /\ source' = s
  /\ cells' = IF OtherOrigin(s)
                THEN [v \in Voxels |-> "none"] ELSE cells
  /\ IF ~anchored THEN trail' = 1
     ELSE trail' = 1 \/ recordTrail
  /\ anchored' = TRUE
  /\ UNCHANGED <<cellFrame, world, view>>

-------------------------------------------------------------------------------
(***************************************************************************)
(* The toolbar: live or persistent, the floor button, the cut's checkbox,  *)
(* the storey height, and the clear button.                                *)
(***************************************************************************)
CloudMode(p) ==
  /\ persist' = p
  /\ UNCHANGED trail
  /\ applyOpts(cells, floorCut, floorView)

(***************************************************************************)
(* The button detects the floors, steps on and wraps around to "all".      *)
(***************************************************************************)
NextFloor(selected, n) == IF selected < n - 1 THEN selected + 1 ELSE -1

FloorButton ==
  /\ UNCHANGED <<cellFrame, world, source, anchored, trail, persist>>
  /\ floorCut' = TRUE
  /\ \E n \in FloorCounts(cells) :
       /\ floors' = n
       /\ floorView' = StillThere(cells,
                         NextFloor(StillThere(cells, floorView, n), n), n)
  /\ cells' \in pruneVoxels(cells, ~persist)

CutBox(cut) ==
  /\ UNCHANGED <<trail, persist>>
  /\ applyOpts(cells, cut, -1)

StoreyHeight ==
  /\ UNCHANGED <<trail, persist>>
  /\ applyOpts(cells, floorCut, floorView)

(***************************************************************************)
(* clearCloud empties the floors but not the selection.                    *)
(***************************************************************************)
ClearCloud ==
  /\ trail' = 0
  /\ IF floorCut THEN detectFloors([v \in Voxels |-> "none"], floorView)
                 ELSE floors' = 0 /\ UNCHANGED floorView
  /\ cells' = [v \in Voxels |-> "none"]
  /\ UNCHANGED <<cellFrame, world, source, anchored, persist, floorCut>>

-------------------------------------------------------------------------------
MapNext ==
  \/ \E cloud \in Clouds, hit \in SUBSET Voxels : ingestFrame(cloud, hit)
  \/ \E s \in Sources : onPose(s)
  \/ \E p \in BOOLEAN : CloudMode(p)
  \/ FloorButton
  \/ \E cut \in BOOLEAN : CutBox(cut)
  \/ StoreyHeight
  \/ ClearCloud

MapSpec == MapInit /\ [][MapNext]_mapVars

-------------------------------------------------------------------------------
(***************************************************************************)
(* Every voxel on the screen is in the frame clouds are entered in now,    *)
(* however sources and registration changed; the only strangers are the    *)
(* voxels entered before the first pose, which nothing removes.            *)
(***************************************************************************)
MapIsOfOneFrame ==
  \A v \in Voxels :
    cells[v] # "none" => cellFrame[v] \in {FrameOf(world, source), "none"}

(***************************************************************************)
(* Once the map is registered and persistent, walls go only when they are  *)
(* cleared by hand: neither a stray body cloud nor a flicker of the        *)
(* odometry source (the comments in onCloudFrame and onPose).              *)
(***************************************************************************)
RegisteredMapStays ==
  [][persist /\ persist' /\ world /\ ~ClearCloud
       => collectZs(cells) \subseteq collectZs(cells')]_mapVars
===============================================================================
