------------------------------- MODULE Phasing -------------------------------
(***************************************************************************)
(* Terrain phases (src/client/CWorldScene/Phasing.cpp) over the archive    *)
(* reads of Storage: a phase lays the tiles of another map directory over  *)
(* those of the player's map.  Which tiles it has is read from its WDT     *)
(* through the client's own, detoured, storage; each tile load then looks  *)
(* at the active phase.  All of it is the client's main thread.            *)
(*                                                                         *)
(* Of a map the model keeps its directory, of a WDT the tiles in its MAIN  *)
(* chunk, and of the terrain the directory each tile was loaded from.      *)
(***************************************************************************)
EXTENDS Storage

CONSTANTS
    Main,       \* the client's main thread, one of Threads
    Phases, Maps, Tiles,
    WdtOf,      \* per phase, the name of its WDT
    TilesOf     \* per origin of a WDT's bytes, the tiles of MAIN; undefined if there is none

ASSUME PhasingAssumption ==
    /\ Main \in Threads
    /\ WdtOf \in [Phases -> Names]
    /\ \A x \in DOMAIN TilesOf : TilesOf[x] \subseteq Tiles
    /\ None \notin Maps \cup Phases

VARIABLES
    childMap,  \* g_childMap: the active phase, None without one
    baseMap,   \* g_baseMap: the map it overlays
    phaseMain, \* g_phaseMain: the tiles whose bit is set
    changing,  \* the phase whose WDT SetTerrainPhase is reading, or None
    mapDir,    \* the client's directory of the current map
    mapId,     \* the map the player is on
    loaded,    \* per tile, the directory it was loaded from
    known,     \* the tiles of the active phase when it was set
    outlived   \* a phase was active while the client went to another map

phase == <<childMap, baseMap, phaseMain, changing, mapDir, mapId, loaded, known, outlived>>
allVars == <<vars, phase>>

PhasedInit ==
    /\ Init
    /\ childMap = None /\ baseMap = None /\ phaseMain = {} /\ changing = None
    /\ mapId \in Maps /\ mapDir = mapId
    /\ loaded = [tile \in Tiles |-> mapDir]
    /\ known = {} /\ outlived = FALSE

-----------------------------------------------------------------------------

(* hkTileLoad and PhaseHasTile.                                            *)
TileLoad(child, main, dir, tile) ==
    IF child # None /\ tile \in main THEN child ELSE dir

(* The client's map change: every tile is purged and loaded anew.          *)
EnterMap(dir) ==
    /\ mapDir' = dir
    /\ loaded' = [tile \in Tiles |-> TileLoad(childMap', phaseMain', dir, tile)]

(* SetTerrainPhase, up to the open of LoadPhaseMain.                       *)
OpenPhaseWdt(p) ==
    /\ changing = None
    /\ changing' = p
    /\ phaseMain' = {}
    /\ OpenDetour(Main, WdtOf[p], FALSE)
    /\ UNCHANGED <<childMap, baseMap, mapDir, mapId, loaded, known, outlived>>

(* The WDT is not found: the phase that was active stays so.               *)
WdtNotFound ==
    /\ changing # None /\ open[Main].at = "idle"
    /\ changing' = None
    /\ UNCHANGED <<vars, childMap, baseMap, phaseMain, mapDir, mapId, loaded, known, outlived>>

MainMerged(origin) == known \cup TilesOf[origin]
MainChunk(origin) == TilesOf[origin]

(* The WDT is read and closed; with a MAIN chunk the phase becomes active. *)
ReadPhaseWdt ==
    /\ changing # None /\ open[Main].at = "held"
    /\ CloseDetour(Main)
    /\ changing' = None
    /\ LET origin == file[Main].from
       IN  IF file[Main].size > 0 /\ origin \in DOMAIN TilesOf
           THEN /\ phaseMain' = MainChunk(origin) /\ known' = TilesOf[origin]
                /\ baseMap' = IF baseMap = None THEN mapDir ELSE baseMap
                /\ childMap' = changing
                /\ EnterMap(baseMap')
           ELSE UNCHANGED <<childMap, baseMap, phaseMain, mapDir, loaded, known>>
    /\ UNCHANGED <<mapId, outlived>>

ClearTerrainPhase ==
    /\ changing = None /\ open[Main].at = "idle"
    /\ baseMap # None
    /\ childMap' = None
    /\ UNCHANGED <<vars, phaseMain, changing, mapId, known, outlived>>
    /\ EnterMap(baseMap)
    /\ baseMap' = None

-----------------------------------------------------------------------------
(* The client: the player moves, and a tile is loaded again; or goes to    *)
(* another map.                                                            *)

Stream(tile) ==
    /\ changing = None /\ open[Main].at = "idle"
    /\ loaded' = [loaded EXCEPT ![tile] = TileLoad(childMap, phaseMain, mapDir, tile)]
    /\ UNCHANGED <<vars, childMap, baseMap, phaseMain, changing, mapDir, mapId, known, outlived>>

Travel(map) ==
    /\ changing = None /\ open[Main].at = "idle"
    /\ map # mapId
    /\ mapId' = map
    /\ UNCHANGED <<vars, childMap, baseMap, phaseMain, changing, known>>
    /\ EnterMap(map)
    /\ outlived' = (outlived \/ baseMap # None)

-----------------------------------------------------------------------------

(* While SetTerrainPhase reads, its thread is in no other call.            *)
Files ==
    /\ \/ Register \/ RegisterSuffix
       \/ \E t \in Threads :
            /\ Opening(t) \/ Using(t)
            /\ t = Main /\ changing # None => open[t].at \notin {"idle", "held"}
    /\ UNCHANGED phase

PhasedNext ==
    \/ Files
    \/ (\E p \in Phases : OpenPhaseWdt(p)) \/ WdtNotFound \/ ReadPhaseWdt \/ ClearTerrainPhase
    \/ (\E tile \in Tiles : Stream(tile)) \/ (\E map \in Maps : Travel(map))

PhasedSpec == PhasedInit /\ [][PhasedNext]_allVars

-----------------------------------------------------------------------------

PhasedTypeOK ==
    /\ childMap \in Phases \cup {None} /\ changing \in Phases \cup {None}
    /\ baseMap \in Maps \cup {None} /\ mapDir \in Maps /\ mapId \in Maps
    /\ phaseMain \subseteq Tiles /\ known \subseteq Tiles
    /\ loaded \in [Tiles -> Maps \cup Phases]
    /\ outlived \in BOOLEAN

(* The terrain fits together whatever changes of phase fail half way and   *)
(* whatever is registered meanwhile: every tile is of the player's map or  *)
(* of the active phase, and of the phase only where its WDT has it; as     *)
(* long as no later change failed, it is wherever the WDT has it.  The     *)
(* terrain is that of the player's map, but for one who left the map with  *)
(* a phase active: the base map is remembered once and re-entered.         *)
PhaseShown ==
    /\ PhasedTypeOK
    /\ \A tile \in Tiles :
        /\ loaded[tile] \in {mapDir, childMap}
        /\ loaded[tile] # mapDir => tile \in known
        /\ childMap # None /\ phaseMain = known /\ tile \in known => loaded[tile] = childMap
    /\ mapDir # mapId => outlived
=============================================================================
