------------------------------- MODULE Controls -------------------------------
(***************************************************************************)
(* The player and world controls of src/src/handlers.rs: set_gamemode,     *)
(* set_fly_speed, teleport, set_world_time and set_no_physical_trigger.    *)
(* The player's dimension is a variable of World.                          *)
(***************************************************************************)
EXTENDS Permissions, PermissionTable, Sequences

CONSTANTS
  Dims,   \* the dimensions, by what the host calls them
  Bare    \* a dimension id that may come off the wire, without its namespace

ASSUME ControlsAssumption == Dims \subseteq DOMAIN Bare

VARIABLES
  mode,       \* the player's game mode
  speed,      \* its flying speed, in tenths
  noTrigger,  \* set_no_physical_trigger, which nothing enforces
  clock       \* per dimension, the time of day and whether it advances

controlVars == <<mode, speed, noTrigger, clock>>

SameDimension(a, b) == Bare[a] = Bare[b]

\* The mode of a byte on the wire, and the node that allows it.  Mutated: in the order
\* that the nodes are listed in.
ModesAsListed == <<"survival", "creative", "spectator", "adventure">>
Modes         == <<"survival", "creative", "adventure", "spectator">>
ModeNodes     == << PLAYER_GAMEMODE_SURVIVAL, PLAYER_GAMEMODE_CREATIVE,
                    PLAYER_GAMEMODE_ADVENTURE, PLAYER_GAMEMODE_SPECTATOR >>

ControlsInit ==
  /\ mode = "creative"
  /\ speed = 1
  /\ noTrigger = FALSE
  /\ clock = [d \in Dims |-> [time |-> 0, advance |-> TRUE]]

\* A byte past the last mode is an error.
IsMode(byte) == byte < Len(Modes)

SetGamemode(r) ==
  /\ mode' = IF IsMode(r.mode) /\ HasPerm(ModeNodes[r.mode + 1])
             THEN Modes[r.mode + 1] ELSE mode
  /\ UNCHANGED <<speed, noTrigger, clock>>

\* Mutated: as fast as was asked for.
Unclamped(s) == s
Clamped(s)   == IF s < -10 THEN -10 ELSE IF s > 10 THEN 10 ELSE s

SetFlySpeed(r) ==
  /\ speed' = IF HasPerm(PLAYER_SPEED) THEN Clamped(r.speed) ELSE speed
  /\ UNCHANGED <<mode, noTrigger, clock>>

\* A time or a freeze, or both; a negative time is taken without its sign.  The world
\* is the one the player is in, and must be the one the client names.
SetWorldTime(r, dim) ==
  /\ clock' = IF HasPerm(WORLD_TIME) /\ SameDimension(dim, r.dimension)
              THEN [clock EXCEPT
                      ![dim].time    = IF r.time = {} THEN @
                                       ELSE CHOOSE t \in r.time \cup {-u : u \in r.time} : t >= 0,
                      ![dim].advance = IF r.freeze = {} THEN @ ELSE r.freeze = {FALSE}]
              ELSE clock
  /\ UNCHANGED <<mode, speed, noTrigger>>

SetNoPhysicalTrigger(r) ==
  /\ noTrigger' = IF HasPerm(PLAYER_SETNOPHYSICALTRIGGER) THEN r.enabled ELSE noTrigger
  /\ UNCHANGED <<mode, speed, clock>>

\* teleport: to the world named, if there is one; the position is left out.
TeleportGoal(r, dim) ==
  IF HasPerm(PLAYER_TELEPORT) /\ \E d \in Dims : SameDimension(d, r.dimension)
  THEN CHOOSE d \in Dims : SameDimension(d, r.dimension) ELSE dim
=============================================================================
