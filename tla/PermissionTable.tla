--------------------------- MODULE PermissionTable ---------------------------
(***************************************************************************)
(* The 95 nodes of src/src/permissions.rs by their index, and the parent   *)
(* of each: the table the plugin really uses, for instances of             *)
(* Permissions.  Whole groups of nodes sit under one place, as in the      *)
(* table.                                                                  *)
(***************************************************************************)
EXTENDS Naturals, Integers

ALL == 0
ENTITY_SPAWN == 2
ENTITY_MANIPULATE == 3
BUILD_DANGEROUS_TICK == 14
DEFAULT == 15
CAN_USE == 16  \* USE, a reserved word here
CHUNK_REQUEST == 21
CHUNK_REQUESTBLOCKENTITY == 22
BUILD == 23
BUILD_PLACE == 24
BUILD_SECTION == 25
BUILD_NBT == 26
PLAYER == 30
PLAYER_SPEED == 32
PLAYER_TELEPORT == 33
PLAYER_GAMEMODE == 34
PLAYER_GAMEMODE_SURVIVAL == 35
PLAYER_GAMEMODE_CREATIVE == 36
PLAYER_GAMEMODE_SPECTATOR == 37
PLAYER_GAMEMODE_ADVENTURE == 38
PLAYER_SETNOPHYSICALTRIGGER == 40
WORLD_TIME == 42

PERMS == 0..94

\* A place of the tree, and the nodes right below it.
Group == [p \in {1, 6, 10, 15, 20, 23, 27, 30, 34, 41, 44, 55, 87} |->
  CASE p = 1  -> 2..5    \* axiom.entity.*
    [] p = 6  -> 7..9    \* axiom.blueprint.*
    [] p = 10 -> 11..12  \* axiom.annotation.*
    [] p = 15 -> (16..20) \cup {23, 27, 30, 41, 44, 55, 87}  \* axiom.default
    [] p = 20 -> 21..22  \* axiom.chunk.*
    [] p = 23 -> 24..26  \* axiom.build.*
    [] p = 27 -> 28..29  \* axiom.editor.*
    [] p = 30 -> (31..34) \cup (39..40)  \* axiom.player.*
    [] p = 34 -> 35..38  \* axiom.player.gamemode.*
    [] p = 41 -> 42..43  \* axiom.world.*
    [] p = 44 -> 45..54  \* axiom.capability.*
    [] p = 55 -> 56..86  \* axiom.tool.*
    [] p = 87 -> 88..94] \* axiom.builder_tool.*

\* The parent of each node, or -1.  axiom.all stands alone, and so do
\* axiom.build_dangerous.* and, though its name says otherwise, the node below it.
Parents == [n \in PERMS |->
  IF \E p \in DOMAIN Group : n \in Group[p]
  THEN CHOOSE p \in DOMAIN Group : n \in Group[p]
  ELSE -1]
=============================================================================
