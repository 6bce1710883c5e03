--------------------------- MODULE ProtocolActors ---------------------------
(*************************************************************************)
(* The part of the schema (protocol/) about actors and players: what     *)
(* they are, can do, look like and how they move. Each definition is     *)
(* named for a module, or for a module and the class it starts with: it  *)
(* is the class statements from there to where the next one starts, in   *)
(* the form of Declarations.                                             *)
(*************************************************************************)
EXTENDS Declarations

-----------------------------------------------------------------------------
(* protocol/actor.py                                                       *)

ActorFromActorFlags ==
  << Enum("ActorFlags", Once(<<Is(0, 119), Since(776, Is(119, 1)), Since(786, Is(120, 3)),
    Since(800, Is(123, 1)), Since(818, Is(124, 1)), Since(844, Is(125, 1)), Since(898, Is(126, 1)),
    Since(975, Is(127, 3)), Since(2168, Is(130, 1)), Named("COUNT", Autos(1))>>)) >>

ActorFromActorDataIDs ==
  << Enum("ActorDataIDs", <<Based("uint8", Body(<<Is(0, 132), Since(776, Is(132, 2)),
    Since(800, Is(134, 2)), Since(924, Is(136, 3)), Since(975, Is(139, 2)), Autos(1)>>))>>) >>

ActorFromDataItemType ==
  << Enum("DataItemType", <<Based("uint8", Body(<<Named("BYTE", Is(0, 1)), Named("SHORT", Is(1, 1)),
    Named("INT", Is(2, 1)), Named("FLOAT", Is(3, 1)), Named("STRING", Is(4, 1)),
    Named("COMPOUND_TAG", Is(5, 1)), Named("POS", Is(6, 1)), Named("INT64", Is(7, 1)),
    Named("VEC3", Is(8, 1)), Is(9, 1)>>))>>),
     Struct("DataItemBytePayload",
       Once(<<Since(2168, Literal(Members("DataItemType", {"BYTE"}), Field({})))>>)),
     Struct("DataItemShortPayload",
       Once(<<Since(2168, Literal(Members("DataItemType", {"SHORT"}), Field({})))>>)),
     Struct("DataItemIntPayload",
       Once(<<Since(2168, Literal(Members("DataItemType", {"INT"}), Field({})))>>)),
     Struct("DataItemFloatPayload",
       Once(<<Since(2168, Literal(Members("DataItemType", {"FLOAT"}), Field({})))>>)),
     Struct("DataItemStringPayload",
       Once(<<Since(2168, Literal(Members("DataItemType", {"STRING"}), Field({})))>>)),
     Struct("DataItemCompoundTagPayload",
       Once(<<Since(2168, Literal(Members("DataItemType", {"COMPOUND_TAG"}), Field({}))),
       Field({"CompoundTag"})>>)),
     Struct("DataItemPosPayload",
       Once(<<Since(2168, Literal(Members("DataItemType", {"POS"}), Field({}))),
       Field({"BlockPos"})>>)),
     Struct("DataItemInt64Payload",
       Once(<<Since(2168, Literal(Members("DataItemType", {"INT64"}), Field({})))>>)),
     Struct("DataItemVec3Payload",
       Once(<<Since(2168, Literal(Members("DataItemType", {"VEC3"}), Field({}))),
       Field({"Vec3"})>>)),
     Struct("DataItemEntry", Once(<<Field({"DataItemBytePayload", "DataItemCompoundTagPayload",
       "DataItemFloatPayload", "DataItemInt64Payload", "DataItemIntPayload", "DataItemPosPayload",
       "DataItemShortPayload", "DataItemStringPayload", "DataItemVec3Payload"})>>)),
     StructIn(<<"SynchedActorData">>, "CopyableDataList", Repeated(1,
       Body(<<Field({"DataItemEntry"})>>))),
     Struct("SynchedActorData", Once(<<>>)),
     StructIn(<<"PropertySyncData">>, "PropertySyncIntEntry", Repeated(1, Body(<<>>))),
     StructIn(<<"PropertySyncData">>, "PropertySyncFloatEntry", Repeated(1, Body(<<>>))),
     Struct("PropertySyncData",
       Once(<<Field({"PropertySyncFloatEntry", "PropertySyncIntEntry"})>>)),
     Struct("SyncedAttribute", Once(<<>>)),
     Enum("ActorLinkType", <<Based("uint8", Body(<<Is(0, 3)>>))>>),
     Struct("ActorLink", Once(<<Field({"ActorLinkType", "ActorUniqueID"})>>)),
     EnumIn(<<"PassengerOfBlockArguments">>, "EmoteType", Repeated(1, Based("uint8",
       Body(<<Is(0, 3)>>)))),
     Struct("PassengerOfBlockArguments", Once(<<Field({"BlockPos", "EmoteType", "Vec3"})>>)),
     Packet("AddActorPacket", 13, Once(<<FieldOf({<<"ActorLink">>, <<"ActorRuntimeID">>,
       <<"ActorUniqueID">>, <<"PropertySyncData">>, <<"SyncedAttribute">>, <<"SynchedActorData",
       "CopyableDataList">>, <<"Vec2">>, <<"Vec3">>}),
       Since(2225, Field({"PassengerOfBlockArguments"}))>>)),
     Packet("SetActorDataPacket", 39, Once(<<FieldOf({<<"ActorRuntimeID">>, <<"PlayerInputTick">>,
       <<"PropertySyncData">>, <<"SynchedActorData", "CopyableDataList">>})>>)) >>

ActorFromActorType ==
  << Enum("ActorType", <<Over(0, 2168, <<Is(1, 1), Is(255, 2), Is(768, 1), Is(2816, 1), Is(4864, 1),
    Is(21248, 1), Is(33024, 1), Since(924, Is(65792, 1)), Is(68352, 1), Is(199424, 1),
    Is(264960, 1), Is(524288, 1), Is(1116928, 1), Is(2118400, 1), Is(4194304, 1), Is(8388608, 1),
    Is(8960, 1), Is(16777984, 1), Is(4874, 4), Is(21262, 1), Is(16777999, 1), Is(4880, 1),
    Is(8977, 1), Is(4882, 1), Is(33043, 1), Is(788, 2), Is(21270, 1), Is(2118423, 1), Is(4892, 2),
    Is(21278, 1), Is(8991, 1), Is(2118424, 2), Until(924, Is(2186010, 1)),
    Since(924, Is(2183962, 1)), Until(924, Is(2186011, 1)), Since(924, Is(2183963, 1)),
    Is(199456, 1), Is(2849, 1), Is(1116962, 1), Is(264995, 1), Is(68388, 1), Is(2853, 2),
    Is(264999, 2), Is(2857, 3), Is(199468, 1), Is(2861, 1), Is(1116974, 1), Is(199471, 1),
    Is(1116976, 1), Is(2865, 2), Is(307, 1), Is(68404, 1), Is(2869, 2), Is(265015, 1), Is(312, 1),
    Is(2873, 1), Is(68410, 1), Is(2875, 1), Is(317, 3), Is(64, 4), Is(4194372, 1), Is(69, 4),
    Is(12582985, 1), Is(4938, 1), Is(21323, 1), Is(4194380, 1), Is(77, 2), Is(4194383, 1),
    Is(12582992, 1), Is(4194385, 2), Is(83, 1), Is(4194389, 3), Is(88, 1), Is(4194393, 1),
    Is(90, 1), Is(4194395, 1), Is(93, 1), Is(4194398, 1), Is(95, 1), Is(4194405, 3), Is(2920, 2),
    Is(524372, 1), Is(524384, 5), Is(4194410, 1), Is(107, 1), Is(9068, 2), Is(199534, 1),
    Is(9071, 2), Is(4977, 1), Is(2930, 1), Is(16778099, 1), Is(199540, 1), Is(117, 1), Is(886, 1),
    Is(119, 1), Is(2936, 1), Is(4985, 1), Is(378, 2), Is(4988, 2), Is(68478, 1), Is(383, 1),
    Is(4992, 1), Is(9089, 1), Is(4994, 1), Is(2947, 1), Is(4996, 1), Is(9093, 1), Is(390, 1),
    Is(218, 1), Is(5021, 1), Is(5002, 2), Is(2956, 1), Is(4194445, 1), Is(5006, 1), Is(4194447, 1),
    Is(1117072, 1), Is(145, 1), Since(766, Is(2962, 1)), Since(800, Is(5011, 1)),
    Since(827, Is(916, 1)), Is(9109, 1), Until(924, Is(76694, 1)), Since(924, Is(74646, 1)),
    Is(1117079, 1), Until(924, Is(68504, 1)), Since(924, Is(70552, 1)), Since(975, Is(2969, 1))>>),
    Over(2168, Open, <<Is(1, 1), Is(255, 2), Is(768, 1), Is(2816, 1), Is(4864, 1), Is(21248, 1),
    Is(33024, 1), Is(65792, 1), Is(68352, 1), Is(199424, 1), Is(264960, 1), Is(524288, 1),
    Is(1116928, 1), Is(2118400, 1), Is(4194304, 1), Is(8388608, 1), Is(8960, 1), Is(16777984, 1),
    Is(4874, 4), Is(21262, 1), Is(16777999, 1), Is(4880, 1), Is(8977, 1), Is(4882, 1), Is(33043, 1),
    Is(788, 2), Is(21270, 1), Is(2118423, 1), Is(4892, 2), Is(21278, 1), Is(8991, 1),
    Is(2118424, 2), Is(2183962, 2), Is(199456, 1), Is(2849, 1), Is(1116962, 1), Is(264995, 1),
    Is(68388, 1), Is(2853, 2), Is(264999, 2), Is(2857, 3), Is(199468, 1), Is(2861, 1),
    Is(1116974, 1), Is(199471, 1), Is(1116976, 1), Is(2865, 2), Is(307, 1), Is(68404, 1),
    Is(2869, 2), Is(265015, 1), Is(312, 1), Is(2873, 1), Is(68410, 1), Is(2875, 1), Is(317, 3),
    Is(64, 4), Is(4194372, 1), Is(69, 4), Is(12582985, 1), Is(4938, 1), Is(21323, 1),
    Is(4194380, 1), Is(77, 2), Is(4194383, 1), Is(12582992, 1), Is(4194385, 2), Is(83, 1),
    Is(4194389, 3), Is(88, 1), Is(4194393, 1), Is(90, 1), Is(4194395, 1), Is(93, 1), Is(4194398, 1),
    Is(95, 1), Is(4194405, 3), Is(2920, 2), Is(524372, 1), Is(524384, 5), Is(4194410, 1),
    Is(107, 1), Is(9068, 2), Is(199534, 1), Is(9071, 2), Is(4977, 1), Is(2930, 1), Is(16778099, 1),
    Is(199540, 1), Is(117, 1), Is(886, 1), Is(119, 1), Is(2936, 1), Is(4985, 1), Is(378, 2),
    Is(4988, 2), Is(68478, 1), Is(383, 1), Is(4992, 1), Is(9089, 1), Is(4994, 1), Is(2947, 1),
    Is(4996, 1), Is(9093, 1), Is(390, 1), Is(218, 1), Is(5021, 1), Is(5002, 2), Is(2956, 1),
    Is(4194445, 1), Is(5006, 1), Is(4194447, 1), Is(1117072, 1), Is(145, 1), Is(2962, 1),
    Since(800, Is(5011, 1)), Is(916, 1), Is(9109, 1), Is(74646, 1), Is(1117079, 1), Is(70552, 1),
    Is(921, 1), Is(154, 1), Since(2225, Is(199579, 1)), Since(2225, Is(4194460, 1))>>)>>) >>

ActorFromSetLastHurtByPacket ==
  << Packet("SetLastHurtByPacket", 96, Once(<<Field({"ActorType"})>>)),
     Packet("RemoveActorPacket", 14, Once(<<Field({"ActorUniqueID"})>>)),
     Packet("ActorPickRequestPacket", 35, Once(<<Typed(Field({"ActorUniqueID"}))>>)),
     Packet("AddBehaviorTreePacket", 89, Once(<<>>)),
     Packet("TakeItemActorPacket", 17, Once(<<Field({"ActorRuntimeID"})>>)),
     Struct("MoveActorAbsoluteData", Once(<<Field({"ActorRuntimeID", "Vec3"})>>)),
     Packet("MoveActorAbsolutePacket", 18, Once(<<Field({"MoveActorAbsoluteData"})>>)),
     Packet("AddPaintingPacket", 22, Once(<<Field({"ActorRuntimeID", "ActorUniqueID", "Vec3"})>>)),
     Enum("ActorEvent", <<Based("uint8", Body(<<Is(0, 9), Is(10, 30), Is(57, 1), Is(60, 15),
       Is(76, 3), Since(859, Is(79, 1)), Since(898, Is(80, 1)), Since(975, Is(81, 1))>>))>>),
     Packet("ActorEventPacket", 27, Once(<<Field({"ActorEvent", "ActorRuntimeID"}),
       Since(975, Field({"Vec3"}))>>)),
     Packet("SetActorMotionPacket", 40,
       Once(<<Field({"ActorRuntimeID", "PlayerInputTick", "Vec3"})>>)),
     Packet("SetActorLinkPacket", 41, Once(<<Field({"ActorLink"})>>)),
     Packet("SetPassengerOfBlockPacket", 357, <<Over(2225, Open,
       <<Field({"ActorUniqueID", "PassengerOfBlockArguments"})>>)>>) >>

ActorFromActorSwingSource ==
  << Enum("ActorSwingSource", <<Based("uint8", Body(<<Is(0, 9)>>))>>),
     EnumIn(<<"AnimatePacket">>, "Action", <<In(1, Based("uint8", Body(<<Is(0, 2), Is(3, 3),
       Until(800, Is(128, 2))>>))), In(2, Based("uint8", Body(<<Is(0, 2), Is(3, 3)>>))), In(3,
       Based("uint8", Body(<<Is(0, 2), Is(3, 3)>>)))>>),
     Packet("AnimatePacket", 44, <<Over(0, 859, <<Named("action", Field({})),
       Field({"ActorRuntimeID"}), When({"action"}, {}, Field({}))>>), Over(859, 898,
       <<Named("action", Field({})), Field({"ActorRuntimeID"}), When({"action"}, {}, Field({}))>>),
       Over(898, Open, <<Field({"Action", "ActorRuntimeID"}), Typed(Field({"ActorSwingSource"})),
       Since(2225, Field({"HandSlot"}))>>)>>),
     Packet("SpawnExperienceOrbPacket", 66, Once(<<Field({"Vec3"})>>)),
     Packet("AvailableActorIdentifiersPacket", 119, Once(<<Field({"CompoundTag"})>>)),
     Packet("MotionPredictionHintsPacket", 157, Once(<<Field({"ActorRuntimeID", "Vec3"})>>)),
     Packet("DeathInfoPacket", 189, Once(<<>>)),
     Packet("SyncActorPropertyPacket", 165, Once(<<Field({"CompoundTag"})>>)),
     Packet("ChangeMobPropertyPacket", 182, Once(<<Field({"ActorUniqueID"})>>)),
     Packet("AnimateEntityPacket", 158, Once(<<Field({"ActorRuntimeID"})>>)),
     EnumIn(<<"NpcRequestPacket">>, "RequestType", Repeated(1, Based("uint8", Body(<<Is(0, 7)>>)))),
     Packet("NpcRequestPacket", 98, Once(<<Field({"ActorRuntimeID", "RequestType"})>>)),
     EnumIn(<<"NpcDialoguePacket">>, "NpcDialogueActionType", Repeated(1, Body(<<Is(0, 2)>>))),
     Packet("NpcDialoguePacket", 169, Once(<<Typed(Field({"ActorUniqueID"})),
       Field({"NpcDialogueActionType"})>>)) >>

ActorFromAddItemActorPacket ==
  << Packet("AddItemActorPacket", 15, <<Over(0, 2168, <<FieldOf({<<"ActorRuntimeID">>,
    <<"ActorUniqueID">>, <<"NetworkItemStackDescriptor">>, <<"SynchedActorData",
    "CopyableDataList">>, <<"Vec3">>})>>), Over(2168, Open, <<FieldOf({<<"ActorRuntimeID">>,
    <<"ActorUniqueID">>, <<"SerializedNetworkItemStackDescriptor">>, <<"SynchedActorData",
    "CopyableDataList">>, <<"Vec3">>})>>)>>) >>

ActorModule ==
  Module("protocol.actor", {"protocol", "protocol.common", "protocol.item", "protocol.nbt"}, {[name
    |-> "ActorUniqueID", refs |-> {}], [name |-> "ActorRuntimeID", refs |-> {}], [name |->
    "PlayerInputTick", refs |-> {}]}, ActorFromActorFlags \o ActorFromActorDataIDs \o
    ActorFromDataItemType \o ActorFromActorType \o ActorFromSetLastHurtByPacket \o
    ActorFromActorSwingSource \o ActorFromAddItemActorPacket)

-----------------------------------------------------------------------------
(* protocol/ability.py                                                     *)

AbilityFromRequestPermissionsPacket ==
  << EnumIn(<<"RequestPermissionsPacket">>, "CustomPermissions", Repeated(1, Based("uint16",
    Body(<<Is(1, 2), Is(4, 1), Is(8, 1), Is(16, 1), Is(32, 1), Is(64, 1), Is(128, 1)>>)))),
     Packet("RequestPermissionsPacket", 185,
       Once(<<Typed(Field({"ActorUniqueID", "PlayerPermissionLevel"}))>>)),
     Struct("AdventureSettings", Once(<<>>)),
     Packet("UpdateAdventureSettingsPacket", 188, Once(<<Field({"AdventureSettings"})>>)),
     Enum("AbilitiesIndex", <<Based("int8", Body(<<Is(-1, 20), Since(776, Is(19, 1)),
       Autos(1)>>))>>),
     EnumIn(<<"RequestAbilityPacket">>, "Type", Repeated(1, Based("uint8", Body(<<Is(0, 3)>>)))),
     Packet("RequestAbilityPacket", 184, Once(<<Typed(Field({"AbilitiesIndex"})),
       Field({"Type"})>>)),
     EnumIn(<<"SerializedAbilitiesData">>, "SerializedAbilitiesLayer", Repeated(1, Based("uint16",
       Body(<<Is(0, 6)>>)))),
     StructIn(<<"SerializedAbilitiesData">>, "SerializedLayer", Repeated(1,
       Body(<<Typed(Field({"SerializedAbilitiesLayer"})), Since(776, Field({}))>>))),
     Struct("SerializedAbilitiesData", Once(<<Typed(Field({"ActorUniqueID"})),
       Field({"CommandPermissionLevel", "PlayerPermissionLevel", "SerializedLayer"})>>)),
     Packet("UpdateAbilitiesPacket", 187, Once(<<Field({"SerializedAbilitiesData"})>>)) >>

AbilityModule ==
  Module("protocol.ability", {"protocol", "protocol.actor", "protocol.command"}, {},
    AbilityFromRequestPermissionsPacket)

-----------------------------------------------------------------------------
(* protocol/attribute.py                                                   *)

AttributeFromAttributeModifierOperation ==
  << Enum("AttributeModifierOperation", Once(<<Is(0, 5), Is(4, 1)>>)),
     Enum("AttributeOperands", Once(<<Is(0, 4), Is(3, 1)>>)),
     Struct("AttributeModifier",
       Once(<<Typed(Field({"AttributeModifierOperation", "AttributeOperands"}))>>)),
     Struct("AttributeData", Once(<<Field({"AttributeModifier"})>>)),
     Packet("UpdateAttributesPacket", 29,
       Once(<<Field({"ActorRuntimeID", "AttributeData", "PlayerInputTick"})>>)) >>

AttributeModule ==
  Module("protocol.attribute", {"protocol", "protocol.actor"}, {},
    AttributeFromAttributeModifierOperation)

-----------------------------------------------------------------------------
(* protocol/effect.py                                                      *)

EffectFromMovementEffectType ==
  << Enum("MovementEffectType", Once(<<Is(-1, 2), Since(776, Is(1, 1)), Since(1001, Is(2, 1)),
    Autos(1)>>)),
     EnumIn(<<"MobEffectPacket">>, "Event", Repeated(2, Based("uint8", Body(<<Is(0, 4)>>)))),
     Packet("MobEffectPacket", 28, <<Over(0, 748, <<Field({"ActorRuntimeID", "Event"}),
       Typed(Field({"PlayerInputTick"})), Since(898, Field({}))>>), Over(748, Open,
       <<Field({"ActorRuntimeID", "Event", "PlayerInputTick"}), Since(898, Field({}))>>)>>),
     Packet("MovementEffectPacket", 318, <<Over(748, Open,
       <<Field({"ActorRuntimeID", "MovementEffectType", "PlayerInputTick"})>>)>>) >>

EffectModule ==
  Module("protocol.effect", {"protocol", "protocol.actor"}, {}, EffectFromMovementEffectType)

-----------------------------------------------------------------------------
(* protocol/movement.py                                                    *)

MovementFromPlayerPositionModeComponent ==
  << EnumIn(<<"PlayerPositionModeComponent">>, "PositionMode", Repeated(1, Based("uint8",
    Body(<<Is(0, 2), Named("TELEPORT", Is(2, 1)), Is(3, 1)>>)))),
     Struct("PlayerPositionModeComponent", Once(<<>>)),
     Struct("MovePlayerTeleportData", <<Over(2168, Open, <<>>)>>),
     Struct("MoveActorDeltaData", <<Over(0, 2168, <<Field({"ActorRuntimeID"}),
       Named("header", Field({})), When({"header"}, {}, Field({})), When({"header"}, {}, Field({})),
       When({"header"}, {}, Field({})), When({"header"}, {}, Field({})),
       When({"header"}, {}, Field({})), When({"header"}, {}, Field({}))>>), Over(2168, Open,
       <<Field({"ActorRuntimeID"}), Since(2193, Field({}))>>)>>),
     Packet("MovePlayerPacket", 19, <<Over(0, 2168, <<Field({"ActorRuntimeID", "Vec2", "Vec3"}),
       Named("reset_position", FieldOf({<<"PlayerPositionModeComponent", "PositionMode">>})),
       Field({"ActorRuntimeID"}), When({"reset_position"},
       MembersOf(<<"PlayerPositionModeComponent", "PositionMode">>, {"TELEPORT"}), Field({})),
       When({"reset_position"}, MembersOf(<<"PlayerPositionModeComponent", "PositionMode">>,
       {"TELEPORT"}), Field({})), Field({"PlayerInputTick"})>>), Over(2168, Open,
       <<FieldOf({<<"ActorRuntimeID">>, <<"MovePlayerTeleportData">>, <<"PlayerInputTick">>,
       <<"PlayerPositionModeComponent", "PositionMode">>, <<"Vec2">>, <<"Vec3">>})>>)>>),
     Packet("MoveActorDeltaPacket", 111, Once(<<Field({"MoveActorDeltaData"})>>)),
     Packet("ServerPlayerPostMovePositionPacket", 16, Once(<<Field({"Vec3"})>>)),
     Struct("ActorDataFlagComponent", <<Over(776, Open,
       <<Width(Members("ActorFlags", {"COUNT"}), Field({}))>>)>>),
     Struct("ActorDataBoundingBoxComponent", <<Over(776, Open, <<>>)>>),
     Packet("ClientMovementPredictionSyncPacket", 322, <<Over(776, 975,
       <<Field({"ActorDataBoundingBoxComponent", "ActorDataFlagComponent", "ActorUniqueID"}),
       Since(786, Field({}))>>), Over(975, Open,
       <<Field({"ActorDataBoundingBoxComponent", "ActorDataFlagComponent", "ActorUniqueID"})>>)>>),
     Enum("RewindType", <<Based("uint8", Body(<<Is(0, 1), Named("VEHICLE", Is(1, 1))>>))>>),
     Packet("CorrectPlayerMovePredictionPacket", 161, <<Over(0, 827,
       <<Named("prediction_type", Field({"RewindType"})), Field({"Vec3"}),
       When({"prediction_type"}, Members("RewindType", {"VEHICLE"}), Field({"Vec2"})),
       When({"prediction_type"}, Members("RewindType", {"VEHICLE"}), Field({})),
       Field({"PlayerInputTick"})>>), Over(827, Open,
       <<Field({"PlayerInputTick", "RewindType", "Vec2", "Vec3"})>>)>>),
     Enum("ServerAuthMovementMode", <<Based("uint8", Body(<<Is(0, 3)>>))>>),
     Packet("SetMovementAuthorityPacket", 319, <<Over(748, 818,
       <<Field({"ServerAuthMovementMode"})>>)>>) >>

MovementModule ==
  Module("protocol.movement", {"protocol", "protocol.actor", "protocol.common"}, {},
    MovementFromPlayerPositionModeComponent)

-----------------------------------------------------------------------------
(* protocol/player.py                                                      *)

PlayerFromPlayerRespawnState ==
  << Enum("PlayerRespawnState", <<Based("uint8", Body(<<Is(0, 3)>>))>>),
     Packet("RespawnPacket", 45, Once(<<Field({"ActorRuntimeID", "PlayerRespawnState", "Vec3"})>>)),
     Enum("ActorDamageCause", Once(<<Is(-1, 36), Gated(898, 924, Is(35, 1)), Autos(1)>>)),
     Packet("HurtArmorPacket", 38, Once(<<Field({"ActorDamageCause"})>>)),
     Packet("SetHealthPacket", 42, Once(<<>>)),
     Packet("AwardAchievementPacket", 309, Once(<<>>)),
     EnumIn(<<"InteractPacket">>, "Action", Repeated(1, Based("uint8", Body(<<Is(0, 1),
       Is(3, 4)>>)))),
     Packet("InteractPacket", 33, Once(<<Field({"Action", "ActorRuntimeID", "Vec3"})>>)),
     Enum("SpawnPositionType", Once(<<Is(0, 2)>>)),
     Packet("SetSpawnPositionPacket", 43, <<Over(0, 944,
       <<Field({"DimensionType", "NetworkBlockPosition", "SpawnPositionType"})>>), Over(944, Open,
       <<Field({"BlockPos", "DimensionType", "SpawnPositionType"})>>)>>),
     Packet("SetLocalPlayerAsInitializedPacket", 113, Once(<<Field({"ActorRuntimeID"})>>)),
     Enum("ArmorSlot", Once(<<Is(0, 5), Is(4, 1), Autos(1)>>)),
     Struct("ArmorSlotAndDamagePair", Once(<<Field({"ArmorSlot"})>>)),
     Packet("PlayerArmorDamagePacket", 149, <<Over(0, 844, <<Named("slots", Field({})),
       When({"slots"}, {}, Field({})), When({"slots"}, {}, Field({})),
       When({"slots"}, {}, Field({})), When({"slots"}, {}, Field({})),
       When({"slots"}, {}, Field({}))>>), Over(844, Open, <<Field({"ArmorSlotAndDamagePair"})>>)>>),
     Packet("PlayerFogPacket", 160, Once(<<>>)) >>

PlayerFromGraphicsMode ==
  << Enum("GraphicsMode", <<Based("uint8", Body(<<Is(0, 4)>>))>>),
     Packet("UpdateClientOptionsPacket", 323, <<Over(786, Open, <<Field({"GraphicsMode"}),
       Since(975, Field({}))>>)>>),
     Enum("PlayerListPacketType", <<Based("uint8", Body(<<Named("ADD", Is(0, 1)),
       Named("REMOVE", Is(1, 1))>>))>>),
     Enum("BuildPlatform", Once(<<Is(-1, 1), Is(1, 5), Is(7, 9)>>)),
     StructIn(<<"PlayerListPacket">>, "RemoveEntry", <<In(2,
       Body(<<Field({"PlayerListPacketType"})>>))>>),
     StructIn(<<"PlayerListPacket">>, "AddEntry", <<In(2,
       Body(<<Field({"ActorUniqueID", "PlayerListPacketType"}), Since(2225, Field({})),
       Typed(Field({"BuildPlatform"})), Field({"Color", "SerializedSkinRef"})>>))>>),
     Packet("PlayerListPacket", 63, <<Over(0, 2168,
       <<Named("action", Field({"PlayerListPacketType"})), Named("entries", When({"action"},
       Members("PlayerListPacketType", {"ADD"}), Field({"PlayerListEntry"}))),
       When({"action"}, Members("PlayerListPacketType", {"REMOVE"}), Field({})),
       When({"action", "entries"}, Members("PlayerListPacketType", {"ADD"}), Field({}))>>),
       Over(2168, Open, <<Field({"AddEntry", "RemoveEntry"})>>)>>),
     Enum("UpdateType", <<Based("uint8", Body(<<Is(0, 2), Named("SET_INT_OVERRIDE", Is(2, 1)),
       Named("SET_FLOAT_OVERRIDE", Is(3, 1))>>))>>),
     StructIn(<<"PlayerUpdateEntityOverridesPacket">>, "ClearOverride", <<In(2, Body(<<>>))>>),
     StructIn(<<"PlayerUpdateEntityOverridesPacket">>, "RemoveOverride", <<In(2, Body(<<>>))>>),
     StructIn(<<"PlayerUpdateEntityOverridesPacket">>, "IntOverride", <<In(2, Body(<<>>))>>),
     StructIn(<<"PlayerUpdateEntityOverridesPacket">>, "FloatOverride", <<In(2, Body(<<>>))>>),
     Packet("PlayerUpdateEntityOverridesPacket", 325, <<Over(786, 2168, <<Field({"ActorUniqueID"}),
       Named("update_type", Field({"UpdateType"})),
       When({"update_type"}, Members("UpdateType", {"SET_INT_OVERRIDE"}), Field({})),
       When({"update_type"}, Members("UpdateType", {"SET_FLOAT_OVERRIDE"}), Field({}))>>),
       Over(2168, Open, <<Field({"ActorUniqueID", "ClearOverride", "FloatOverride", "IntOverride",
       "RemoveOverride"})>>)>>),
     EnumIn(<<"PlayerLocationPacket">>, "Type", Repeated(2,
       Body(<<Named("PLAYER_LOCATION_COORDINATES", Is(0, 1)), Is(1, 1)>>))),
     StructIn(<<"PlayerLocationPacket">>, "CoordinatesLocation", <<In(2,
       Body(<<Field({"Type", "Vec3"})>>))>>),
     StructIn(<<"PlayerLocationPacket">>, "HiddenLocation", <<In(2, Body(<<Field({"Type"})>>))>>),
     Packet("PlayerLocationPacket", 326, <<Over(800, 2168, <<Named("type", Typed(Field({"Type"}))),
       Field({"ActorUniqueID"}),
       When({"type"}, Members("Type", {"PLAYER_LOCATION_COORDINATES"}), Field({"Vec3"}))>>),
       Over(2168, Open, <<Field({"ActorUniqueID", "CoordinatesLocation", "HiddenLocation"})>>)>>) >>

PlayerFromAddPlayerPacket ==
  << Packet("AddPlayerPacket", 12, <<Over(0, 2168, <<FieldOf({<<"ActorLink">>, <<"ActorRuntimeID">>,
    <<"GameType">>, <<"NetworkItemStackDescriptor">>, <<"PropertySyncData">>,
    <<"SerializedAbilitiesData">>, <<"SynchedActorData", "CopyableDataList">>, <<"Vec2">>,
    <<"Vec3">>}), Typed(Field({"BuildPlatform"}))>>), Over(2168, Open, <<FieldOf({<<"ActorLink">>,
    <<"ActorRuntimeID">>, <<"GameType">>, <<"PropertySyncData">>, <<"SerializedAbilitiesData">>,
    <<"SerializedNetworkItemStackDescriptor">>, <<"SynchedActorData", "CopyableDataList">>,
    <<"Vec2">>, <<"Vec3">>}), Since(2225, Field({"PassengerOfBlockArguments"})),
    Typed(Field({"BuildPlatform"}))>>)>>),
     Struct("PlayerListEntry", <<Over(0, 2168, <<Field({"ActorUniqueID"}),
       Typed(Field({"BuildPlatform"})), Legacy(Field({"SerializedSkinRef"})),
       Since(800, Field({"Color"}))>>)>>) >>

PlayerModule ==
  Module("protocol.player", {"protocol", "protocol.ability", "protocol.actor", "protocol.common",
    "protocol.game", "protocol.item", "protocol.network", "protocol.skin"}, {},
    PlayerFromPlayerRespawnState \o PlayerFromGraphicsMode \o PlayerFromAddPlayerPacket)

-----------------------------------------------------------------------------
(* protocol/skin.py                                                        *)

SkinFromArmSizeType ==
  << Enum("ArmSizeType", <<Based("uint8", Body(<<Is(0, 2), Autos(2)>>))>>),
     Enum("PieceType", <<Based("uint32", Body(<<Is(0, 28), Since(2225, Is(28, 1)), Autos(2)>>))>>),
     PreCereal(Enum("PieceType", <<Based("uint32", Body(<<Is(1, 27)>>))>>)),
     Enum("AnimatedTextureType", <<Based("uint32", Body(<<Is(0, 4)>>))>>),
     Enum("AnimationExpression", <<Based("uint32", Body(<<Is(0, 2)>>))>>),
     Enum("TrustedSkinFlag", <<Based("int8", Body(<<Is(0, 3)>>))>>),
     Struct("SkinImage", Once(<<>>)),
     Struct("AnimatedImageData",
       Once(<<Field({"AnimatedTextureType", "AnimationExpression", "SkinImage"})>>)),
     PreCereal(Struct("AnimatedImageData",
       Once(<<Typed(Field({"AnimatedTextureType", "AnimationExpression"}))>>))),
     Struct("SerializedPersonaPieceHandle", Once(<<Typed(Field({"PieceType"}))>>)),
     PreCereal(Struct("SerializedPersonaPieceHandle",
       Once(<<Legacy(Typed(Field({"PieceType"})))>>))),
     Struct("TintMapColor", Once(<<Field({"Color"})>>)),
     PreCereal(Struct("TintMapColor", Once(<<Legacy(Typed(Field({"PieceType"})))>>))) >>

SkinFromLegacySerializedSkinRef ==
  << PreCereal(Struct("SerializedSkinRef", Once(<<Legacy(Field({"AnimatedImageData"})),
    Typed(Field({"ArmSizeType"})),
    Legacy(Field({"SerializedPersonaPieceHandle", "TintMapColor"}))>>))),
     Struct("SerializedSkinRef", Once(<<Until(2225, Field({})), Field({"AnimatedImageData",
       "ArmSizeType", "Color", "SerializedPersonaPieceHandle", "SkinImage"}),
       Typed(Field({"PieceType", "TintMapColor", "TrustedSkinFlag"})), Since(2168, Field({}))>>)),
     Packet("PlayerSkinPacket", 93, <<Over(0, 944, <<Legacy(Field({"SerializedSkinRef"}))>>),
       Over(944, Open, <<Field({"SerializedSkinRef"})>>)>>),
     EnumIn(<<"EmotePacket">>, "Flags", Repeated(1, Based("uint8", Body(<<Is(1, 2)>>)))),
     Packet("EmotePacket", 138, Once(<<Field({"ActorRuntimeID"})>>)),
     Packet("EmoteListPacket", 152, Once(<<Field({"ActorRuntimeID"})>>)) >>

SkinModule ==
  Module("protocol.skin", {"protocol", "protocol.actor", "protocol.common"}, {}, SkinFromArmSizeType
    \o SkinFromLegacySerializedSkinRef)
=============================================================================
