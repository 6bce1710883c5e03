---------------------------- MODULE ProtocolGame ----------------------------
(*************************************************************************)
(* The part of the schema (protocol/) about the game: its rules,         *)
(* commands, input, cameras and scores. Each definition is named for a   *)
(* module, or for a module and the class it starts with: it is the       *)
(* class statements from there to where the next one starts, in the      *)
(* form of Declarations.                                                 *)
(*************************************************************************)
EXTENDS Declarations

-----------------------------------------------------------------------------
(* protocol/boss.py                                                        *)

BossFromBossEventUpdateType ==
  << Enum("BossEventUpdateType", <<Based("uint8", Body(<<Named("ADD", Is(0, 1)),
    Named("PLAYER_ADDED", Is(1, 1)), Is(2, 1), Named("PLAYER_REMOVED", Is(3, 1)),
    Named("UPDATE_PERCENT", Is(4, 1)), Named("UPDATE_NAME", Is(5, 1)),
    Named("UPDATE_PROPERTIES", Is(6, 1)), Named("UPDATE_STYLE", Is(7, 1)),
    Named("QUERY", Is(8, 1))>>))>>),
     Enum("BossBarColor", <<Based("uint8", Body(<<Is(0, 8)>>))>>),
     Enum("BossBarOverlay", <<Based("uint8", Body(<<Is(0, 5)>>))>>),
     Packet("BossEventPacket", 74, <<Over(0, 1001, <<Field({"ActorUniqueID"}),
       Named("event_type", Field({"BossEventUpdateType"})), When({"event_type"},
       Members("BossEventUpdateType", {"PLAYER_ADDED", "PLAYER_REMOVED", "QUERY"}),
       Field({"ActorUniqueID"})),
       When({"event_type"}, Members("BossEventUpdateType", {"ADD", "UPDATE_NAME"}), Field({})),
       Since(776, When({"event_type"}, Members("BossEventUpdateType", {"ADD", "UPDATE_NAME"}),
       Field({}))), When({"event_type"}, Members("BossEventUpdateType", {"ADD", "UPDATE_PERCENT"}),
       Field({})), When({"event_type"}, Members("BossEventUpdateType", {"ADD",
       "UPDATE_PROPERTIES"}), Field({})), When({"event_type"}, Members("BossEventUpdateType",
       {"ADD", "UPDATE_PROPERTIES"}), Field({})), When({"event_type"},
       Members("BossEventUpdateType", {"ADD", "UPDATE_PROPERTIES", "UPDATE_STYLE"}),
       Field({"BossBarColor"})), When({"event_type"}, Members("BossEventUpdateType", {"ADD",
       "UPDATE_PROPERTIES", "UPDATE_STYLE"}), Field({"BossBarOverlay"}))>>), Over(1001, Open,
       <<Field({"ActorUniqueID"}), Until(2193, Field({"ActorUniqueID"})),
       Field({"BossEventUpdateType"}), Since(776, Field({})),
       Field({"BossBarColor", "BossBarOverlay"})>>)>>) >>

BossModule ==
  Module("protocol.boss", {"protocol", "protocol.actor"}, {}, BossFromBossEventUpdateType)

-----------------------------------------------------------------------------
(* protocol/camera.py                                                      *)

CameraFromScheme ==
  << Enum("Scheme", <<Based("uint8", Body(<<Is(0, 5)>>))>>),
     Enum("TargetMode", <<Based("uint8", Over(766, Open, <<Is(0, 2)>>))>>),
     Struct("CameraAimAssistCommandPresetDefinition", <<Over(766, Open,
       <<Field({"TargetMode", "Vec2"})>>)>>),
     EnumIn(<<"CameraPreset">>, "AudioListener", Repeated(1, Based("uint8", Body(<<Is(0, 2)>>)))),
     Struct("CameraPreset", Once(<<Since(748, Field({"Vec2"})), Since(766, Field({})),
       Field({"Vec2", "Vec3"}), Since(776, Field({})), Field({"AudioListener"}),
       Gated(748, 818, Field({})), Since(766, Field({"CameraAimAssistCommandPresetDefinition"})),
       Since(800, Field({"Scheme"})), Since(2193, Field({"Vec2"}))>>)),
     Struct("CameraPresets", Once(<<Field({"CameraPreset"})>>)),
     Packet("CameraPresetsPacket", 198, Once(<<Field({"CameraPresets"})>>)),
     Packet("CameraPacket", 73, Once(<<Field({"ActorUniqueID"})>>)),
     Enum("CameraShakeType", <<Based("uint8", Body(<<Is(0, 2)>>))>>),
     Enum("CameraShakeAction", <<Based("uint8", Body(<<Is(0, 2)>>))>>),
     Packet("CameraShakePacket", 159, Once(<<Field({"CameraShakeAction", "CameraShakeType"})>>)),
     StructIn(<<"CameraAimAssistActorPriority">>, "PriorityData", Repeated(1, Body(<<>>))),
     Struct("CameraAimAssistActorPriority", Once(<<>>)),
     Packet("CameraAimAssistActorPriorityPacket", 339, <<Over(924, Open,
       <<FieldOf({<<"CameraAimAssistActorPriority", "PriorityData">>})>>)>>),
     Enum("ClientCameraAimAssistPacketAction", <<Based("uint8", Over(776, Open, <<Is(0, 2),
       Autos(1)>>))>>),
     Packet("ClientCameraAimAssistPacket", 321, <<Over(776, Open,
       <<Field({"ClientCameraAimAssistPacketAction"})>>)>>),
     EnumIn(<<"CameraAimAssistPacket">>, "Action", Repeated(1, Based("uint8", Body(<<Is(0, 2),
       Autos(1)>>)))),
     EnumIn(<<"CameraAimAssistPacket">>, "TargetMode", Repeated(1, Based("uint8", Body(<<Is(0, 2),
       Autos(1)>>)))),
     Packet("CameraAimAssistPacket", 316, Once(<<Since(766, Field({})),
       Field({"Action", "TargetMode", "Vec2"}), Since(827, Field({}))>>)),
     Struct("CameraAimAssistCategoryPriorities", <<Over(766, Open, <<Since(898, Field({})),
       Since(924, Field({}))>>)>>),
     Struct("CameraAimAssistCategoryDefinition", <<Over(766, Open,
       <<Field({"CameraAimAssistCategoryPriorities"})>>)>>) >>

CameraFromCameraAimAssistPresetExclusionDefinition ==
  << Struct("CameraAimAssistPresetExclusionDefinition", <<Over(898, Open,
    <<Since(924, Field({}))>>)>>),
     Struct("CameraAimAssistPresetDefinition", <<Over(766, Open, <<Until(776, Field({})),
       Until(898, Field({})), Since(898, Field({"CameraAimAssistPresetExclusionDefinition"}))>>)>>),
     Enum("CameraAimAssistPresetsPacketOperation", <<Based("uint8", Over(776, Open,
       <<Is(0, 2)>>))>>),
     Packet("CameraAimAssistPresetsPacket", 320, <<Over(766, 776,
       <<Field({"CameraAimAssistCategoriesDefinition", "CameraAimAssistPresetDefinition"})>>),
       Over(776, Open, <<Field({"CameraAimAssistCategoryDefinition",
       "CameraAimAssistPresetDefinition", "CameraAimAssistPresetsPacketOperation"})>>)>>),
     Enum("SplineType", <<Based("uint8", Body(<<Is(0, 2)>>))>>),
     StructIn(<<"CameraInstructionOptions", "SetInstruction">>, "EaseOption", Repeated(1,
       Body(<<Typed(Field({"EasingType"}))>>))),
     StructIn(<<"CameraInstructionOptions", "SetInstruction">>, "PosOption", Repeated(1,
       Body(<<Field({"Vec3"})>>))),
     StructIn(<<"CameraInstructionOptions", "SetInstruction">>, "RotOption", Repeated(1,
       Body(<<>>))),
     StructIn(<<"CameraInstructionOptions", "SetInstruction">>, "FacingOption", Repeated(1,
       Body(<<Field({"Vec3"})>>))),
     StructIn(<<"CameraInstructionOptions", "SetInstruction">>, "ViewOffsetOption", Repeated(1,
       Body(<<>>))),
     StructIn(<<"CameraInstructionOptions", "SetInstruction">>, "EntityOffsetOption", Repeated(1,
       Body(<<>>))),
     StructIn(<<"CameraInstructionOptions">>, "SetInstruction", Repeated(1,
       Body(<<Field({"EaseOption", "FacingOption", "PosOption", "RotOption", "ViewOffsetOption"}),
       Since(748, Field({"EntityOffsetOption"})), Since(818, Field({}))>>))),
     StructIn(<<"CameraInstructionOptions", "FadeInstruction">>, "TimeOption", Repeated(1,
       Body(<<>>))),
     StructIn(<<"CameraInstructionOptions", "FadeInstruction">>, "ColorOption", Repeated(1,
       Body(<<>>))),
     StructIn(<<"CameraInstructionOptions">>, "FadeInstruction", Repeated(1,
       Body(<<Field({"ColorOption", "TimeOption"})>>))),
     StructIn(<<"CameraInstructionOptions">>, "TargetInstruction", Repeated(1,
       Body(<<Field({"Vec3"}), Typed(Field({"ActorUniqueID"}))>>))),
     StructIn(<<"CameraInstructionOptions">>, "FovInstruction", Repeated(1,
       Body(<<Typed(Field({"EasingType"}))>>))),
     StructIn(<<"CameraInstructionOptions">>, "AttachToEntityInstruction", Repeated(1,
       Body(<<Typed(Field({"ActorUniqueID"}))>>))),
     StructIn(<<"CameraInstructionOptions", "SplineInstruction">>, "SplineRotationOption", <<In(1,
       Body(<<Field({"Vec3"})>>)), In(2, Body(<<Field({"Vec3"}),
       Typed(Field({"EasingType"}))>>))>>),
     StructIn(<<"CameraInstructionOptions", "SplineInstruction">>, "SplineProgressOption", <<In(2,
       Body(<<Typed(Field({"EasingType"}))>>))>>),
     StructIn(<<"CameraInstructionOptions">>, "SplineInstruction", <<In(1, Over(0, 924,
       <<Field({"SplineRotationOption", "SplineType", "Vec2", "Vec3"})>>)), In(1, Over(924, Open,
       <<Field({"SplineProgressOption", "SplineRotationOption", "SplineType", "Vec3"}),
       Since(944, Field({}))>>))>>),
     Struct("CameraInstructionOptions", Once(<<>>)),
     Struct("CameraInstruction", Once(<<FieldOf({<<"CameraInstructionOptions", "FadeInstruction">>,
       <<"CameraInstructionOptions", "SetInstruction">>, <<"CameraInstructionOptions",
       "TargetInstruction">>}),
       Since(827, FieldOf({<<"CameraInstructionOptions", "FovInstruction">>})), Since(859,
       FieldOf({<<"CameraInstructionOptions", "AttachToEntityInstruction">>,
       <<"CameraInstructionOptions", "SplineInstruction">>}))>>)) >>

CameraFromCameraInstructionPacket ==
  << Packet("CameraInstructionPacket", 300, Once(<<Field({"CameraInstruction"})>>)),
     Struct("CameraSplineControlPoint", Once(<<Field({"Vec3"})>>)),
     Struct("CameraSplineProgressKeyFrame", Once(<<Typed(Field({"EasingType"}))>>)),
     Struct("CameraSplineRotationKeyFrame", Once(<<Field({"Vec3"}),
       Typed(Field({"EasingType"}))>>)),
     Struct("CameraSplineDefinition", Once(<<Field({"CameraSplineControlPoint",
       "CameraSplineProgressKeyFrame", "CameraSplineRotationKeyFrame"})>>)),
     Packet("CameraSplinePacket", 338, <<Over(924, Open, <<Field({"CameraSplineDefinition"})>>)>>),
     Packet("ClientboundControlSchemeSetPacket", 327, <<Over(800, Open, <<Field({"Scheme"})>>)>>),
     Struct("CameraAimAssistCategoriesDefinition", <<Over(766, 776,
       <<Field({"CameraAimAssistCategoryDefinition"})>>)>>) >>

CameraModule ==
  Module("protocol.camera", {"protocol", "protocol.actor", "protocol.common", "protocol.eas"}, {},
    CameraFromScheme \o CameraFromCameraAimAssistPresetExclusionDefinition \o
    CameraFromCameraInstructionPacket)

-----------------------------------------------------------------------------
(* protocol/command.py                                                     *)

CommandFromCommandPermissionLevel ==
  << Enum("CommandPermissionLevel", <<Based("uint8", Body(<<Is(0, 6)>>))>>),
     Packet("SettingsCommandPacket", 140, Once(<<>>)),
     StructIn(<<"AvailableCommandsPacket">>, "EnumData", Repeated(1, Body(<<>>))),
     StructIn(<<"AvailableCommandsPacket">>, "ChainedSubcommandRelationship", Repeated(1,
       Body(<<>>))),
     StructIn(<<"AvailableCommandsPacket">>, "ChainedSubcommandData", Repeated(1,
       Body(<<Field({"ChainedSubcommandRelationship"})>>))),
     StructIn(<<"AvailableCommandsPacket">>, "SoftEnumData", Repeated(1, Body(<<>>))),
     StructIn(<<"AvailableCommandsPacket">>, "ConstrainedValueData", Repeated(1, Body(<<>>))),
     StructIn(<<"AvailableCommandsPacket">>, "ParamData", Repeated(1, Body(<<>>))),
     StructIn(<<"AvailableCommandsPacket">>, "OverloadData", Repeated(1,
       Body(<<Field({"ParamData"})>>))),
     StructIn(<<"AvailableCommandsPacket">>, "CommandData", Repeated(1,
       Body(<<Typed(Field({"CommandPermissionLevel"})), Field({"OverloadData"})>>))),
     Packet("AvailableCommandsPacket", 76, Once(<<Field({"ChainedSubcommandData", "CommandData",
       "ConstrainedValueData", "EnumData", "SoftEnumData"})>>)),
     Enum("CommandBlockMode", <<Based("uint16", Body(<<Is(0, 3)>>))>>),
     StructIn(<<"CommandBlockUpdatePacket">>, "EntityCommandTarget", Repeated(3,
       Body(<<Field({"ActorRuntimeID"})>>))),
     StructIn(<<"CommandBlockUpdatePacket">>, "BlockCommandData", <<In(1,
       Body(<<Field({"CommandBlockMode", "NetworkBlockPosition"})>>)), In(2,
       Body(<<Field({"BlockPos", "CommandBlockMode"})>>)), In(3,
       Body(<<Field({"BlockPos", "CommandBlockMode"})>>))>>),
     Packet("CommandBlockUpdatePacket", 78, <<Over(0, 944,
       <<Field({"BlockCommandData", "EntityCommandTarget"}), Since(776, Field({}))>>), Over(944,
       2168, <<Field({"BlockCommandData", "EntityCommandTarget"}), Since(776, Field({}))>>),
       Over(2168, Open, <<Field({"BlockCommandData", "EntityCommandTarget"}),
       Since(776, Field({}))>>)>>) >>

CommandFromCommandOriginType ==
  << Enum("CommandOriginType", <<Based("uint8", Body(<<Is(0, 16)>>))>>),
     Struct("CommandOriginData", Once(<<Typed(Field({"ActorUniqueID", "CommandOriginType"}))>>)),
     Enum("CurrentCmdVersion", Once(<<Is(-1, 1), Is(1, 34), Is(34, 2), Is(35, 8),
       Since(786, Is(43, 1)), Since(818, Is(44, 1)), Since(898, Is(45, 1)), Since(975, Is(46, 1)),
       Since(1001, Is(47, 3)), Since(2168, Is(50, 1)), Since(2193, Is(51, 2)),
       Since(2225, Is(53, 3)), Named("COUNT", Autos(1)), Of("COUNT", -1)>>)),
     Packet("CommandRequestPacket", 77, Once(<<Field({"CommandOriginData"}),
       Typed(Field({"CurrentCmdVersion"}))>>)),
     Enum("CommandOutputType", Once(<<Is(0, 5)>>)),
     Struct("CommandOutputMessage", Once(<<>>)),
     Struct("CommandOutput", Once(<<Typed(Field({"CommandOutputType"})),
       Field({"CommandOutputMessage"})>>)),
     Packet("CommandOutputPacket", 79, Once(<<Field({"CommandOriginData", "CommandOutput"})>>)),
     Enum("SoftEnumUpdateType", <<Based("uint8", Body(<<Is(0, 3)>>))>>),
     Packet("UpdateSoftEnumPacket", 114, Once(<<Field({"SoftEnumUpdateType"})>>)),
     Enum("PlayerPermissionLevel", <<Based("int8", Body(<<Is(0, 4)>>))>>) >>

CommandModule ==
  Module("protocol.command", {"protocol", "protocol.actor", "protocol.common", "protocol.network"},
    {}, CommandFromCommandPermissionLevel \o CommandFromCommandOriginType)

-----------------------------------------------------------------------------
(* protocol/common.py                                                      *)

CommonFromVec2 ==
  << Struct("Vec2", Once(<<>>)),
     Struct("Vec3", Once(<<>>)),
     Struct("BlockPos", Once(<<>>)) >>

CommonModule ==
  Module("protocol.common", {"protocol"}, {[name |-> "BlockRuntimeId", refs |-> {}], [name |->
    "Color", refs |-> {}], [name |-> "DimensionType", refs |-> {}]}, CommonFromVec2)

-----------------------------------------------------------------------------
(* protocol/eas.py                                                         *)

EasFromColor255RGBA ==
  << Struct("Color255RGBA", Once(<<>>)),
     Enum("BoolAttributeOperation", Once(<<Is(0, 8)>>)),
     Enum("FloatAttributeOperation", Once(<<Is(0, 7)>>)),
     Enum("ColorAttributeOperation", Once(<<Is(0, 5)>>)),
     Enum("EasingType", <<Based("uint32", Body(<<Is(0, 32)>>))>>),
     Enum("NoiseAlignmentType", <<Based("uint8", Over(2193, Open, <<Is(0, 1)>>))>>),
     Struct("NoiseAlignment", <<Over(2193, Open, <<Field({"NoiseAlignmentType"})>>)>>),
     Struct("BoolAttributeData", Once(<<Typed(Field({"BoolAttributeOperation"}))>>)),
     Struct("FloatAttributeData", Once(<<Typed(Field({"FloatAttributeOperation"}))>>)),
     Struct("ColorAttributeData", Once(<<Field({"Color255RGBA"}),
       Typed(Field({"ColorAttributeOperation"}))>>)),
     Struct("ConstantAttributeData", <<Over(2225, Open, <<Field({"AttributeDataVariant"})>>)>>),
     Struct("TransitionSettingsData", <<Over(2225, Open, <<Field({"EasingType"})>>)>>),
     Struct("TransitionAttributeData", <<Over(2225, Open,
       <<Field({"AttributeDataVariant", "TransitionSettingsData"})>>)>>),
     Struct("NoiseTransitionSettingsData", <<Over(2225, Open,
       <<Field({"EasingType", "NoiseAlignment"})>>)>>),
     Struct("NoiseTransitionAttributeData", <<Over(2225, Open,
       <<Field({"AttributeDataVariant", "NoiseTransitionSettingsData"})>>)>>) >>

EasFromEnvironmentAttributeData ==
  << Struct("EnvironmentAttributeData", <<Over(0, 2225, <<Field({"AttributeDataVariant"}),
    Typed(Field({"EasingType"})), Since(1001, Field({})), Since(2193, Field({"NoiseAlignment"}))>>),
    Over(2225, Open, <<Field({"AttributeDataPayload"})>>)>>),
     Struct("AttributeLayerSettings", <<Over(0, 975, <<>>), Over(975, Open, <<>>)>>),
     Struct("AttributeLayerData", Once(<<Gated(1001, 2225, Field({})),
       Field({"AttributeLayerSettings", "DimensionType", "EnvironmentAttributeData"})>>)),
     Struct("UpdateAttributeLayersData", Once(<<Field({"AttributeLayerData"})>>)),
     Struct("UpdateAttributeLayerSettingsData",
       Once(<<Field({"AttributeLayerSettings", "DimensionType"})>>)),
     Struct("UpdateEnvironmentAttributesData",
       Once(<<Field({"DimensionType", "EnvironmentAttributeData"})>>)),
     Struct("RemoveEnvironmentAttributesData", Once(<<Field({"DimensionType"})>>)),
     Packet("ClientboundAttributeLayerSyncPacket", 345, <<Over(944, Open,
       <<Field({"RemoveEnvironmentAttributesData", "UpdateAttributeLayerSettingsData",
       "UpdateAttributeLayersData", "UpdateEnvironmentAttributesData"})>>)>>) >>

EasModule ==
  Module("protocol.eas", {"protocol", "protocol.common"}, {[name |-> "AttributeDataVariant", refs
    |-> {<<"BoolAttributeData">>, <<"ColorAttributeData">>, <<"FloatAttributeData">>}], [name |->
    "AttributeDataPayload", refs |-> {<<"ConstantAttributeData">>,
    <<"NoiseTransitionAttributeData">>, <<"TransitionAttributeData">>}]}, EasFromColor255RGBA \o
    EasFromEnvironmentAttributeData)

-----------------------------------------------------------------------------
(* protocol/game.py                                                        *)

GameFromGameType ==
  << Enum("GameType", Once(<<Is(-1, 4), Is(5, 2), Is(0, 1)>>)),
     Enum("Difficulty", Once(<<Is(0, 6)>>)),
     Enum("GeneratorType", Once(<<Is(0, 7)>>)),
     Enum("NetherWorldType", <<Based("bool", Body(<<Is(0, 2)>>))>>),
     Enum("SpawnBiomeType", <<Based("int16", Body(<<Is(0, 2)>>))>>),
     Enum("WorldType", Once(<<Is(0, 3), Since(800, Is(3, 1))>>)),
     Enum("EditorLevelMigrationVersion", <<Based("int8", Body(<<Is(0, 2)>>))>>),
     Enum("EducationEditionOffer", <<Based("uint32", Body(<<Is(0, 3)>>))>>),
     Enum("ChatRestrictionLevel", <<Based("uint8", Body(<<Is(0, 3)>>))>>),
     Struct("SpawnSettings", Once(<<Typed(Field({"SpawnBiomeType"})), Field({"DimensionType"})>>)),
     Struct("GameRulesChangedPacketData", Once(<<Field({"GameRule"})>>)),
     Struct("ExperimentToggle", Once(<<>>)),
     Struct("Experiments", Once(<<Field({"ExperimentToggle"})>>)),
     Struct("SyncedPlayerMovementSettings",
       Once(<<Until(818, Typed(Field({"ServerAuthMovementMode"})))>>)),
     Struct("BlockEntry", Once(<<Field({"CompoundTag"})>>)),
     Struct("ServerBlockProperty", <<Over(2168, Open, <<Field({"CompoundTag"})>>)>>) >>

GameFromLevelSettings ==
  << Struct("LevelSettings", <<Over(0, 944, <<Field({"Difficulty", "GameType", "GeneratorType",
    "NetworkBlockPosition", "SpawnSettings", "WorldType"}), Typed(Field({"EducationEditionOffer"})),
    Field({"GamePublishSetting"}), Legacy(Field({"GameRule"})), Field({"ExperimentToggle"}),
    Typed(Field({"PlayerPermissionLevel"})),
    Field({"ChatRestrictionLevel", "EduSharedUriResource", "NetherWorldType"}),
    Since(1001, Field({"ServerEditorConnectionPolicy"})), Until(924, Field({})),
    Gated(818, 924, Field({}))>>), Over(944, 2168, <<Field({"BlockPos", "Difficulty", "GameType",
    "GeneratorType", "SpawnSettings", "WorldType"}), Typed(Field({"EducationEditionOffer"})),
    Field({"GamePublishSetting"}), Legacy(Field({"GameRule"})), Field({"ExperimentToggle"}),
    Typed(Field({"PlayerPermissionLevel"})),
    Field({"ChatRestrictionLevel", "EduSharedUriResource", "NetherWorldType"}),
    Since(1001, Field({"ServerEditorConnectionPolicy"}))>>), Over(2168, Open, <<Field({"BlockPos",
    "Difficulty", "GameType", "GeneratorType", "SpawnSettings", "WorldType"}),
    Since(2225, Field({"EditorLevelMigrationVersion"})), Field({"ChatRestrictionLevel",
    "EduSharedUriResource", "EducationEditionOffer", "Experiments", "GamePublishSetting",
    "GameRulesChangedPacketData", "NetherWorldType", "PlayerPermissionLevel",
    "ServerEditorConnectionPolicy"})>>)>>) >>

GameFromStartGamePacket ==
  << Packet("StartGamePacket", 11, <<Over(0, 2168, <<Field({"ActorRuntimeID", "ActorUniqueID",
    "BlockEntry", "GameType", "LevelSettings", "SyncedPlayerMovementSettings", "Vec2", "Vec3"}),
    Until(776, Field({"StartGameItemEntry"})), Field({"CompoundTag"}), Gated(827, 898, Field({})),
    Field({"NetworkPermissions"}), Since(1001, Field({})),
    Since(924, Field({"ServerConfigurationJoinInfo", "ServerTelemetryData"}))>>), Over(2168, Open,
    <<Field({"ActorRuntimeID", "ActorUniqueID", "CompoundTag", "GameType", "LevelSettings",
    "NetworkPermissions", "ServerBlockProperty", "ServerConfigurationJoinInfo",
    "ServerTelemetryData", "SyncedPlayerMovementSettings", "Vec2", "Vec3"})>>)>>),
     Packet("GameRulesChangedPacket", 72, Once(<<Field({"GameRulesChangedPacketData"})>>)),
     Packet("SetCommandsEnabledPacket", 59, Once(<<>>)),
     Packet("SetDifficultyPacket", 60, Once(<<Typed(Field({"Difficulty"}))>>)),
     Packet("SetPlayerGameTypePacket", 62, Once(<<Field({"GameType"})>>)),
     EnumIn(<<"ShowCreditsPacket">>, "CreditsState", Repeated(1, Body(<<Is(0, 2)>>))),
     Packet("ShowCreditsPacket", 75, Once(<<Field({"ActorRuntimeID", "CreditsState"})>>)),
     Packet("SetDefaultGameTypePacket", 105, Once(<<Field({"GameType"})>>)),
     Enum("MultiplayerSettingsPacketType", Once(<<Is(0, 3)>>)),
     Packet("MultiplayerSettingsPacket", 139, Once(<<Field({"MultiplayerSettingsPacketType"})>>)),
     Packet("UpdatePlayerGameTypePacket", 151,
       Once(<<Field({"ActorUniqueID", "GameType", "PlayerInputTick"})>>)),
     Enum("SimulationType", <<Based("uint8", Body(<<Is(0, 4)>>))>>),
     Packet("SimulationTypePacket", 168, Once(<<Field({"SimulationType"})>>)),
     Struct("GameRule", <<Over(0, 844, <<>>), Over(844, Open, <<>>)>>),
     PreCereal(Struct("GameRule", <<Over(0, 2168, <<>>)>>)) >>

GameFromStartGameItemEntry ==
  << Struct("StartGameItemEntry", <<Over(0, 776, <<>>)>>) >>

GameModule ==
  Module("protocol.game", {"protocol", "protocol.actor", "protocol.command", "protocol.common",
    "protocol.edu", "protocol.movement", "protocol.nbt", "protocol.network", "protocol.presence"},
    {}, GameFromGameType \o GameFromLevelSettings \o GameFromStartGamePacket \o
    GameFromStartGameItemEntry)

-----------------------------------------------------------------------------
(* protocol/input.py                                                       *)

InputFromInputMode ==
  << Enum("InputMode", <<Based("uint32", Body(<<Is(0, 5), Autos(1)>>))>>),
     Enum("ClientPlayMode", <<Based("uint32", Body(<<Is(0, 4),
       Named("REALITY_DEPRECATED", Is(4, 1)), Is(5, 4), Autos(1)>>))>>),
     Enum("NewInteractionModel", Once(<<Is(0, 3), Autos(1)>>)),
     Enum("PlayerActionType", Once(<<Is(-1, 1), Named("START_DESTROY_BLOCK", Is(0, 1)),
       Named("ABORT_DESTROY_BLOCK", Is(1, 1)), Is(2, 16), Named("CRACK_BLOCK", Is(18, 1)),
       Is(19, 7), Named("PREDICT_DESTROY_BLOCK", Is(26, 1)),
       Named("CONTINUE_DESTROY_BLOCK", Is(27, 1)), Is(28, 9), Since(748, Is(37, 1)),
       Since(2168, Is(38, 1)), Autos(1)>>)),
     Struct("PlayerBlockActionData", <<Over(0, 2168,
       <<Named("player_action_type", Field({"PlayerActionType"})), When({"player_action_type"},
       Members("PlayerActionType", {"ABORT_DESTROY_BLOCK", "CONTINUE_DESTROY_BLOCK", "CRACK_BLOCK",
       "PREDICT_DESTROY_BLOCK", "START_DESTROY_BLOCK"}), Field({"BlockPos"})),
       When({"player_action_type"}, Members("PlayerActionType", {"ABORT_DESTROY_BLOCK",
       "CONTINUE_DESTROY_BLOCK", "CRACK_BLOCK", "PREDICT_DESTROY_BLOCK", "START_DESTROY_BLOCK"}),
       Field({}))>>), Over(2168, Open, <<Field({"BlockPos", "PlayerActionType"})>>)>>),
     Struct("PackedItemUseLegacyInventoryTransaction", <<Over(0, 2168, <<Named("id", Field({})),
       When({"id"}, {}, Field({"LegacySetSlot"})),
       Legacy(Field({"ItemUseInventoryTransaction"}))>>), Over(2168, Open,
       <<Field({"ItemStackLegacyRequestId", "LegacySetSlot"}), Until(2193, Field({})),
       Field({"ItemUseInventoryTransaction"})>>)>>) >>

InputFromPlayerAuthInputPacket ==
  << EnumIn(<<"PlayerAuthInputPacket">>, "InputData", <<In(1, Based("uint32", Body(<<Is(0, 34),
    Named("PERFORM_ITEM_INTERACTION", Is(34, 1)), Named("PERFORM_BLOCK_ACTIONS", Is(35, 1)),
    Named("PERFORM_ITEM_STACK_REQUEST", Is(36, 1)), Is(37, 8),
    Named("IS_IN_CLIENT_PREDICTED_VEHICLE", Is(45, 1)), Is(46, 7), Since(748, Is(53, 5)),
    Since(766, Is(58, 7)), Named("INPUT_NUM", Autos(1))>>))), In(2, Body(<<Is(0, 34),
    Named("PERFORM_ITEM_INTERACTION", Is(34, 1)), Named("PERFORM_BLOCK_ACTIONS", Is(35, 1)),
    Named("PERFORM_ITEM_STACK_REQUEST", Is(36, 1)), Is(37, 8),
    Named("IS_IN_CLIENT_PREDICTED_VEHICLE", Is(45, 1)), Is(46, 20),
    Named("INPUT_NUM", Autos(1))>>))>>),
     Packet("PlayerAuthInputPacket", 144, <<Over(0, 2168, <<Field({"Vec2", "Vec3"}),
       Named("input_data", Width(Members("InputData", {"INPUT_NUM"}), Field({}))),
       Field({"InputMode"}), Named("play_mode", Field({"ClientPlayMode"})),
       Typed(Field({"NewInteractionModel"})), Until(748, When({"play_mode"},
       Members("ClientPlayMode", {"REALITY_DEPRECATED"}), Field({"Vec3"}))),
       Since(748, Field({"Vec2"})), Field({"PlayerInputTick", "Vec3"}), When({"input_data"},
       Members("InputData", {"PERFORM_ITEM_INTERACTION"}),
       Field({"PackedItemUseLegacyInventoryTransaction"})), When({"input_data"},
       Members("InputData", {"PERFORM_ITEM_STACK_REQUEST"}), Field({"ItemStackRequestData"})),
       When({"input_data"}, Members("InputData", {"PERFORM_BLOCK_ACTIONS"}),
       Field({"PlayerBlockActionData"})), When({"input_data"}, Members("InputData",
       {"IS_IN_CLIENT_PREDICTED_VEHICLE"}), Field({"Vec2"})), When({"input_data"},
       Members("InputData", {"IS_IN_CLIENT_PREDICTED_VEHICLE"}), Field({"ActorUniqueID"})),
       Field({"Vec2"}), Since(748, Field({"Vec3"})), Since(766, Field({"Vec2"}))>>), Over(2168,
       Open, <<Field({"Vec2", "Vec3"}), Until(2193, Field({})), Field({"ClientPlayMode",
       "InputData", "InputMode", "NewInteractionModel", "PlayerInputTick", "Vec2", "Vec3"}),
       Until(2193, Field({})), Field({"PackedItemUseLegacyInventoryTransaction"}),
       Until(2193, Field({})), FieldOf({<<"ItemStackRequestCereal", "RequestData">>}),
       Until(2193, Field({})), Field({"PlayerBlockActionData"}), Until(2193, Field({})),
       Field({"Vec2"}), Until(2193, Field({})), Field({"ActorUniqueID", "Vec2", "Vec3"})>>)>>) >>

InputFromPlayerActionPacket ==
  << Packet("PlayerActionPacket", 36, <<Over(0, 944,
    <<Field({"ActorRuntimeID", "NetworkBlockPosition", "PlayerActionType"})>>), Over(944, Open,
    <<Field({"ActorRuntimeID", "BlockPos", "PlayerActionType"})>>)>>),
     Packet("UpdateClientInputLocksPacket", 196, Once(<<Until(944, Field({"Vec3"}))>>)),
     Packet("PassengerJumpPacket", 20, <<Over(0, 800, <<>>)>>),
     Packet("PlayerInputPacket", 57, <<Over(0, 800, <<Field({"Vec2"})>>)>>) >>

InputModule ==
  Module("protocol.input", {"protocol", "protocol.actor", "protocol.common", "protocol.item",
    "protocol.item_stack", "protocol.network", "protocol.transaction"}, {}, InputFromInputMode \o
    InputFromPlayerAuthInputPacket \o InputFromPlayerActionPacket)

-----------------------------------------------------------------------------
(* protocol/molang.py                                                      *)

MolangFromMolangVersion ==
  << Enum("MolangVersion", <<Based("int16", Body(<<Is(-1, 14), Since(827, Is(13, 1)),
    Named("NUM_VALID_VERSIONS", Autos(1)), Named("LATEST", Of("NUM_VALID_VERSIONS", -1)),
    Of("LATEST", 0)>>))>>),
     Enum("ExpressionOp", <<Based("int16", Body(<<Is(-1, 78), Since(800, Is(77, 1)),
       Since(859, Is(78, 31)), Autos(1)>>))>>) >>

MolangModule ==
  Module("protocol.molang", {"protocol"}, {}, MolangFromMolangVersion)

-----------------------------------------------------------------------------
(* protocol/scoreboard.py                                                  *)

ScoreboardFromScoreboardId ==
  << Struct("ScoreboardId", Once(<<>>)),
     Struct("PlayerScoreboardId", Once(<<Field({"ActorUniqueID"})>>)),
     EnumIn(<<"IdentityDefinition">>, "Type", Repeated(1, Based("uint8", Body(<<Is(0, 1),
       Named("PLAYER", Is(1, 1)), Named("ENTITY", Is(2, 1)), Named("FAKE_PLAYER", Is(3, 1))>>)))),
     Struct("IdentityDefinition", Once(<<>>)),
     Enum("ScorePacketType", <<Based("uint8", Body(<<Named("CHANGE", Is(0, 1)),
       Named("REMOVE", Is(1, 1))>>))>>),
     Enum("ScorePacketEntryAction", <<Based("uint8", Over(2168, Open, <<Is(0, 4)>>))>>),
     Enum("ScoreboardIdentityPacketType", <<Based("uint8", Body(<<Named("UPDATE", Is(0, 1)),
       Named("REMOVE", Is(1, 1))>>))>>),
     Struct("ScorePacketInfo", Once(<<Field({"ScoreboardId"}),
       Named("identity_type", FieldOf({<<"IdentityDefinition", "Type">>})), When({"identity_type"},
       MembersOf(<<"IdentityDefinition", "Type">>, {"PLAYER"}), Field({"PlayerScoreboardId"})),
       When({"identity_type"}, MembersOf(<<"IdentityDefinition", "Type">>, {"ENTITY"}),
       Field({"ActorUniqueID"})), When({"identity_type"}, MembersOf(<<"IdentityDefinition",
       "Type">>, {"FAKE_PLAYER"}), Field({}))>>)),
     Struct("RemoveScore", <<Over(2168, Open, <<Field({"ScoreboardId"})>>)>>),
     Struct("ChangePlayerScore", <<Over(2168, Open,
       <<Field({"PlayerScoreboardId", "ScoreboardId"})>>)>>),
     Struct("ChangeEntityScore", <<Over(2168, Open,
       <<Field({"ActorUniqueID", "ScoreboardId"})>>)>>),
     Struct("ChangeFakePlayerScore", <<Over(2168, Open, <<Field({"ScoreboardId"})>>)>>),
     Struct("ScoreboardIdentityPacketInfo", <<Over(0, 2168,
       <<Field({"PlayerScoreboardId", "ScoreboardId"})>>), Over(2168, Open,
       <<Field({"ActorUniqueID", "ScoreboardId"})>>)>>),
     StructIn(<<"SetScorePacket">>, "RemovedScorePacketInfo", Repeated(1,
       Body(<<Field({"ScoreboardId"})>>))),
     Packet("SetScorePacket", 108, <<Over(0, 2168, <<Named("type", Field({"ScorePacketType"})),
       When({"type"}, Members("ScorePacketType", {"CHANGE"}), Field({"ScorePacketInfo"})),
       When({"type"}, Members("ScorePacketType", {"REMOVE"}), Field({"RemovedScorePacketInfo"}))>>),
       Over(2168, Open, <<Field({"ChangeEntityScore", "ChangeFakePlayerScore", "ChangePlayerScore",
       "RemoveScore"})>>)>>),
     Packet("SetScoreboardIdentityPacket", 112, <<Over(0, 2168,
       <<Named("type", Field({"ScoreboardIdentityPacketType"})), When({"type"},
       Members("ScoreboardIdentityPacketType", {"UPDATE"}),
       Field({"ScoreboardIdentityPacketInfo"})), When({"type"},
       Members("ScoreboardIdentityPacketType", {"REMOVE"}), Field({"ScoreboardId"}))>>), Over(2168,
       Open, <<Field({"ScoreboardIdentityPacketInfo", "ScoreboardIdentityPacketType"})>>)>>),
     Packet("RemoveObjectivePacket", 106, Once(<<>>)),
     Enum("ObjectiveSortOrder", <<Based("uint8", Body(<<Is(0, 2)>>))>>),
     Packet("SetDisplayObjectivePacket", 107, Once(<<Typed(Field({"ObjectiveSortOrder"}))>>)) >>

ScoreboardModule ==
  Module("protocol.scoreboard", {"protocol", "protocol.actor"}, {}, ScoreboardFromScoreboardId)
=============================================================================
