--------------------------- MODULE ProtocolSession --------------------------
(*************************************************************************)
(* The part of the schema (protocol/) about the session: the packets     *)
(* themselves, packs, forms, scripts and what is reported. Each          *)
(* definition is named for a module, or for a module and the class it    *)
(* starts with: it is the class statements from there to where the next  *)
(* one starts, in the form of Declarations.                              *)
(*************************************************************************)
EXTENDS Declarations

-----------------------------------------------------------------------------
(* protocol/__init__.py                                                    *)

PackageFromBitset ==
  << Struct("bitset", Once(<<>>)),
     Struct("array", Once(<<>>)) >>

PackageModule ==
  Module("protocol", {}, {}, PackageFromBitset)

-----------------------------------------------------------------------------
(* protocol/data_store.py                                                  *)

DataStoreFromDynamicValue ==
  << Struct("DynamicValue", Once(<<>>)),
     Struct("DataStoreUpdate", <<Over(898, 924, <<>>), Over(924, Open, <<>>)>>),
     Struct("DataStoreChange", Once(<<Field({"DynamicValue"})>>)),
     Struct("DataStoreRemoval", Once(<<>>)),
     Packet("ClientboundDataStorePacket", 330, <<Over(898, Open,
       <<Field({"DataStoreChange", "DataStoreRemoval", "DataStoreUpdate"})>>)>>),
     Packet("ServerboundDataStorePacket", 332, <<Over(898, Open, <<Field({"DataStoreUpdate"})>>)>>),
     Packet("DataStoreSyncPacket", 330, <<Over(859, 898,
       <<Field({"DataStoreChange", "DataStoreRemoval"})>>)>>) >>

DataStoreModule ==
  Module("protocol.data_store", {"protocol"}, {}, DataStoreFromDynamicValue)

-----------------------------------------------------------------------------
(* protocol/diagnostics.py                                                 *)

DiagnosticsFromMemoryCategory ==
  << Enum("MemoryCategory", <<Based("uint8", Body(<<Is(0, 1), Autos(4), Until(944, Autos(1)), Autos(2),
    Since(2168, Autos(1)), Autos(35), Since(944, Autos(1)), Autos(1), Since(844, Autos(1)), Autos(9),
    Until(2168, Autos(1)), Since(2168, Autos(3)), Gated(2168, 2193, Autos(1)), Since(2168, Autos(3)),
    Autos(5), Since(2168, Autos(8)), Since(975, Autos(1)), Until(2168, Autos(1)), Since(2168, Autos(2)),
    Since(898, Autos(1)), Autos(6), Until(975, Autos(1)), Autos(4), Since(2168, Autos(1)), Autos(6),
    Since(898, Autos(2)), Since(944, Autos(11)), Since(2168, Autos(2)), Since(2225, Autos(1)),
    Autos(1)>>))>>),
     Struct("MemoryCategoryCounter", <<Over(924, Open, <<Field({"MemoryCategory"})>>)>>),
     Struct("EntityDiagnosticTimingInfo", Once(<<Since(2193, Field({"Vec3"}))>>)),
     Struct("SystemDiagnosticTimingInfo", Once(<<>>)),
     Struct("SystemCategory", <<Over(2168, Open, <<>>)>>) >>

DiagnosticsFromScopeDataSummary ==
  << Struct("ScopeDataSummary", Once(<<>>)),
     Packet("ServerboundDiagnosticsPacket", 315,
       Once(<<Since(924, Field({"MemoryCategoryCounter"})),
       Since(975, Field({"EntityDiagnosticTimingInfo", "SystemDiagnosticTimingInfo"})),
       Since(2168, Field({"SystemCategory"})), Since(1001, Field({"ScopeDataSummary"}))>>)),
     Packet("EditorNetworkPacket", 190, <<Over(0, 944, <<Field({"CompoundTag"})>>), Over(944, Open,
       <<>>)>>),
     Packet("DebugInfoPacket", 155, Once(<<Field({"ActorUniqueID"})>>)),
     EnumIn(<<"ClientboundDebugRendererPacket">>, "PayloadType", Repeated(1, Based("uint8",
       Body(<<Is(0, 3)>>)))),
     StructIn(<<"ClientboundDebugRendererPacket">>, "DebugMarkerData", Repeated(1,
       Body(<<Field({"Color", "Vec3"})>>))),
     Packet("ClientboundDebugRendererPacket", 164, Once(<<Typed(Field({"PayloadType"})),
       Field({"DebugMarkerData"})>>)) >>

DiagnosticsModule ==
  Module("protocol.diagnostics", {"protocol", "protocol.actor", "protocol.common", "protocol.nbt"},
    {}, DiagnosticsFromMemoryCategory \o DiagnosticsFromScopeDataSummary)

-----------------------------------------------------------------------------
(* protocol/edu.py                                                         *)

EduFromEduSharedUriResource ==
  << Struct("EduSharedUriResource", Once(<<>>)),
     Packet("CodeBuilderPacket", 150, Once(<<>>)),
     Enum("LessonAction", <<Based("int8", Body(<<Is(0, 3)>>))>>),
     Packet("LessonProgressPacket", 183, Once(<<Typed(Field({"LessonAction"}))>>)),
     Struct("AgentCapabilities", Once(<<>>)),
     Struct("EducationLocalLevelSettings", Once(<<>>)),
     Struct("ExternalLinkSettings", Once(<<>>)),
     Struct("EducationLevelSettings",
       Once(<<Field({"AgentCapabilities", "EducationLocalLevelSettings", "ExternalLinkSettings"})>>)),
     Packet("EducationSettingsPacket", 137, Once(<<Field({"EducationLevelSettings"})>>)),
     Packet("EduUriResourcePacket", 170, Once(<<Field({"EduSharedUriResource"})>>)),
     Enum("Operation", <<Based("uint8", Body(<<Is(0, 4)>>))>>),
     Enum("Category", <<Based("uint8", Body(<<Is(0, 3)>>))>>),
     Enum("CodeStatus", <<Based("uint8", Body(<<Is(0, 6)>>))>>),
     Packet("CodeBuilderSourcePacket", 178,
       Once(<<Field({"Category", "CodeStatus", "Operation"})>>)),
     Enum("AgentAnimation", <<Based("uint8", Body(<<Is(0, 2)>>))>>),
     Packet("AgentAnimationPacket", 304, Once(<<Field({"ActorRuntimeID", "AgentAnimation"})>>)),
     Enum("AgentActionType", Once(<<Is(1, 18)>>)),
     Packet("AgentActionEventPacket", 181, Once(<<Typed(Field({"AgentActionType"}))>>)) >>

EduModule ==
  Module("protocol.edu", {"protocol", "protocol.actor"}, {}, EduFromEduSharedUriResource)

-----------------------------------------------------------------------------
(* protocol/nbt.py                                                         *)

NbtFromByteTag ==
  << Struct("ByteTag", Once(<<>>)),
     Struct("ShortTag", Once(<<>>)),
     Struct("IntTag", Once(<<>>)),
     Struct("Int64Tag", Once(<<>>)),
     Struct("FloatTag", Once(<<>>)),
     Struct("DoubleTag", Once(<<>>)),
     Struct("ByteArrayTag", Once(<<>>)),
     Struct("StringTag", Once(<<>>)),
     Struct("ListTag", Once(<<>>)),
     Struct("CompoundTag", Once(<<>>)),
     Struct("IntArrayTag", Once(<<>>)) >>

NbtModule ==
  Module("protocol.nbt", {"protocol"}, {}, NbtFromByteTag)

-----------------------------------------------------------------------------
(* protocol/network.py                                                     *)

NetworkFromMinecraftPacketIds ==
  << Enum("MinecraftPacketIds", Once(<<Is(1, 19), Until(800, Is(20, 1)), Is(21, 2),
    Until(786, Is(24, 1)), Is(25, 12), Is(38, 15), Is(54, 1), Is(56, 1), Until(800, Is(57, 1)),
    Is(58, 13), Is(72, 44), Is(118, 2), Until(786, Is(120, 1)), Is(121, 5), Is(129, 5), Is(135, 27),
    Until(776, Is(162, 1)), Since(776, Is(162, 1)), Is(164, 9), Is(174, 23), Is(198, 2),
    Named("TITLE_SPECIFIC_PACKETS_START", Is(200, 1)),
    Named("TITLE_SPECIFIC_PACKETS_END", Is(299, 1)), Is(300, 1), Until(800, Is(301, 1)), Is(302, 9),
    Is(312, 6), Since(748, Is(318, 1)), Gated(748, 818, Is(319, 1)), Since(766, Is(320, 1)),
    Since(776, Is(321, 2)), Since(786, Is(323, 3)), Since(800, Is(326, 2)),
    Gated(818, 859, Is(328, 1)), Gated(859, 975, Is(328, 1)), Since(975, Is(328, 1)),
    Since(844, Is(329, 1)), Gated(859, 898, Is(330, 1)), Since(898, Is(330, 1)),
    Since(859, Is(331, 1)), Since(898, Is(332, 1)), Since(924, Is(333, 1)),
    Gated(924, 944, Is(334, 1)), Since(944, Is(334, 1)), Since(924, Is(335, 5)),
    Since(944, Is(340, 6)), Since(975, Is(346, 2)), Since(1001, Is(348, 3)),
    Since(2193, Is(351, 2)), Since(2225, Is(353, 8)), Named("END_ID", Autos(1))>>)) >>

NetworkFromDisconnectFailReason ==
  << Enum("DisconnectFailReason", Once(<<Is(0, 118), Since(800, Is(118, 1)), Since(818, Is(119, 3)),
    Since(827, Is(122, 1)), Since(859, Is(123, 2)), Since(898, Is(125, 11)), Since(975, Is(136, 4)),
    Since(1001, Is(140, 2)), Since(2168, Is(142, 6)), Since(2193, Is(148, 2)),
    Since(2225, Is(150, 1)), Autos(1)>>)) >>

NetworkFromPacketViolationType ==
  << Enum("PacketViolationType", Once(<<Is(-1, 2)>>)),
     Enum("PacketViolationSeverity", Once(<<Is(-1, 4)>>)),
     Enum("PlayStatus", Once(<<Is(0, 10)>>)),
     Packet("LoginPacket", 1, Once(<<>>)),
     Packet("PlayStatusPacket", 2, Once(<<Typed(Field({"PlayStatus"}))>>)),
     Packet("ServerToClientHandshakePacket", 3, Once(<<>>)),
     Struct("DisconnectPacketMessages", Once(<<>>)),
     Packet("DisconnectPacket", 5,
       Once(<<Field({"DisconnectFailReason", "DisconnectPacketMessages"})>>)),
     Packet("PacketViolationWarningPacket", 156,
       Once(<<Field({"MinecraftPacketIds", "PacketViolationSeverity", "PacketViolationType"})>>)),
     Packet("RequestNetworkSettingsPacket", 193, Once(<<>>)),
     Packet("ClientToServerHandshakePacket", 4, Once(<<>>)),
     Packet("NetworkStackLatencyPacket", 115, Once(<<>>)),
     Packet("ClientCacheStatusPacket", 129, Once(<<>>)),
     Packet("ServerStatsPacket", 192, Once(<<>>)),
     Struct("WebSocketPacketData", Once(<<>>)),
     Packet("AutomationClientConnectPacket", 95, Once(<<Field({"WebSocketPacketData"})>>)),
     Struct("MissingBlobData", Once(<<>>)),
     Packet("ClientCacheMissResponsePacket", 136, Once(<<Field({"MissingBlobData"})>>)),
     Enum("PacketCompressionAlgorithm", <<Based("uint16", Body(<<Is(0, 2), Is(65535, 1)>>))>>) >>

NetworkFromNetworkSettingsPacket ==
  << Packet("NetworkSettingsPacket", 143, Once(<<Typed(Field({"PacketCompressionAlgorithm"}))>>)),
     Packet("SubClientLoginPacket", 94, Once(<<>>)),
     Packet("ClientCacheBlobStatusPacket", 135, <<Over(0, 1001, <<Named("missing_count", Field({})),
       Named("found_count", Field({})), When({"missing_count"}, {}, Field({})),
       When({"found_count"}, {}, Field({}))>>), Over(1001, Open, <<>>)>>),
     Enum("GamePublishSetting", Once(<<Is(0, 5)>>)),
     Enum("ServerEditorConnectionPolicy", Once(<<Is(0, 4)>>)),
     Struct("NetworkPermissions", Once(<<>>)),
     Struct("NetworkBlockPosition", <<Over(0, 944, <<>>)>>) >>

NetworkModule ==
  Module("protocol.network", {"protocol"}, {}, NetworkFromMinecraftPacketIds \o
    NetworkFromDisconnectFailReason \o NetworkFromPacketViolationType \o
    NetworkFromNetworkSettingsPacket)

-----------------------------------------------------------------------------
(* protocol/pack.py                                                        *)

PackFromSemVersion ==
  << Struct("SemVersion", Once(<<>>)),
     Struct("ContentIdentity", Once(<<>>)),
     Struct("PackIdVersion", <<Over(0, 766, <<Field({"SemVersion"})>>), Over(766, Open,
       <<Field({"SemVersion"})>>)>>),
     Struct("PackInfoData", Once(<<Field({"ContentIdentity", "PackIdVersion"}),
       Since(748, Field({}))>>)),
     Enum("ResourcePackResponse", <<Based("int8", Body(<<Is(1, 4)>>))>>),
     Packet("ResourcePacksInfoPacket", 6, <<Over(0, 2168, <<Since(818, Field({})),
       Since(766, Field({"PackIdVersion"})), Field({"PackInfoData"}),
       Until(748, Field({"PackUrl"}))>>), Over(2168, Open,
       <<Field({"PackIdVersion", "PackInfoData"})>>)>>),
     StructIn(<<"ResourcePackClientResponsePacket">>, "Cancel", <<In(2, Body(<<>>))>>),
     StructIn(<<"ResourcePackClientResponsePacket">>, "Downloading", <<In(2, Body(<<>>))>>),
     StructIn(<<"ResourcePackClientResponsePacket">>, "DownloadingFinished", <<In(2, Body(<<>>))>>),
     StructIn(<<"ResourcePackClientResponsePacket">>, "ResourcePackStackFinished", <<In(2,
       Body(<<>>))>>),
     Packet("ResourcePackClientResponsePacket", 8, <<Over(0, 2168,
       <<Field({"ResourcePackResponse"})>>), Over(2168, Open,
       <<Field({"Cancel", "Downloading", "DownloadingFinished", "ResourcePackStackFinished"})>>)>>),
     Packet("ServerboundPackSettingChangePacket", 329, <<Over(844, 2193, <<>>), Over(2193, Open,
       <<>>)>>),
     Struct("PackInstanceId", Once(<<>>)),
     Packet("ResourcePackStackPacket", 7, Once(<<Until(898, Field({"PackInstanceId"})),
       Field({"Experiments", "PackInstanceId"})>>)),
     Enum("PackType", <<Based("int8", Body(<<Is(0, 9), Autos(1)>>))>>),
     Packet("ResourcePackDataInfoPacket", 82, Once(<<Field({"PackType"})>>)) >>

PackFromResourcePackChunkDataPacket ==
  << Packet("ResourcePackChunkDataPacket", 83, Once(<<>>)),
     Packet("ResourcePackChunkRequestPacket", 84, <<Over(0, 2168, <<>>), Over(2168, Open, <<>>)>>),
     Packet("ResourcePacksReadyForValidationPacket", 340, <<Over(944, Open, <<>>)>>),
     Struct("PackUrl", <<Over(0, 748, <<>>)>>) >>

PackModule ==
  Module("protocol.pack", {"protocol", "protocol.game"}, {}, PackFromSemVersion \o
    PackFromResourcePackChunkDataPacket)

-----------------------------------------------------------------------------
(* protocol/presence.py                                                    *)

PresenceFromPresenceConfiguration ==
  << Struct("PresenceConfiguration", <<Over(0, 1001, <<>>), Over(1001, 2168, <<>>), Over(2168, Open,
    <<>>)>>),
     Struct("GatheringsConfigurationJoinInfo", <<Over(0, 944, <<>>), Over(944, 2168, <<>>),
       Over(2168, Open, <<>>)>>),
     Struct("ClientStoreEntryPointConfiguration", Once(<<>>)),
     Struct("ServerConfigurationJoinInfo", Once(<<Field({"GatheringsConfigurationJoinInfo"}),
       Since(944, Field({"ClientStoreEntryPointConfiguration", "PresenceConfiguration"}))>>)),
     Struct("ServerTelemetryData", Once(<<>>)),
     Packet("ServerPresenceInfoPacket", 347, <<Over(975, Open,
       <<Field({"PresenceConfiguration"})>>)>>),
     Packet("TransferPacket", 85,
       Once(<<Since(2168, Field({"GatheringsConfigurationJoinInfo"}))>>)),
     Packet("PartyDestinationCookieResponsePacket", 350, <<Over(1001, Open, <<>>)>>),
     Struct("PlayerPartyInfo", Once(<<>>)),
     Packet("PartyChangedPacket", 342, <<Over(944, 975, <<>>), Over(975, Open,
       <<Field({"PlayerPartyInfo"})>>)>>),
     Enum("PartyDestinationCookieIntent", <<Based("int8", Body(<<Is(0, 3)>>))>>),
     Packet("SendPartyDestinationCookiePacket", 349, <<Over(1001, Open,
       <<Typed(Field({"PartyDestinationCookieIntent"}))>>)>>),
     Enum("MatchmakingState", <<Based("uint8", Body(<<Is(0, 9)>>))>>),
     Struct("MatchmakingStateOptions", Once(<<>>)),
     Packet("ClientboundMatchmakingStatePacket", 353, <<Over(2225, Open,
       <<Field({"MatchmakingState", "MatchmakingStateOptions"})>>)>>),
     Packet("ServerboundMatchmakingCancelPacket", 356, <<Over(2225, Open, <<>>)>>) >>

PresenceModule ==
  Module("protocol.presence", {"protocol"}, {}, PresenceFromPresenceConfiguration)

-----------------------------------------------------------------------------
(* protocol/script.py                                                      *)

ScriptFromScriptMessagePacket ==
  << Packet("ScriptMessagePacket", 177, Once(<<>>)),
     EnumIn(<<"SimpleEventPacket">>, "Subtype", Repeated(1, Based("uint16", Body(<<Is(0, 4)>>)))),
     Packet("SimpleEventPacket", 64, Once(<<Typed(Field({"Subtype"}))>>)),
     Enum("ScriptPrimitiveShapeType", <<Based("uint8", Body(<<Is(0, 6), Since(1001, Is(6, 4)),
       Autos(1)>>))>>),
     Struct("ArrowDataPayload", Once(<<Field({"Vec3"})>>)),
     Struct("TextDataPayload", Once(<<Since(975, Field({"Color"})), Since(2193, Field({})),
       Since(975, Field({}))>>)),
     Struct("BoxDataPayload", Once(<<Field({"Vec3"})>>)),
     Struct("LineDataPayload", Once(<<Field({"Vec3"})>>)),
     Struct("SphereDataPayload", Once(<<>>)),
     Struct("CylinderDataPayload", <<Over(1001, Open, <<Field({"Vec2"})>>)>>),
     Struct("PyramidDataPayload", <<Over(1001, Open, <<>>)>>),
     Struct("EllipsoidDataPayload", <<Over(1001, Open, <<Field({"Vec3"})>>)>>),
     Struct("ConeDataPayload", <<Over(1001, Open, <<Field({"Vec2"})>>)>>) >>

ScriptFromPrimitiveShapeDataPayload ==
  << Struct("PrimitiveShapeDataPayload", <<Over(859, 898, <<Field({"ArrowDataPayload",
    "BoxDataPayload", "Color", "DimensionType", "LineDataPayload", "ScriptPrimitiveShapeType",
    "SphereDataPayload", "TextDataPayload", "Vec3"})>>), Over(898, 975,
    <<Field({"Color", "DimensionType", "ScriptPrimitiveShapeType", "Vec3"}),
    Since(924, Field({"ActorRuntimeID"})), Field({"ArrowDataPayload", "BoxDataPayload",
    "LineDataPayload", "SphereDataPayload", "TextDataPayload"})>>), Over(975, 1001,
    <<Field({"ActorUniqueID", "ArrowDataPayload", "BoxDataPayload", "Color", "DimensionType",
    "LineDataPayload", "ScriptPrimitiveShapeType", "SphereDataPayload", "TextDataPayload",
    "Vec3"})>>), Over(1001, Open, <<Field({"ActorUniqueID", "ArrowDataPayload", "BoxDataPayload",
    "Color", "ConeDataPayload", "CylinderDataPayload", "DimensionType", "EllipsoidDataPayload",
    "LineDataPayload", "PyramidDataPayload", "ScriptPrimitiveShapeType", "SphereDataPayload",
    "TextDataPayload", "Vec3"})>>)>>),
     Packet("PrimitiveShapesPacket", 328, <<Over(975, Open,
       <<Field({"PrimitiveShapeDataPayload"})>>)>>),
     Packet("DebugDrawerPacket", 328, <<Over(859, 975, <<Field({"PrimitiveShapeDataPayload"})>>)>>),
     Struct("PacketShapeData", <<Over(0, 859,
       <<Field({"Color", "ScriptPrimitiveShapeType", "Vec3"})>>)>>),
     Packet("ServerScriptDebugDrawerPacket", 328, <<Over(818, 859,
       <<Field({"PacketShapeData"})>>)>>) >>

ScriptModule ==
  Module("protocol.script", {"protocol", "protocol.actor", "protocol.common"}, {},
    ScriptFromScriptMessagePacket \o ScriptFromPrimitiveShapeDataPayload)

-----------------------------------------------------------------------------
(* protocol/store.py                                                       *)

StoreFromShowProfilePacket ==
  << Packet("ShowProfilePacket", 104, Once(<<>>)),
     Packet("RefreshEntitlementsPacket", 305, Once(<<>>)),
     Enum("ShowStoreOfferRedirectType", <<Based("uint8", Body(<<Is(0, 3), Autos(1)>>))>>),
     Packet("ShowStoreOfferPacket", 91, <<Over(0, 859, <<Field({"ShowStoreOfferRedirectType"})>>),
       Over(859, Open, <<Field({"ShowStoreOfferRedirectType"})>>)>>),
     Packet("PurchaseReceiptPacket", 92, Once(<<>>)),
     Packet("ServerStoreInfoPacket", 346, <<Over(975, Open,
       <<Field({"ClientStoreEntryPointConfiguration"})>>)>>) >>

StoreModule ==
  Module("protocol.store", {"protocol", "protocol.presence"}, {}, StoreFromShowProfilePacket)

-----------------------------------------------------------------------------
(* protocol/telemetry.py                                                   *)

TelemetryFromMinecraftEventing ==
  << EnumIn(<<"MinecraftEventing">>, "InteractionType", Repeated(1, Based("uint8", Body(<<Is(1, 16),
    Since(1001, Is(17, 1))>>)))),
     EnumIn(<<"MinecraftEventing">>, "AchievementIds", Repeated(1, Based("uint8", Body(<<Is(7, 1),
       Is(10, 1), Is(20, 2), Is(29, 2), Is(37, 4), Is(50, 1), Is(52, 3), Is(56, 1), Is(58, 1),
       Is(60, 10), Until(776, Is(70, 1)), Is(71, 42), Since(766, Is(113, 1)),
       Since(818, Is(114, 1)), Since(898, Is(115, 1)), Since(924, Is(116, 1)),
       Since(1001, Is(117, 1)), Since(2168, Is(118, 9)), Since(2225, Is(127, 1)), Autos(1)>>)))),
     EnumIn(<<"MinecraftEventing">>, "POIBlockInteractionType", Repeated(1, Based("uint8",
       Body(<<Is(0, 26)>>)))),
     Struct("MinecraftEventing", Once(<<>>)) >>

TelemetryFromLegacyTelemetryEventPacket ==
  << EnumIn(<<"LegacyTelemetryEventPacket">>, "Type", Repeated(1, Body(<<Is(0, 32)>>))),
     StructIn(<<"LegacyTelemetryEventPacket">>, "Achievement", Repeated(1,
       Body(<<FieldOf({<<"MinecraftEventing", "AchievementIds">>})>>))),
     StructIn(<<"LegacyTelemetryEventPacket">>, "Interaction", Repeated(1,
       Body(<<FieldOf({<<"ActorUniqueID">>, <<"MinecraftEventing", "InteractionType">>})>>))),
     StructIn(<<"LegacyTelemetryEventPacket">>, "PortalCreated", Repeated(1, Body(<<>>))),
     StructIn(<<"LegacyTelemetryEventPacket">>, "PortalUsed", Repeated(1, Body(<<>>))),
     StructIn(<<"LegacyTelemetryEventPacket">>, "MobKilled", Repeated(1,
       Body(<<Field({"ActorType", "ActorUniqueID"})>>))),
     StructIn(<<"LegacyTelemetryEventPacket">>, "CauldronUsed", Repeated(1, Body(<<>>))),
     StructIn(<<"LegacyTelemetryEventPacket">>, "PlayerDied", Repeated(1, Body(<<>>))),
     StructIn(<<"LegacyTelemetryEventPacket">>, "BossKilled", Repeated(1,
       Body(<<Field({"ActorUniqueID"})>>))),
     StructIn(<<"LegacyTelemetryEventPacket">>, "SlashCommand", Repeated(1, Body(<<>>))),
     StructIn(<<"LegacyTelemetryEventPacket">>, "MobBorn", Repeated(1, Body(<<>>))),
     StructIn(<<"LegacyTelemetryEventPacket">>, "POICauldronUsed", Repeated(1,
       Body(<<FieldOf({<<"MinecraftEventing", "POIBlockInteractionType">>})>>))),
     StructIn(<<"LegacyTelemetryEventPacket">>, "ComposterUsed", Repeated(1,
       Body(<<FieldOf({<<"MinecraftEventing", "POIBlockInteractionType">>})>>))),
     StructIn(<<"LegacyTelemetryEventPacket">>, "BellUsed", Repeated(1, Body(<<>>))),
     StructIn(<<"LegacyTelemetryEventPacket">>, "ActorDefinition", Repeated(1, Body(<<>>))),
     StructIn(<<"LegacyTelemetryEventPacket">>, "RaidUpdate", Repeated(1, Body(<<>>))),
     StructIn(<<"LegacyTelemetryEventPacket">>, "TargetBlockHit", Repeated(1, Body(<<>>))),
     StructIn(<<"LegacyTelemetryEventPacket">>, "PiglinBarter", Repeated(1, Body(<<>>))),
     StructIn(<<"LegacyTelemetryEventPacket">>, "PlayerWaxedOrUnwaxedCopper", Repeated(1,
       Body(<<>>))),
     StructIn(<<"LegacyTelemetryEventPacket">>, "CodeBuilderRuntimeAction", Repeated(1,
       Body(<<>>))),
     StructIn(<<"LegacyTelemetryEventPacket">>, "CodeBuilderScoreboard", Repeated(1, Body(<<>>))),
     StructIn(<<"LegacyTelemetryEventPacket">>, "ItemUsed", Repeated(1, Body(<<>>))),
     StructIn(<<"LegacyTelemetryEventPacket">>, "Empty", Repeated(1, Body(<<>>))),
     Packet("LegacyTelemetryEventPacket", 65, Once(<<Field({"Achievement", "ActorDefinition",
       "ActorUniqueID", "BellUsed", "BossKilled", "CauldronUsed", "CodeBuilderRuntimeAction",
       "CodeBuilderScoreboard", "ComposterUsed", "Empty", "Interaction", "ItemUsed", "MobBorn",
       "MobKilled", "POICauldronUsed", "PiglinBarter", "PlayerDied", "PlayerWaxedOrUnwaxedCopper",
       "PortalCreated", "PortalUsed", "RaidUpdate", "SlashCommand", "TargetBlockHit", "Type"})>>))
       >>

TelemetryModule ==
  Module("protocol.telemetry", {"protocol", "protocol.actor"}, {}, TelemetryFromMinecraftEventing \o
    TelemetryFromLegacyTelemetryEventPacket)

-----------------------------------------------------------------------------
(* protocol/text.py                                                        *)

TextFromTextPacketType ==
  << Enum("TextPacketType", <<Based("uint8", Body(<<Is(0, 12)>>))>>),
     StructIn(<<"TextPacket">>, "MessageOnly", Repeated(1, Body(<<Gated(898, 924, Field({})),
       Field({"TextPacketType"})>>))),
     StructIn(<<"TextPacket">>, "AuthorAndMessage", Repeated(1, Body(<<Gated(898, 924, Field({})),
       Field({"TextPacketType"})>>))),
     StructIn(<<"TextPacket">>, "MessageAndParams", Repeated(1, Body(<<Gated(898, 924, Field({})),
       Field({"TextPacketType"})>>))),
     Packet("TextPacket", 9,
       Once(<<Field({"AuthorAndMessage", "MessageAndParams", "MessageOnly"})>>)),
     Packet("ToastRequestPacket", 186, Once(<<>>)),
     EnumIn(<<"SetTitlePacket">>, "TitleType", Repeated(1, Body(<<Is(0, 9)>>))),
     Packet("SetTitlePacket", 88, Once(<<Field({"TitleType"})>>)) >>

TextModule ==
  Module("protocol.text", {"protocol"}, {}, TextFromTextPacketType)

-----------------------------------------------------------------------------
(* protocol/ui.py                                                          *)

UiFromClientboundDataDrivenUIReloadPacket ==
  << Packet("ClientboundDataDrivenUIReloadPacket", 335, <<Over(924, Open, <<>>)>>),
     Enum("HudElement", Once(<<Is(0, 13), Autos(1)>>)),
     Enum("HudVisibility", Once(<<Is(0, 2), Autos(1)>>)),
     Packet("SetHudPacket", 308, <<Over(0, 786, <<Typed(Field({"HudElement", "HudVisibility"}))>>),
       Over(786, Open, <<Field({"HudElement", "HudVisibility"})>>)>>),
     Enum("ServerboundLoadingScreenPacketType", Once(<<Is(0, 3)>>)),
     Packet("ServerboundLoadingScreenPacket", 312,
       Once(<<Field({"ServerboundLoadingScreenPacketType"})>>)),
     Packet("ClientboundDataDrivenUICloseScreenPacket", 334, <<Over(944, Open, <<>>)>>),
     Packet("ClientboundDataDrivenUIShowScreenPacket", 333, <<Over(924, Open,
       <<Since(944, Field({}))>>)>>),
     EnumIn(<<"ClientboundTextureShiftPacket">>, "Action", Repeated(1, Based("uint8",
       Body(<<Is(0, 5)>>)))),
     Packet("ClientboundTextureShiftPacket", 336, <<Over(924, Open, <<Field({"Action"})>>)>>),
     Struct("WorldPosition", Once(<<Field({"DimensionType", "Vec3"})>>)),
     StructIn(<<"WaypointGroup">>, "WaypointHandle", Repeated(1, Body(<<>>))),
     Struct("WaypointGroup", Once(<<>>)),
     StructIn(<<"ServerWaypoint">>, "Payload", <<In(1, Over(0, 975,
       <<Field({"ActorUniqueID", "Color", "WorldPosition"})>>)), In(1, Over(975, Open,
       <<Field({"ActorUniqueID", "Color", "Vec2", "WorldPosition"})>>))>>),
     Struct("ServerWaypoint", Once(<<>>)),
     EnumIn(<<"ServerWaypointGroup">>, "Action", Repeated(1, Based("uint8", Body(<<Is(0, 4)>>)))),
     Struct("ServerWaypointGroup", Once(<<>>)),
     Struct("LocatorBarWaypointPayload", Once(<<FieldOf({<<"ServerWaypoint", "Payload">>,
       <<"ServerWaypointGroup", "Action">>, <<"WaypointGroup", "WaypointHandle">>})>>)),
     Packet("LocatorBarPacket", 341, <<Over(944, Open, <<Field({"LocatorBarWaypointPayload"})>>)>>),
     Enum("DataDrivenScreenClosedReason", <<Based("uint8", Body(<<Is(0, 5)>>))>>),
     Packet("ServerboundDataDrivenScreenClosedPacket", 343, <<Over(944, Open,
       <<Typed(Field({"DataDrivenScreenClosedReason"}))>>)>>) >>

UiFromModalFormRequestPacket ==
  << Packet("ModalFormRequestPacket", 100, Once(<<>>)),
     Packet("ServerSettingsRequestPacket", 102, Once(<<>>)),
     Packet("ServerSettingsResponsePacket", 103, Once(<<>>)),
     Packet("ClientboundCloseFormPacket", 310, Once(<<>>)),
     Enum("ModalFormCancelReason", <<Based("uint8", Body(<<Is(0, 2)>>))>>),
     Packet("ModalFormResponsePacket", 101, Once(<<Field({"ModalFormCancelReason"})>>)),
     Packet("OnScreenTextureAnimationPacket", 130, Once(<<>>)),
     Packet("ClientboundDataDrivenUICloseAllScreensPacket", 334, <<Over(924, 944, <<>>)>>) >>

UiModule ==
  Module("protocol.ui", {"protocol", "protocol.actor", "protocol.common"}, {},
    UiFromClientboundDataDrivenUIReloadPacket \o UiFromModalFormRequestPacket)
=============================================================================
