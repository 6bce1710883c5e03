---------------------------- MODULE ProtocolWorld ---------------------------
(*************************************************************************)
(* The part of the schema (protocol/) about the world: blocks, chunks,   *)
(* biomes, dimensions, maps, structures and sounds. Each definition is   *)
(* named for a module, or for a module and the class it starts with: it  *)
(* is the class statements from there to where the next one starts, in   *)
(* the form of Declarations.                                             *)
(*************************************************************************)
EXTENDS Declarations

-----------------------------------------------------------------------------
(* protocol/biome.py                                                       *)

BiomeFromVillageType ==
  << Enum("VillageType", <<Based("uint8", Body(<<Is(0, 5)>>))>>),
     Enum("BiomeTemperatureCategory", <<Based("uint8", Body(<<Is(0, 5), Autos(1)>>))>>),
     Enum("CoordinateEvaluationOrder", Once(<<Is(0, 6)>>)),
     Enum("RandomDistributionType", Once(<<Is(0, 7)>>)),
     Struct("FloatRange", Once(<<>>)),
     Struct("NoiseDescriptor", <<Over(1001, Open, <<>>)>>),
     Struct("SerializedNoiseBlockSpecifier", <<Over(1001, Open, <<Field({"FloatRange"}),
       Typed(Field({"BlockRuntimeId"}))>>)>>),
     Struct("BiomeNoiseGradientSurfaceData", <<Over(0, 1001, <<>>), Over(1001, Open,
       <<Field({"NoiseDescriptor", "SerializedNoiseBlockSpecifier"})>>)>>),
     Struct("BiomeSurfaceMaterialData", Once(<<Typed(Field({"BlockRuntimeId"}))>>)),
     Struct("BiomeMesaSurfaceData", Once(<<Typed(Field({"BlockRuntimeId"}))>>)),
     Struct("BiomeCappedSurfaceData", Once(<<>>)),
     Struct("BiomeSurfaceBuilderData", Once(<<Field({"BiomeCappedSurfaceData",
       "BiomeMesaSurfaceData", "BiomeNoiseGradientSurfaceData", "BiomeSurfaceMaterialData"})>>)),
     Struct("BiomeClimateData", Once(<<Until(844, Field({}))>>)),
     Struct("BiomeCoordinateData", Once(<<Typed(Field({"ExpressionOp"})),
       Field({"BiomeStringIndex"}), Typed(Field({"ExpressionOp"})),
       Field({"BiomeStringIndex", "RandomDistributionType"})>>)),
     Struct("BiomeScatterParamData",
       Once(<<Field({"BiomeCoordinateData", "CoordinateEvaluationOrder"}),
       Typed(Field({"ExpressionOp"})), Field({"BiomeStringIndex"}), Typed(Field({"ExpressionOp"})),
       Field({"BiomeStringIndex"})>>)),
     Struct("BiomeConsolidatedFeatureData",
       Once(<<Field({"BiomeScatterParamData", "BiomeStringIndex"})>>)),
     Struct("BiomeConsolidatedFeaturesData", Once(<<Field({"BiomeConsolidatedFeatureData"})>>)) >>

BiomeFromBiomeMountainParamsData ==
  << Struct("BiomeMountainParamsData", Once(<<Typed(Field({"BlockRuntimeId"}))>>)),
     Struct("BiomeElementData", Once(<<Typed(Field({"ExpressionOp"})), Field({"BiomeStringIndex"}),
       Typed(Field({"ExpressionOp"})), Field({"BiomeStringIndex", "BiomeSurfaceMaterialData"})>>)),
     Struct("BiomeSurfaceMaterialAdjustmentData", Once(<<Field({"BiomeElementData"})>>)),
     Struct("BiomeWeightedData", Once(<<Field({"BiomeStringIndex"})>>)),
     Struct("BiomeConditionalTransformationData",
       Once(<<Field({"BiomeStringIndex", "BiomeWeightedData"})>>)),
     Struct("BiomeWeightedTemperatureData", Once(<<Typed(Field({"BiomeTemperatureCategory"}))>>)),
     Struct("BiomeOverworldGenRulesData", Once(<<Field({"BiomeConditionalTransformationData",
       "BiomeWeightedData", "BiomeWeightedTemperatureData"})>>)),
     Struct("BiomeMultinoiseGenRulesData", Once(<<>>)),
     Struct("BiomeLegacyWorldGenRulesData",
       Once(<<Field({"BiomeConditionalTransformationData"})>>)),
     Struct("BiomeReplacementData", Once(<<Field({"BiomeStringIndex"})>>)),
     Struct("BiomeReplacementsData", Once(<<Field({"BiomeReplacementData"})>>)),
     Struct("BiomeTagsData", Once(<<>>)),
     Struct("BiomeDefinitionChunkGenData", Once(<<Field({"BiomeClimateData",
       "BiomeConsolidatedFeaturesData", "BiomeMountainParamsData",
       "BiomeSurfaceMaterialAdjustmentData"}), Until(975, Field({"BiomeSurfaceMaterialData"})),
       Gated(844, 975, Field({})),
       Until(975, Field({"BiomeCappedSurfaceData", "BiomeMesaSurfaceData"})),
       Field({"BiomeLegacyWorldGenRulesData", "BiomeMultinoiseGenRulesData",
       "BiomeOverworldGenRulesData"}), Since(800, Field({"BiomeReplacementsData"})),
       Since(924, Typed(Field({"VillageType"}))),
       Since(975, Field({"BiomeSurfaceBuilderData"}))>>)),
     Struct("BiomeDefinitionData", <<Over(0, 827,
       <<Field({"BiomeDefinitionChunkGenData", "BiomeTagsData"})>>), Over(827, Open,
       <<Until(844, Field({})), Since(844, Field({})),
       Field({"BiomeDefinitionChunkGenData", "BiomeTagsData"})>>)>>),
     Struct("BiomeStringList", Once(<<>>)),
     Packet("BiomeDefinitionListPacket", 122, <<Over(0, 800, <<Field({"CompoundTag"})>>), Over(800,
       Open, <<Field({"BiomeDefinitionData", "BiomeStringIndex", "BiomeStringList"})>>)>>) >>

BiomeFromCompressedBiomeDefinitionListPacket ==
  << Packet("CompressedBiomeDefinitionListPacket", 301, <<Over(0, 800, <<>>)>>) >>

BiomeModule ==
  Module("protocol.biome", {"protocol", "protocol.common", "protocol.molang", "protocol.nbt"},
    {[name |-> "BiomeStringIndex", refs |-> {}]}, BiomeFromVillageType \o
    BiomeFromBiomeMountainParamsData \o BiomeFromCompressedBiomeDefinitionListPacket)

-----------------------------------------------------------------------------
(* protocol/block.py                                                       *)

BlockFromAnvilDamagePacket ==
  << Packet("AnvilDamagePacket", 141, <<Over(0, 944, <<Field({"NetworkBlockPosition"})>>), Over(944,
    Open, <<Until(2168, Field({})), Field({"BlockPos"})>>)>>),
     Packet("UpdateBlockPacket", 21, <<Over(0, 944,
       <<Field({"BlockRuntimeId", "NetworkBlockPosition"})>>), Over(944, Open,
       <<Field({"BlockPos", "BlockRuntimeId"})>>)>>),
     Packet("BlockEventPacket", 26, <<Over(0, 944, <<Field({"NetworkBlockPosition"})>>), Over(944,
       Open, <<Field({"BlockPos"})>>)>>),
     Packet("BlockPickRequestPacket", 34, Once(<<Field({"BlockPos"})>>)),
     Packet("BlockActorDataPacket", 56, <<Over(0, 944,
       <<Field({"CompoundTag", "NetworkBlockPosition"})>>), Over(944, Open,
       <<Field({"BlockPos", "CompoundTag"})>>)>>),
     EnumIn(<<"ActorBlockSyncMessage">>, "MessageId", Repeated(1, Based("uint32",
       Body(<<Is(0, 3)>>)))),
     Struct("ActorBlockSyncMessage", Once(<<>>)),
     Packet("UpdateBlockSyncedPacket", 110, <<Over(0, 944,
       <<Field({"BlockRuntimeId", "NetworkBlockPosition"}),
       Typed(FieldOf({<<"ActorBlockSyncMessage", "MessageId">>, <<"ActorUniqueID">>}))>>), Over(944,
       Open, <<Field({"BlockPos", "BlockRuntimeId"}),
       Typed(FieldOf({<<"ActorBlockSyncMessage", "MessageId">>, <<"ActorUniqueID">>}))>>)>>),
     Packet("LecternUpdatePacket", 125, <<Over(0, 944, <<Field({"NetworkBlockPosition"})>>),
       Over(944, Open, <<Field({"BlockPos"})>>)>>),
     Packet("OpenSignPacket", 303, <<Over(0, 944, <<Field({"NetworkBlockPosition"})>>), Over(944,
       Open, <<Field({"BlockPos"})>>)>>),
     Struct("UpdateSubChunkNetworkBlockInfo", <<Over(0, 944,
       <<Field({"BlockRuntimeId", "NetworkBlockPosition"}), Typed(Field({"ActorUniqueID"})),
       FieldOf({<<"ActorBlockSyncMessage", "MessageId">>})>>), Over(944, Open,
       <<Field({"BlockPos", "BlockRuntimeId"}), Typed(Field({"ActorUniqueID"})),
       FieldOf({<<"ActorBlockSyncMessage", "MessageId">>})>>)>>),
     Struct("UpdateSubChunkBlocksChangedInfo", Once(<<Field({"UpdateSubChunkNetworkBlockInfo"})>>)),
     Packet("UpdateSubChunkBlocksPacket", 172, <<Over(0, 944,
       <<Field({"NetworkBlockPosition", "UpdateSubChunkBlocksChangedInfo"})>>), Over(944, Open,
       <<Field({"BlockPos", "UpdateSubChunkBlocksChangedInfo"})>>)>>) >>

BlockFromRemoveVolumeEntityPacket ==
  << Packet("RemoveVolumeEntityPacket", 167, Once(<<Field({"DimensionType", "EntityNetId"})>>)),
     Packet("AddVolumeEntityPacket", 166, <<Over(0, 944,
       <<Field({"CompoundTag", "DimensionType", "EntityNetId", "NetworkBlockPosition"})>>),
       Over(944, Open, <<Field({"BlockPos", "CompoundTag", "DimensionType", "EntityNetId"})>>)>>),
     Struct("SerializableCells", Once(<<>>)),
     Struct("SerializableVoxelShape", Once(<<Field({"SerializableCells"})>>)),
     Packet("VoxelShapesPacket", 337, <<Over(924, Open,
       <<Field({"RegistryHandle", "SerializableVoxelShape"}), Since(944, Field({}))>>)>>),
     Packet("LevelEventPacket", 25, Once(<<Field({"Vec3"})>>)),
     Packet("LevelEventGenericPacket", 124, Once(<<Field({"CompoundTag"})>>)),
     Packet("SpawnParticleEffectPacket", 118, Once(<<Field({"ActorUniqueID", "Vec3"})>>)) >>

BlockModule ==
  Module("protocol.block", {"protocol", "protocol.actor", "protocol.common", "protocol.nbt",
    "protocol.network"}, {[name |-> "EntityNetId", refs |-> {}], [name |-> "RegistryHandle", refs
    |-> {}]}, BlockFromAnvilDamagePacket \o BlockFromRemoveVolumeEntityPacket)

-----------------------------------------------------------------------------
(* protocol/chunk.py                                                       *)

ChunkFromChunkPos ==
  << Struct("ChunkPos", Once(<<>>)),
     StructIn(<<"LevelChunkPacket">>, "SubChunkMetadata", Repeated(2, Body(<<>>))),
     Packet("LevelChunkPacket", 58, <<Over(0, 2168, <<Field({"ChunkPos", "DimensionType"}),
       Named("sub_chunks_count", Field({})), When({"sub_chunks_count"}, {}, Field({})),
       Named("cache_enabled", Field({})),
       When({"cache_enabled"}, {}, Field({"SubChunkMetadata"}))>>), Over(2168, Open,
       <<Field({"ChunkPos", "DimensionType", "SubChunkMetadata"}), Since(2225, Field({}))>>)>>),
     EnumIn(<<"SubChunkPacket">>, "HeightMapDataType", <<In(1, Based("uint8", Body(<<Is(0, 1),
       Named("HAS_DATA", Is(1, 1)), Is(2, 2), Since(818, Is(4, 1))>>))), In(2, Based("uint8",
       Body(<<Is(0, 1), Named("HAS_DATA", Is(1, 1)), Is(2, 3)>>)))>>),
     EnumIn(<<"SubChunkPacket">>, "SubChunkRequestResult", Repeated(2, Based("uint8",
       Body(<<Is(0, 6), Named("SUCCESS_ALL_AIR", Is(6, 1))>>)))),
     StructIn(<<"SubChunkPacket">>, "HeightmapData", <<In(1,
       Body(<<Named("height_map_type", Field({"HeightMapDataType"})),
       When({"height_map_type"}, Members("HeightMapDataType", {"HAS_DATA"}), Field({})),
       Since(818, Named("render_height_map_type", Field({"HeightMapDataType"}))), Since(818,
       When({"render_height_map_type"}, Members("HeightMapDataType", {"HAS_DATA"}), Field({})))>>)),
       In(2, Over(2168, 2193, <<Field({"HeightMapDataType"})>>)), In(2, Over(2193, Open,
       <<Field({"HeightMapDataType"})>>))>>),
     StructIn(<<"SubChunkPacket">>, "SubChunkPosOffset", Repeated(2, Body(<<>>))),
     StructIn(<<"SubChunkPacket">>, "SubChunkPacketData", <<In(1,
       Body(<<Field({"SubChunkPosOffset"}), Named("result", Field({"SubChunkRequestResult"})),
       When({"result"}, Members("SubChunkRequestResult", {"SUCCESS_ALL_AIR"}), Field({})),
       Field({"HeightmapData"})>>)), In(2,
       Body(<<Field({"HeightmapData", "SubChunkPosOffset", "SubChunkRequestResult"})>>))>>),
     StructIn(<<"SubChunkPacket">>, "UncachedSubChunkPacketData", Repeated(1, Over(0, 2168,
       <<Field({"HeightmapData", "SubChunkPosOffset", "SubChunkRequestResult"})>>))),
     Packet("SubChunkPacket", 174, <<Over(0, 2168, <<Named("cache_enabled", Field({})),
       Field({"DimensionType"}), Legacy(Field({"SubChunkPos"})),
       When({"cache_enabled"}, {}, Field({"SubChunkPacketData"})),
       When({"cache_enabled"}, {}, Field({"UncachedSubChunkPacketData"}))>>), Over(2168, Open,
       <<Field({"DimensionType", "SubChunkPacketData", "SubChunkPos"})>>)>>) >>

ChunkFromSubChunkRequestPacket ==
  << Packet("SubChunkRequestPacket", 175, <<Over(0, 1001, <<FieldOf({<<"DimensionType">>,
    <<"SubChunkPacket", "SubChunkPosOffset">>, <<"SubChunkPos">>})>>), Over(1001, Open,
    <<FieldOf({<<"DimensionType">>, <<"SubChunkPacket", "SubChunkPosOffset">>,
    <<"SubChunkPos">>})>>)>>),
     Packet("RequestChunkRadiusPacket", 69, Once(<<>>)),
     Packet("ChunkRadiusUpdatedPacket", 70, Once(<<>>)),
     Packet("NetworkChunkPublisherUpdatePacket", 121, Once(<<Field({"BlockPos", "ChunkPos"})>>)),
     Struct("SubChunkPos", <<Over(0, 1001, <<>>), Over(1001, Open, <<>>)>>),
     PreCereal(Struct("SubChunkPos", <<Over(0, 2168, <<>>)>>)) >>

ChunkModule ==
  Module("protocol.chunk", {"protocol", "protocol.common"}, {}, ChunkFromChunkPos \o
    ChunkFromSubChunkRequestPacket)

-----------------------------------------------------------------------------
(* protocol/dimension.py                                                   *)

DimensionFromDimensionDefinitionGroup ==
  << StructIn(<<"DimensionDefinitionGroup">>, "DimensionDefinition", <<In(1, Over(0, 2193,
    <<Field({"GeneratorType"}), Since(975, Field({"DimensionType"})), Since(2168, Field({}))>>)),
    In(1, Over(2193, Open, <<Field({"DimensionType", "GeneratorType"}),
    Since(2225, Field({}))>>))>>),
     Struct("DimensionDefinitionGroup", Once(<<>>)),
     Packet("DimensionDataPacket", 180,
       Once(<<FieldOf({<<"DimensionDefinitionGroup", "DimensionDefinition">>})>>)),
     Packet("ChangeDimensionPacket", 61, Once(<<Field({"DimensionType", "Vec3"})>>)) >>

DimensionModule ==
  Module("protocol.dimension", {"protocol", "protocol.common", "protocol.game"}, {},
    DimensionFromDimensionDefinitionGroup)

-----------------------------------------------------------------------------
(* protocol/level.py                                                       *)

LevelFromSetTimePacket ==
  << Packet("SetTimePacket", 10, Once(<<>>)),
     Struct("SyncWorldClockStateData", Once(<<>>)),
     Struct("TimeMarkerData", Once(<<>>)),
     Struct("WorldClockData", Once(<<Field({"TimeMarkerData"})>>)),
     StructIn(<<"SyncWorldClocksPacket">>, "SyncStateData", Repeated(1,
       Body(<<Field({"SyncWorldClockStateData"})>>))),
     StructIn(<<"SyncWorldClocksPacket">>, "InitializeRegistryData", Repeated(1,
       Body(<<Field({"WorldClockData"})>>))),
     StructIn(<<"SyncWorldClocksPacket">>, "AddTimeMarkerData", Repeated(1,
       Body(<<Field({"TimeMarkerData"})>>))),
     StructIn(<<"SyncWorldClocksPacket">>, "RemoveTimeMarkerData", Repeated(1, Body(<<>>))),
     Packet("SyncWorldClocksPacket", 344, <<Over(944, Open, <<Field({"AddTimeMarkerData",
       "InitializeRegistryData", "RemoveTimeMarkerData", "SyncStateData"})>>)>>),
     Struct("PositionTrackingId", Once(<<>>)),
     EnumIn(<<"PositionTrackingDBServerBroadcastPacket">>, "Action", Repeated(1, Based("uint8",
       Body(<<Is(0, 3)>>)))),
     Packet("PositionTrackingDBServerBroadcastPacket", 153,
       Once(<<Field({"Action", "CompoundTag", "PositionTrackingId"})>>)),
     EnumIn(<<"PositionTrackingDBClientRequestPacket">>, "Action", Repeated(1, Based("uint8",
       Body(<<Is(0, 1)>>)))),
     Packet("PositionTrackingDBClientRequestPacket", 154,
       Once(<<Field({"Action", "PositionTrackingId"})>>)) >>

LevelModule ==
  Module("protocol.level", {"protocol", "protocol.nbt"}, {}, LevelFromSetTimePacket)

-----------------------------------------------------------------------------
(* protocol/map.py                                                         *)

MapFromMapItemTrackedActor ==
  << EnumIn(<<"MapItemTrackedActor">>, "Type", Repeated(1, Body(<<Named("ENTITY", Is(0, 1)),
    Named("BLOCK_ENTITY", Is(1, 1)), Is(2, 1)>>))),
     StructIn(<<"MapItemTrackedActor">>, "UniqueId", <<In(1, Over(0, 944,
       <<Named("type", Field({})), When({"type"}, MembersOf(<<"MapItemTrackedActor", "Type">>,
       {"ENTITY"}), Field({"ActorUniqueID"})), When({"type"}, MembersOf(<<"MapItemTrackedActor",
       "Type">>, {"BLOCK_ENTITY"}), Field({"NetworkBlockPosition"}))>>)), In(1, Over(944, 2168,
       <<Named("type", Field({})), When({"type"}, MembersOf(<<"MapItemTrackedActor", "Type">>,
       {"ENTITY"}), Field({"ActorUniqueID"})), When({"type"}, MembersOf(<<"MapItemTrackedActor",
       "Type">>, {"BLOCK_ENTITY"}), Field({"BlockPos"}))>>)), In(1, Over(2168, Open,
       <<Field({"ActorUniqueID", "BlockPos"})>>))>>),
     Struct("MapItemTrackedActor", Once(<<>>)),
     EnumIn(<<"MapDecoration">>, "Type", <<In(1, Based("int8", Body(<<Is(0, 25), Autos(1)>>))), In(2,
       Based("int8", Body(<<Is(0, 25), Since(2193, Is(25, 5)), Autos(1)>>)))>>),
     Struct("MapDecoration", <<Over(0, 2168, <<Field({"Type"}), Typed(Field({"Color"}))>>),
       Over(2168, Open, <<Field({"Color", "Type"})>>)>>) >>

MapFromClientboundMapItemDataPacket ==
  << EnumIn(<<"ClientboundMapItemDataPacket">>, "Type", Repeated(2, Body(<<Is(0, 1), Is(2, 1),
    Is(4, 1), Is(8, 1)>>))),
     Packet("ClientboundMapItemDataPacket", 67, <<Over(0, 2168, <<Field({"ActorUniqueID"}),
       Named("type", Field({})), Field({"BlockPos"}), When({"type"}, {}, Field({"ActorUniqueID"})),
       When({"type"}, {}, Field({})),
       When({"type"}, {}, FieldOf({<<"MapItemTrackedActor", "UniqueId">>})),
       When({"type"}, {}, Field({"MapDecoration"})), When({"type"}, {}, Field({})),
       When({"type"}, {}, Field({})), When({"type"}, {}, Field({})), When({"type"}, {}, Field({})),
       When({"type"}, {}, Field({}))>>), Over(2168, Open, <<FieldOf({<<"ActorUniqueID">>,
       <<"BlockPos">>, <<"MapDecoration">>, <<"MapItemTrackedActor", "UniqueId">>})>>)>>),
     StructIn(<<"MapInfoRequestPacket">>, "ClientPixelsProxy", Repeated(1, Body(<<>>))),
     Packet("MapInfoRequestPacket", 68, Once(<<Field({"ActorUniqueID", "ClientPixelsProxy"})>>)),
     Packet("MapCreateLockedCopyPacket", 131, Once(<<Field({"ActorUniqueID"})>>)),
     Packet("CreatePhotoPacket", 171, Once(<<Typed(Field({"ActorUniqueID"}))>>)),
     Enum("PhotoType", <<Based("uint8", Body(<<Is(0, 3)>>))>>),
     Packet("PhotoTransferPacket", 99, Once(<<Field({"PhotoType"}),
       Typed(Field({"ActorUniqueID"}))>>)),
     StructIn(<<"PlayerVideoCapturePacket">>, "StartVideoCapture", Repeated(1, Body(<<>>))),
     StructIn(<<"PlayerVideoCapturePacket">>, "StopVideoCapture", Repeated(1, Body(<<>>))),
     Packet("PlayerVideoCapturePacket", 324, <<Over(786, Open,
       <<Field({"StartVideoCapture", "StopVideoCapture"})>>)>>) >>

MapModule ==
  Module("protocol.map", {"protocol", "protocol.actor", "protocol.common", "protocol.network"}, {},
    MapFromMapItemTrackedActor \o MapFromClientboundMapItemDataPacket)

-----------------------------------------------------------------------------
(* protocol/structure.py                                                   *)

StructureFromStructureBlockType ==
  << Enum("StructureBlockType", Once(<<Is(0, 6), Autos(1)>>)),
     Enum("StructureRedstoneSaveMode", <<Based("uint8", Body(<<Is(0, 2)>>))>>),
     Enum("Rotation", <<Based("uint8", Body(<<Is(0, 4), Is(1, 3), Autos(1)>>))>>),
     Enum("Mirror", <<Based("uint8", Body(<<Is(0, 4)>>))>>),
     Enum("AnimationMode", <<Based("uint8", Body(<<Is(0, 3)>>))>>),
     Struct("StructureSettings", <<Over(0, 944, <<Field({"ActorUniqueID", "AnimationMode", "Mirror",
       "NetworkBlockPosition", "RandomSeed", "Rotation", "Vec3"})>>), Over(944, Open,
       <<Field({"ActorUniqueID", "AnimationMode", "BlockPos", "Mirror", "RandomSeed", "Rotation",
       "Vec3"})>>)>>),
     Struct("StructureEditorData", <<Over(0, 776,
       <<Field({"StructureBlockType", "StructureSettings"}),
       Typed(Field({"StructureRedstoneSaveMode"}))>>), Over(776, 2168,
       <<Field({"RedactableString", "StructureBlockType", "StructureSettings"}),
       Typed(Field({"StructureRedstoneSaveMode"}))>>), Over(2168, Open, <<Field({"RedactableString",
       "StructureBlockType", "StructureRedstoneSaveMode", "StructureSettings"})>>)>>),
     Packet("StructureBlockUpdatePacket", 90, <<Over(0, 944,
       <<Field({"NetworkBlockPosition", "StructureEditorData"})>>), Over(944, Open,
       <<Field({"BlockPos", "StructureEditorData"})>>)>>),
     Packet("TickingAreasLoadStatusPacket", 179, Once(<<>>)),
     Packet("CurrentStructureFeaturePacket", 314, Once(<<>>)),
     Enum("StructureTemplateRequestOperation", <<Based("uint8", Body(<<Is(0, 4)>>))>>) >>

StructureFromStructureTemplateDataRequestPacket ==
  << Packet("StructureTemplateDataRequestPacket", 132, <<Over(0, 944,
    <<Field({"NetworkBlockPosition", "StructureSettings", "StructureTemplateRequestOperation"})>>),
    Over(944, Open,
    <<Field({"BlockPos", "StructureSettings", "StructureTemplateRequestOperation"})>>)>>),
     Enum("StructureTemplateResponseType", <<Based("uint8", Body(<<Is(0, 3)>>))>>),
     Packet("StructureTemplateDataResponsePacket", 133,
       Once(<<Field({"CompoundTag", "StructureTemplateResponseType"})>>)),
     Packet("JigsawStructureDataPacket", 313, Once(<<Field({"CompoundTag"})>>)),
     StructIn(<<"FeatureRegistry">>, "FeatureBinaryJsonFormat", Repeated(1, Body(<<>>))),
     Struct("FeatureRegistry", Once(<<>>)),
     Packet("FeatureRegistryPacket", 191,
       Once(<<FieldOf({<<"FeatureRegistry", "FeatureBinaryJsonFormat">>})>>)),
     Packet("GameTestResultsPacket", 195, Once(<<>>)),
     Packet("GameTestRequestPacket", 194, Once(<<Field({"BlockPos", "Rotation"})>>)) >>

StructureModule ==
  Module("protocol.structure", {"protocol", "protocol.actor", "protocol.common",
    "protocol.item_stack", "protocol.nbt", "protocol.network"}, {[name |-> "RandomSeed", refs |->
    {}]}, StructureFromStructureBlockType \o StructureFromStructureTemplateDataRequestPacket)

-----------------------------------------------------------------------------
(* protocol/graphics.py                                                    *)

GraphicsFromGraphicsOverrideParameterType ==
  << Enum("GraphicsOverrideParameterType", <<Based("uint8", Body(<<Is(0, 1), Since(898, Is(1, 9)),
    Since(924, Is(10, 16)), Since(944, Is(26, 23)), Since(975, Is(49, 3))>>))>>),
     Packet("GraphicsOverrideParameterPacket", 331, <<Over(859, Open, <<Field({"Vec3"}),
       Since(924, Field({"Vec3"})), Since(1001, Field({})),
       Field({"GraphicsOverrideParameterType"})>>)>>) >>

GraphicsModule ==
  Module("protocol.graphics", {"protocol", "protocol.common"}, {},
    GraphicsFromGraphicsOverrideParameterType)

-----------------------------------------------------------------------------
(* protocol/sound.py                                                       *)

SoundFromLevelSoundEvent ==
  << Enum("LevelSoundEvent", <<Based("uint32", Body(<<Is(0, 155), Is(156, 222), Is(379, 12),
    Is(426, 96), Is(523, 9), Since(766, Is(532, 1)), Is(533, 1), Since(766, Is(534, 1)),
    Since(766, Is(536, 10)), Since(800, Is(546, 9)), Since(818, Is(555, 6)), Since(827, Is(561, 1)),
    Gated(819, 827, Is(561, 1)), Since(827, Is(562, 1)), Since(844, Is(563, 3)),
    Since(898, Is(566, 12)), Since(924, Is(578, 19)), Since(944, Is(597, 2)),
    Since(975, Is(599, 2)), Since(1001, Is(601, 10)), Since(2168, Is(611, 3)),
    Since(2225, Is(614, 1)), Autos(1)>>))>>) >>

SoundFromServerSoundHandle ==
  << Struct("ServerSoundHandle", Once(<<>>)),
     Packet("PlaySoundPacket", 86, <<Over(0, 944, <<Field({"NetworkBlockPosition"})>>), Over(944,
       Open, <<Field({"BlockPos"}), Since(2168, Field({})), Since(2193, Field({})),
       Since(975, Field({"ServerSoundHandle"})), Since(2193, Field({}))>>)>>),
     Packet("ClientboundUpdateSoundDataPacket", 348, <<Over(1001, 2168,
       <<Field({"ServerSoundHandle"}), Typed(Field({"SoundDataEvent"}))>>), Over(2168, Open,
       <<Field({"ServerSoundHandle"}), Until(2225, Field({"Fade", "Pause", "Resume", "SeekTo",
       "SetPitch", "SetVolume", "Stop"})), Since(2225, Field({"Fade", "Pause", "Resume", "SeekTo",
       "SetPitch", "SetVolume", "Stop"}))>>)>>),
     Enum("SoundDataEventType", <<Based("uint8", Body(<<Named("STOP", Is(0, 1)),
       Named("SET_VOLUME", Is(1, 1)), Named("SET_PITCH", Is(2, 1)), Named("FADE", Is(3, 1)),
       Named("SEEK_TO", Is(4, 1)), Named("PAUSE", Is(5, 1)), Named("RESUME", Is(6, 1))>>))>>),
     Struct("Stop", <<Over(2168, Open,
       <<Since(2225, Literal(Members("SoundDataEventType", {"STOP"}), Field({})))>>)>>),
     Struct("SetVolume", <<Over(2168, Open,
       <<Since(2225, Literal(Members("SoundDataEventType", {"SET_VOLUME"}), Field({})))>>)>>),
     Struct("SetPitch", <<Over(2168, Open,
       <<Since(2225, Literal(Members("SoundDataEventType", {"SET_PITCH"}), Field({})))>>)>>),
     Struct("Fade", <<Over(2168, Open,
       <<Since(2225, Literal(Members("SoundDataEventType", {"FADE"}), Field({})))>>)>>),
     Struct("SeekTo", <<Over(2168, Open,
       <<Since(2225, Literal(Members("SoundDataEventType", {"SEEK_TO"}), Field({})))>>)>>),
     Struct("Pause", <<Over(2168, Open,
       <<Since(2225, Literal(Members("SoundDataEventType", {"PAUSE"}), Field({})))>>)>>),
     Struct("Resume", <<Over(2168, Open,
       <<Since(2225, Literal(Members("SoundDataEventType", {"RESUME"}), Field({})))>>)>>),
     Packet("LevelSoundEventPacket", 123, <<Over(0, 1001, <<Field({"LevelSoundEvent", "Vec3"}),
       Since(786, Typed(Field({"ActorUniqueID"}))), Since(975, Field({"Vec3"}))>>), Over(1001, Open,
       <<Field({"Vec3"}), Typed(Field({"ActorUniqueID"})), Field({"Vec3"})>>)>>),
     Packet("RecordStartedPacket", 352, <<Over(2193, Open,
       <<Field({"BlockPos", "ServerSoundHandle"})>>)>>),
     Packet("StopSoundPacket", 87, Once(<<>>)),
     Struct("SignedAudioContent", Once(<<>>)),
     Enum("AudioContentPlaybackType", Once(<<Is(0, 2)>>)),
     Packet("ClientboundPlayAudioContentPacket", 359, <<Over(2225, Open,
       <<Field({"SignedAudioContent"}), Typed(Field({"AudioContentPlaybackType"})),
       Field({"PlaySoundPacket"})>>)>>) >>

SoundFromAudioContentRegistrationEntry ==
  << Struct("AudioContentRegistrationEntry", Once(<<Field({"SignedAudioContent"})>>)),
     Packet("ServerboundRegisterAudioContentPacket", 360, <<Over(2225, Open,
       <<Field({"AudioContentRegistrationEntry"})>>)>>),
     Enum("SoundDataEvent", <<Over(0, 2168, <<Is(0, 1)>>)>>),
     Packet("LevelSoundEventPacketV1", 24, <<Over(0, 786, <<Typed(Field({"LevelSoundEvent"})),
       Field({"Vec3"}), Typed(Field({"ActorType"}))>>)>>),
     Packet("LevelSoundEventPacketV2", 120, <<Over(0, 786, <<Typed(Field({"LevelSoundEvent"})),
       Field({"Vec3"})>>)>>) >>

SoundModule ==
  Module("protocol.sound", {"protocol", "protocol.actor", "protocol.common", "protocol.network"},
    {}, SoundFromLevelSoundEvent \o SoundFromServerSoundHandle \o
    SoundFromAudioContentRegistrationEntry)
=============================================================================
