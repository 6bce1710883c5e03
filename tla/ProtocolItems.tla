---------------------------- MODULE ProtocolItems ---------------------------
(*************************************************************************)
(* The part of the schema (protocol/) about items: the stacks, what is   *)
(* done with them, what is made of them and where they are kept. Each    *)
(* definition is named for a module, or for a module and the class it    *)
(* starts with: it is the class statements from there to where the next  *)
(* one starts, in the form of Declarations.                              *)
(*************************************************************************)
EXTENDS Declarations

-----------------------------------------------------------------------------
(* protocol/enchanting.py                                                  *)

EnchantingFromEnchant ==
  << EnumIn(<<"Enchant">>, "Type", Repeated(1, Based("uint8", Body(<<Is(0, 41),
    Since(898, Is(41, 1)), Autos(2)>>)))),
     Struct("Enchant", Once(<<>>)),
     Struct("EnchantmentInstance", Once(<<FieldOf({<<"Enchant", "Type">>})>>)),
     Struct("ItemEnchants", Once(<<Field({"EnchantmentInstance"})>>)),
     Struct("ItemEnchantOption", <<Over(0, 975, <<Field({"ItemEnchants", "RecipeNetId"})>>),
       Over(975, Open, <<Field({"ItemEnchants", "RecipeNetId"})>>)>>),
     Packet("PlayerEnchantOptionsPacket", 146, Once(<<Field({"ItemEnchantOption"})>>)) >>

EnchantingModule ==
  Module("protocol.enchanting", {"protocol", "protocol.crafting"}, {}, EnchantingFromEnchant)

-----------------------------------------------------------------------------
(* protocol/inventory.py                                                   *)

InventoryFromContainerID ==
  << Enum("ContainerID", <<Based("int8", Body(<<Is(-1, 3), Is(100, 1), Is(119, 2), Is(122, 1),
    Is(124, 2), Until(748, Is(126, 1))>>))>>),
     Enum("ContainerEnumName", <<Based("uint8", Body(<<Is(0, 64), Since(2225, Is(67, 4)),
       Since(924, Is(64, 3))>>))>>),
     Struct("FullContainerName", Once(<<Field({"ContainerEnumName"})>>)),
     Packet("InventoryContentPacket", 49, <<Over(0, 1001, <<Typed(Field({"ContainerID"})),
       Field({"FullContainerName", "NetworkItemStackDescriptor"}), Until(748, Field({})),
       Since(748, Field({"NetworkItemStackDescriptor"}))>>), Over(1001, Open,
       <<Typed(Field({"ContainerID"})),
       Field({"FullContainerName", "SerializedNetworkItemStackDescriptor"})>>)>>),
     Packet("InventorySlotPacket", 50, <<Over(0, 975, <<Typed(Field({"ContainerID"})),
       Field({"FullContainerName"}), Until(748, Field({})),
       Since(748, Field({"NetworkItemStackDescriptor"})), Field({"NetworkItemStackDescriptor"})>>),
       Over(975, Open,
       <<Field({"ContainerID", "FullContainerName", "SerializedNetworkItemStackDescriptor"})>>)>>)
       >>

InventoryFromContainerType ==
  << Enum("ContainerType", <<Based("int8", Body(<<Is(-9, 1), Is(-1, 38), Since(2193, Is(37, 1)),
    Since(2225, Is(38, 1))>>))>>),
     Packet("ContainerClosePacket", 47, Once(<<Field({"ContainerID", "ContainerType"})>>)),
     Packet("PlayerHotbarPacket", 48, Once(<<Field({"ContainerID"})>>)),
     Packet("ContainerSetDataPacket", 51, Once(<<Field({"ContainerID"})>>)),
     Packet("GuiDataPickItemPacket", 54, Once(<<>>)),
     Packet("CompletedUsingItemPacket", 142, Once(<<>>)),
     Packet("PlayerToggleCrafterSlotRequestPacket", 306, Once(<<>>)),
     Packet("ContainerOpenPacket", 46, <<Over(0, 944,
       <<Field({"ActorUniqueID", "ContainerID", "ContainerType", "NetworkBlockPosition"})>>),
       Over(944, Open, <<Field({"ActorUniqueID", "BlockPos", "ContainerID", "ContainerType"})>>)>>),
     Packet("ContainerRegistryCleanupPacket", 317, Once(<<Field({"FullContainerName"})>>)),
     Enum("InventoryLayout", Once(<<Is(0, 4), Autos(1)>>)),
     Enum("InventoryLeftTabIndex", Once(<<Is(0, 7), Autos(1)>>)),
     Enum("InventoryRightTabIndex", Once(<<Is(0, 4), Autos(1)>>)),
     Struct("InventoryOptions",
       Once(<<Field({"InventoryLayout", "InventoryLeftTabIndex", "InventoryRightTabIndex"})>>)),
     Packet("SetPlayerInventoryOptionsPacket", 307, Once(<<Field({"InventoryOptions"})>>)) >>

InventoryFromFurnaceLeftTabIndex ==
  << Enum("FurnaceLeftTabIndex", Once(<<Is(0, 6), Autos(1)>>)),
     Enum("FurnaceLayout", Once(<<Is(0, 3), Autos(1)>>)),
     Struct("FurnaceOptions", Once(<<Field({"FurnaceLayout", "FurnaceLeftTabIndex"})>>)),
     EnumIn(<<"SetPlayerFurnaceOptionsPacket">>, "FurnaceType", Repeated(1, Based("uint8",
       Body(<<Is(0, 4), Autos(1)>>)))),
     Packet("SetPlayerFurnaceOptionsPacket", 351, <<Over(2193, Open,
       <<Field({"FurnaceOptions", "FurnaceType"})>>)>>),
     Packet("ServerboundStonecutterSetRecipePacket", 354, <<Over(2225, Open,
       <<Field({"ContainerID"})>>)>>),
     Packet("ClientboundStonecutterSetRecipePacket", 355, <<Over(2225, Open,
       <<Field({"ActorUniqueID", "ContainerID"})>>)>>),
     Enum("CursorItemDragState", <<Based("uint8", Body(<<Is(0, 2)>>))>>),
     Packet("ServerboundCursorItemDragPacket", 358, <<Over(2225, Open,
       <<Field({"CursorItemDragState"})>>)>>),
     Packet("UpdateTradePacket", 80,
       Once(<<Field({"ActorUniqueID", "CompoundTag", "ContainerID", "ContainerType"})>>)),
     Packet("UpdateEquipPacket", 81,
       Once(<<Field({"ActorUniqueID", "CompoundTag", "ContainerID", "ContainerType"})>>)),
     Packet("MobEquipmentPacket", 31, <<Over(0, 975,
       <<Field({"ActorRuntimeID", "ContainerID", "NetworkItemStackDescriptor"})>>), Over(975, Open,
       <<Field({"ActorRuntimeID", "ContainerID", "SerializedNetworkItemStackDescriptor"})>>)>>),
     Packet("MobArmorEquipmentPacket", 32, <<Over(0, 1001,
       <<Field({"ActorRuntimeID", "NetworkItemStackDescriptor"})>>), Over(1001, Open,
       <<Field({"ActorRuntimeID", "SerializedNetworkItemStackDescriptor"})>>)>>) >>

InventoryModule ==
  Module("protocol.inventory", {"protocol", "protocol.actor", "protocol.common", "protocol.item",
    "protocol.nbt", "protocol.network"}, {}, InventoryFromContainerID \o InventoryFromContainerType
    \o InventoryFromFurnaceLeftTabIndex)

-----------------------------------------------------------------------------
(* protocol/item.py                                                        *)

ItemFromHandSlot ==
  << Enum("HandSlot", <<Based("uint8", Body(<<Is(0, 2), Autos(1)>>))>>),
     Enum("ItemVersion", Once(<<Is(0, 2), Since(776, Is(2, 1))>>)),
     Struct("ItemData", Once(<<Field({"CompoundTag", "ItemVersion"})>>)),
     Struct("ItemComponentEntry", Once(<<Field({"CompoundTag"})>>)),
     Packet("ItemRegistryPacket", 162, <<Over(776, Open, <<Field({"ItemData"})>>)>>),
     Packet("PlayerStartItemCooldownPacket", 176, Once(<<>>)),
     Struct("ReplacePage", Once(<<>>)),
     Struct("AddPage", Once(<<>>)),
     Struct("DeletePage", Once(<<>>)),
     Struct("SwapPages", Once(<<>>)),
     Struct("Finalize", Once(<<>>)),
     Enum("BookEditAction", <<Based("uint8", Body(<<Named("REPLACE_PAGE", Is(0, 1)),
       Named("ADD_PAGE", Is(1, 1)), Is(2, 1), Named("SWAP_PAGES", Is(3, 1)),
       Named("FINALIZE", Is(4, 1))>>))>>),
     Packet("BookEditPacket", 97, <<Over(0, 924, <<Named("action", Field({"BookEditAction"})),
       When({"action"}, Members("BookEditAction", {"FINALIZE"}), Field({})),
       When({"action"}, Members("BookEditAction", {"SWAP_PAGES"}), Field({})),
       When({"action"}, Members("BookEditAction", {"ADD_PAGE", "REPLACE_PAGE"}), Field({})),
       When({"action"}, Members("BookEditAction", {"ADD_PAGE", "REPLACE_PAGE"}), Field({})),
       When({"action"}, Members("BookEditAction", {"FINALIZE"}), Field({})),
       When({"action"}, Members("BookEditAction", {"FINALIZE"}), Field({})),
       When({"action"}, Members("BookEditAction", {"FINALIZE"}), Field({}))>>), Over(924, Open,
       <<Field({"AddPage", "DeletePage", "Finalize", "ReplacePage", "SwapPages"})>>)>>),
     Struct("TrimPattern", Once(<<>>)),
     Struct("TrimMaterial", Once(<<>>)),
     Packet("TrimDataPacket", 302, Once(<<Field({"TrimMaterial", "TrimPattern"})>>)),
     Struct("ItemStackNetId", Once(<<>>)),
     Struct("ItemStackRequestId", Once(<<>>)),
     Struct("ItemStackLegacyRequestId", Once(<<>>)),
     Struct("NetworkItemStackDescriptor", Once(<<Named("id", Field({})),
       When({"id"}, {}, Field({})), When({"id"}, {}, Field({})),
       When({"id"}, {}, Field({"ItemStackNetId"})),
       When({"id"}, {}, Typed(Field({"BlockRuntimeId"}))), When({"id"}, {}, Field({}))>>)) >>

ItemFromSerializedNetworkItemStackDescriptor ==
  << Struct("SerializedNetworkItemStackDescriptor", <<Over(0, 2168,
    <<Field({"BlockRuntimeId", "ItemStackNetIdVariant"})>>), Over(2168, Open,
    <<Field({"BlockRuntimeId"})>>)>>),
     Packet("ItemComponentPacket", 162, <<Over(0, 776, <<Field({"ItemComponentEntry"})>>)>>) >>

ItemModule ==
  Module("protocol.item", {"protocol", "protocol.common", "protocol.nbt"}, {[name |->
    "ItemStackNetIdVariant", refs |-> {<<"ItemStackLegacyRequestId">>, <<"ItemStackNetId">>,
    <<"ItemStackRequestId">>}]}, ItemFromHandSlot \o ItemFromSerializedNetworkItemStackDescriptor)

-----------------------------------------------------------------------------
(* protocol/item_stack.py                                                  *)

ItemStackFromItemStackRequestActionType ==
  << Enum("ItemStackRequestActionType", <<Based("uint8", Body(<<Named("TAKE", Is(0, 1)),
    Named("PLACE", Is(1, 1)), Named("SWAP", Is(2, 1)), Named("DROP", Is(3, 1)),
    Named("DESTROY", Is(4, 1)), Named("CONSUME", Is(5, 1)), Named("CREATE", Is(6, 1)), Is(7, 2),
    Named("SCREEN_LAB_TABLE_COMBINE", Is(9, 1)), Named("SCREEN_BEACON_PAYMENT", Is(10, 1)),
    Named("SCREEN_HUD_MINE_BLOCK", Is(11, 1)), Named("CRAFT_RECIPE", Is(12, 1)),
    Named("CRAFT_RECIPE_AUTO", Is(13, 1)), Named("CRAFT_CREATIVE", Is(14, 1)),
    Named("CRAFT_RECIPE_OPTIONAL", Is(15, 1)), Named("CRAFT_REPAIR_AND_DISENCHANT", Is(16, 1)),
    Named("CRAFT_LOOM", Is(17, 1)), Named("CRAFT_RESERVED_ACTION", Since(2225, Is(18, 1))),
    Named("CRAFT_NON_IMPLEMENTED_DEPRECATEDASKTYLAING", Autos(1)),
    Named("CRAFT_RESULTS_DEPRECATEDASKTYLAING", Autos(1)), Gated(776, 786, Is(20, 1))>>))>>),
     Enum("ItemStackNetResult", <<Based("uint8", Body(<<Named("SUCCESS", Is(0, 1)),
       Is(1, 67)>>))>>),
     Enum("TextProcessingEventOrigin", Once(<<Is(-1, 16), Since(975, Is(15, 1)), Autos(1)>>)),
     Struct("RedactableString", <<Over(766, 2168, <<>>), Over(2168, Open, <<>>)>>) >>

ItemStackFromItemStackResponseSlotInfo ==
  << Struct("ItemStackResponseSlotInfo", <<Over(0, 766, <<Field({"ItemStackNetId"})>>), Over(766,
    2168, <<Field({"ItemStackNetId", "RedactableString"})>>), Over(2168, Open,
    <<Until(2193, Field({})), Field({"ItemStackNetId", "RedactableString"})>>)>>),
     Struct("ItemStackResponseContainerInfo",
       Once(<<Field({"FullContainerName", "ItemStackResponseSlotInfo"})>>)),
     Struct("ItemStackResponseInfo", <<Over(0, 2168,
       <<Named("result", Field({"ItemStackNetResult"})), Field({"ItemStackRequestId"}),
       When({"result"}, Members("ItemStackNetResult", {"SUCCESS"}),
       Field({"ItemStackResponseContainerInfo"}))>>), Over(2168, Open,
       <<Field({"ItemStackNetResult", "ItemStackRequestId"}), Until(2193, Field({})),
       Field({"ItemStackResponseContainerInfo"})>>)>>),
     Packet("ItemStackResponsePacket", 148, Once(<<Field({"ItemStackResponseInfo"})>>)) >>

ItemStackFromItemStackRequestCereal ==
  << EnumIn(<<"ItemStackRequestCereal">>, "ItemDescriptorType", Repeated(1, Based("uint8",
    Body(<<Named("EMPTY", Is(0, 1)), Named("ITEM_NAME", Is(1, 1)), Named("MOLANG", Is(2, 1)),
    Named("ITEM_TAG", Is(3, 1))>>)))),
     StructIn(<<"ItemStackRequestCereal">>, "EmptyItemDescriptorData", Repeated(1,
       Body(<<Literal(Members("ItemDescriptorType", {"EMPTY"}), Field({}))>>))),
     StructIn(<<"ItemStackRequestCereal">>, "ItemNameDescriptorData", Repeated(1,
       Body(<<Literal(Members("ItemDescriptorType", {"ITEM_NAME"}), Field({}))>>))),
     StructIn(<<"ItemStackRequestCereal">>, "MolangItemDescriptorData", Repeated(1,
       Body(<<Literal(Members("ItemDescriptorType", {"MOLANG"}), Field({})),
       Typed(Field({"MolangVersion"}))>>))),
     StructIn(<<"ItemStackRequestCereal">>, "ItemTagDescriptorData", Repeated(1,
       Body(<<Literal(Members("ItemDescriptorType", {"ITEM_TAG"}), Field({}))>>))),
     StructIn(<<"ItemStackRequestCereal">>, "NetworkItemInstanceDescriptorData", Repeated(1,
       Body(<<Field({"BlockRuntimeId", "EmptyItemDescriptorData", "ItemNameDescriptorData",
       "ItemTagDescriptorData", "MolangItemDescriptorData"})>>))),
     StructIn(<<"ItemStackRequestCereal">>, "RecipeIngredientData", Repeated(1,
       Body(<<Field({"EmptyItemDescriptorData", "ItemNameDescriptorData", "ItemTagDescriptorData",
       "MolangItemDescriptorData"})>>))),
     StructIn(<<"ItemStackRequestCereal">>, "SlotInfoData", Repeated(1,
       Body(<<Field({"FullContainerName"})>>))),
     StructIn(<<"ItemStackRequestCereal">>, "TakeActionData", Repeated(1,
       Body(<<Literal(Members("ItemStackRequestActionType", {"TAKE"}), Field({})),
       Field({"SlotInfoData"})>>))),
     StructIn(<<"ItemStackRequestCereal">>, "PlaceActionData", Repeated(1,
       Body(<<Literal(Members("ItemStackRequestActionType", {"PLACE"}), Field({})),
       Field({"SlotInfoData"})>>))),
     StructIn(<<"ItemStackRequestCereal">>, "SwapActionData", Repeated(1,
       Body(<<Literal(Members("ItemStackRequestActionType", {"SWAP"}), Field({})),
       Field({"SlotInfoData"})>>))),
     StructIn(<<"ItemStackRequestCereal">>, "DropActionData", Repeated(1,
       Body(<<Literal(Members("ItemStackRequestActionType", {"DROP"}), Field({})),
       Field({"SlotInfoData"})>>))),
     StructIn(<<"ItemStackRequestCereal">>, "DestroyActionData", Repeated(1,
       Body(<<Literal(Members("ItemStackRequestActionType", {"DESTROY"}), Field({})),
       Field({"SlotInfoData"})>>))),
     StructIn(<<"ItemStackRequestCereal">>, "ConsumeActionData", Repeated(1,
       Body(<<Literal(Members("ItemStackRequestActionType", {"CONSUME"}), Field({})),
       Field({"SlotInfoData"})>>))),
     StructIn(<<"ItemStackRequestCereal">>, "CreateActionData", Repeated(1,
       Body(<<Literal(Members("ItemStackRequestActionType", {"CREATE"}), Field({}))>>))),
     StructIn(<<"ItemStackRequestCereal">>, "LabTableCombineActionData", Repeated(1,
       Body(<<Literal(Members("ItemStackRequestActionType", {"SCREEN_LAB_TABLE_COMBINE"}), Field({}))>>))),
     StructIn(<<"ItemStackRequestCereal">>, "BeaconPaymentActionData", Repeated(1,
       Body(<<Literal(Members("ItemStackRequestActionType", {"SCREEN_BEACON_PAYMENT"}), Field({}))>>))),
     StructIn(<<"ItemStackRequestCereal">>, "MineBlockActionData", Repeated(1,
       Body(<<Literal(Members("ItemStackRequestActionType", {"SCREEN_HUD_MINE_BLOCK"}), Field({}))>>))),
     StructIn(<<"ItemStackRequestCereal">>, "CraftRecipeActionData", Repeated(1,
       Body(<<Literal(Members("ItemStackRequestActionType", {"CRAFT_RECIPE"}), Field({})),
       Field({"RecipeNetId"})>>))),
     StructIn(<<"ItemStackRequestCereal">>, "CraftRecipeAutoActionData", Repeated(1,
       Body(<<Literal(Members("ItemStackRequestActionType", {"CRAFT_RECIPE_AUTO"}), Field({})),
       Field({"RecipeIngredientData", "RecipeNetId"})>>))),
     StructIn(<<"ItemStackRequestCereal">>, "CraftCreativeActionData", Repeated(1,
       Body(<<Literal(Members("ItemStackRequestActionType", {"CRAFT_CREATIVE"}), Field({}))>>))),
     StructIn(<<"ItemStackRequestCereal">>, "CraftRecipeOptionalActionData", Repeated(1,
       Body(<<Literal(Members("ItemStackRequestActionType", {"CRAFT_RECIPE_OPTIONAL"}), Field({})),
       Field({"RecipeNetId"})>>))),
     StructIn(<<"ItemStackRequestCereal">>, "CraftRepairAndDisenchantActionData", Repeated(1,
       Body(<<Literal(Members("ItemStackRequestActionType", {"CRAFT_REPAIR_AND_DISENCHANT"}),
       Field({}))>>))),
     StructIn(<<"ItemStackRequestCereal">>, "CraftLoomActionData", Repeated(1,
       Body(<<Literal(Members("ItemStackRequestActionType", {"CRAFT_LOOM"}), Field({}))>>))),
     StructIn(<<"ItemStackRequestCereal">>, "CraftDiscPressActionData", Repeated(1, Over(2225, Open,
       <<Literal(Members("ItemStackRequestActionType", {"CRAFT_RESERVED_ACTION"}), Field({}))>>))),
     StructIn(<<"ItemStackRequestCereal">>, "CraftNonImplementedActionData", Repeated(1,
       Body(<<Literal(Members("ItemStackRequestActionType",
       {"CRAFT_NON_IMPLEMENTED_DEPRECATEDASKTYLAING"}), Field({}))>>))),
     StructIn(<<"ItemStackRequestCereal">>, "CraftResultsActionData", Repeated(1,
       Body(<<Literal(Members("ItemStackRequestActionType", {"CRAFT_RESULTS_DEPRECATEDASKTYLAING"}),
       Field({})), Field({"NetworkItemInstanceDescriptorData"})>>))),
     StructIn(<<"ItemStackRequestCereal">>, "RequestData", <<In(1, Over(2168, 2225,
       <<Field({"BeaconPaymentActionData", "ConsumeActionData", "CraftCreativeActionData",
       "CraftLoomActionData", "CraftNonImplementedActionData", "CraftRecipeActionData",
       "CraftRecipeAutoActionData", "CraftRecipeOptionalActionData",
       "CraftRepairAndDisenchantActionData", "CraftResultsActionData", "CreateActionData",
       "DestroyActionData", "DropActionData", "ItemStackRequestId", "LabTableCombineActionData",
       "MineBlockActionData", "PlaceActionData", "SwapActionData", "TakeActionData"}),
       Typed(Field({"TextProcessingEventOrigin"}))>>)), In(1, Over(2225, Open,
       <<Field({"BeaconPaymentActionData", "ConsumeActionData", "CraftCreativeActionData",
       "CraftDiscPressActionData", "CraftLoomActionData", "CraftNonImplementedActionData",
       "CraftRecipeActionData", "CraftRecipeAutoActionData", "CraftRecipeOptionalActionData",
       "CraftRepairAndDisenchantActionData", "CraftResultsActionData", "CreateActionData",
       "DestroyActionData", "DropActionData", "ItemStackRequestId", "LabTableCombineActionData",
       "MineBlockActionData", "PlaceActionData", "SwapActionData", "TakeActionData"}),
       Typed(Field({"TextProcessingEventOrigin"}))>>))>>),
     Struct("ItemStackRequestCereal", <<Over(2168, Open, <<>>)>>) >>

ItemStackFromItemStackRequestPacket ==
  << Packet("ItemStackRequestPacket", 147, <<Over(0, 2168, <<Field({"ItemStackRequestData"})>>),
    Over(2168, Open, <<FieldOf({<<"ItemStackRequestCereal", "RequestData">>})>>)>>),
     Struct("ItemStackRequestSlotInfo", <<Over(0, 2168, <<Field({"FullContainerName"})>>)>>),
     Struct("ItemStackRequestActionTake", <<Over(0, 2168,
       <<Field({"ItemStackRequestSlotInfo"})>>)>>),
     Struct("ItemStackRequestActionPlace", <<Over(0, 2168,
       <<Field({"ItemStackRequestSlotInfo"})>>)>>),
     Struct("ItemStackRequestActionSwap", <<Over(0, 2168,
       <<Field({"ItemStackRequestSlotInfo"})>>)>>),
     Struct("ItemStackRequestActionDrop", <<Over(0, 2168,
       <<Field({"ItemStackRequestSlotInfo"})>>)>>),
     Struct("ItemStackRequestActionDestroy", <<Over(0, 2168,
       <<Field({"ItemStackRequestSlotInfo"})>>)>>),
     Struct("ItemStackRequestActionConsume", <<Over(0, 2168,
       <<Field({"ItemStackRequestSlotInfo"})>>)>>),
     Struct("ItemStackRequestActionCreate", <<Over(0, 2168, <<>>)>>),
     Struct("ItemStackRequestActionLabTableCombine", <<Over(0, 2168, <<>>)>>),
     Struct("ItemStackRequestActionBeaconPayment", <<Over(0, 2168, <<>>)>>),
     Struct("ItemStackRequestActionMineBlock", <<Over(0, 2168, <<>>)>>),
     Struct("ItemStackRequestActionCraftRecipe", <<Over(0, 2168, <<Field({"RecipeNetId"})>>)>>),
     Struct("ItemStackRequestActionCraftRecipeAuto", <<Over(0, 2168,
       <<Field({"RecipeNetId", "SerializedRecipeIngredient"})>>)>>),
     Struct("ItemStackRequestActionCraftCreative", <<Over(0, 2168,
       <<Field({"CreativeItemNetId"})>>)>>),
     Struct("ItemStackRequestActionCraftRecipeOptional", <<Over(0, 2168,
       <<Field({"RecipeNetId"})>>)>>),
     Struct("ItemStackRequestActionCraftGrindstone", <<Over(0, 2168, <<>>)>>),
     Struct("ItemStackRequestActionCraftLoom", <<Over(0, 2168, <<>>)>>),
     Struct("ItemStackRequestActionCraftNonImplemented_DEPRECATEDASKTYLAING", <<Over(0, 2168,
       <<>>)>>),
     Struct("ItemStackRequestActionCraftResults_DEPRECATEDASKTYLAING", <<Over(0, 2168,
       <<Field({"SerializedNetworkItemInstanceDescriptor"})>>)>>) >>

ItemStackFromItemStackRequestData ==
  << Struct("ItemStackRequestData", <<Over(0, 2168, <<Field({"ItemStackRequestActionBeaconPayment",
    "ItemStackRequestActionConsume", "ItemStackRequestActionCraftCreative",
    "ItemStackRequestActionCraftGrindstone", "ItemStackRequestActionCraftLoom",
    "ItemStackRequestActionCraftNonImplemented_DEPRECATEDASKTYLAING",
    "ItemStackRequestActionCraftRecipe", "ItemStackRequestActionCraftRecipeAuto",
    "ItemStackRequestActionCraftRecipeOptional",
    "ItemStackRequestActionCraftResults_DEPRECATEDASKTYLAING", "ItemStackRequestActionCreate",
    "ItemStackRequestActionDestroy", "ItemStackRequestActionDrop",
    "ItemStackRequestActionLabTableCombine", "ItemStackRequestActionMineBlock",
    "ItemStackRequestActionPlace", "ItemStackRequestActionSwap", "ItemStackRequestActionTake",
    "ItemStackRequestId"}), Typed(Field({"TextProcessingEventOrigin"}))>>)>>) >>

ItemStackModule ==
  Module("protocol.item_stack", {"protocol", "protocol.common", "protocol.crafting",
    "protocol.inventory", "protocol.item", "protocol.molang"}, {},
    ItemStackFromItemStackRequestActionType \o ItemStackFromItemStackResponseSlotInfo \o
    ItemStackFromItemStackRequestCereal \o ItemStackFromItemStackRequestPacket \o
    ItemStackFromItemStackRequestData)

-----------------------------------------------------------------------------
(* protocol/crafting.py                                                    *)

CraftingFromCreativeItemCategory ==
  << Enum("CreativeItemCategory", <<Based("uint8", Body(<<Is(0, 7), Autos(1)>>))>>),
     Enum("CraftingDataEntryType", Once(<<Named("SHAPELESS_RECIPE", Is(0, 1)),
       Named("SHAPED_RECIPE", Is(1, 1)), Named("FURNACE_RECIPE", Until(975, Is(2, 1))),
       Named("FURNACE_AUX_RECIPE", Until(975, Is(3, 1))), Named("MULTI_RECIPE", Is(4, 1)),
       Named("USER_DATA_SHAPELESS_RECIPE", Is(5, 1)), Named("SHAPELESS_CHEMISTRY_RECIPE", Is(6, 1)),
       Named("SHAPED_CHEMISTRY_RECIPE", Is(7, 1)), Named("SMITHING_TRANSFORM_RECIPE", Is(8, 1)),
       Named("SMITHING_TRIM_RECIPE", Is(9, 1)), Autos(1)>>)),
     Struct("RecipeNetId", Once(<<>>)),
     Struct("CreativeItemNetId", Once(<<>>)),
     Struct("SerializedNetworkItemInstanceDescriptor", <<Over(0, 2168, <<Named("id", Field({})),
       When({"id"}, {}, Field({})), When({"id"}, {}, Field({})),
       When({"id"}, {}, Typed(Field({"BlockRuntimeId"}))), When({"id"}, {}, Field({}))>>),
       Over(2168, Open, <<>>)>>),
     Struct("SerializedRecipeIngredient", <<Over(0, 2168, <<Field({"ItemDescriptor"})>>), Over(2168,
       Open, <<>>)>>),
     EnumIn(<<"SerializedRecipeUnlockingRequirement">>, "UnlockingContext", Repeated(2,
       Body(<<Named("NONE", Is(0, 1)), Is(1, 3)>>))),
     Struct("SerializedRecipeUnlockingRequirement", <<Over(0, 2168,
       <<Named("context", Typed(Field({"UnlockingContext"}))), When({"context"},
       Members("UnlockingContext", {"NONE"}), Field({"SerializedRecipeIngredient"}))>>), Over(2168,
       Open, <<Field({"SerializedRecipeIngredient", "UnlockingContext"})>>)>>),
     Struct("ShapedRecipePayload", <<Over(0, 2168, <<Named("width", Field({})),
       Named("height", Field({})),
       When({"height", "width"}, {}, Field({"SerializedRecipeIngredient"})), Field({"RecipeNetId",
       "SerializedNetworkItemInstanceDescriptor", "SerializedRecipeUnlockingRequirement"})>>),
       Over(2168, Open, <<Field({"RecipeNetId", "SerializedNetworkItemInstanceDescriptor",
       "SerializedRecipeIngredient", "SerializedRecipeUnlockingRequirement"})>>)>>) >>

CraftingFromShapelessRecipePayload ==
  << Struct("ShapelessRecipePayload", <<Over(0, 2168, <<Field({"RecipeNetId",
    "SerializedNetworkItemInstanceDescriptor", "SerializedRecipeIngredient",
    "SerializedRecipeUnlockingRequirement"})>>), Over(2168, Open, <<Field({"RecipeNetId",
    "SerializedNetworkItemInstanceDescriptor", "SerializedRecipeIngredient",
    "SerializedRecipeUnlockingRequirement"})>>)>>),
     Struct("MultiRecipePayload", Once(<<Field({"RecipeNetId"})>>)),
     Struct("SmithingTransformRecipePayload", Once(<<Field({"RecipeNetId",
       "SerializedNetworkItemInstanceDescriptor", "SerializedRecipeIngredient"})>>)),
     Struct("SmithingTrimRecipePayload",
       Once(<<Field({"RecipeNetId", "SerializedRecipeIngredient"})>>)),
     Struct("PotionMixDataEntry", Once(<<>>)),
     Struct("ContainerMixDataEntry", Once(<<>>)),
     Struct("MaterialReducerEntryOutput", Once(<<>>)),
     Struct("MaterialReducerDataEntry", Once(<<Field({"MaterialReducerEntryOutput"})>>)),
     Packet("CraftingDataPacket", 52, <<Over(0, 2168, <<Field({"ContainerMixDataEntry",
       "CraftingDataEntry", "MaterialReducerDataEntry", "PotionMixDataEntry"})>>), Over(2168, Open,
       <<Field({"ContainerMixDataEntry", "MaterialReducerDataEntry", "MultiRecipePayload",
       "PotionMixDataEntry", "ShapedRecipePayload", "ShapelessRecipePayload",
       "SmithingTransformRecipePayload", "SmithingTrimRecipePayload"})>>)>>),
     Struct("CreativeGroupInfoPayload", <<Over(776, 2168, <<Typed(Field({"CreativeItemCategory"})),
       Field({"SerializedNetworkItemInstanceDescriptor"})>>), Over(2168, Open,
       <<Field({"CreativeItemCategory", "SerializedNetworkItemInstanceDescriptor"})>>)>>),
     Struct("CreativeItemEntryPayload",
       Once(<<Field({"CreativeItemNetId", "SerializedNetworkItemInstanceDescriptor"}),
       Since(776, Field({}))>>)),
     Packet("CreativeContentPacket", 145, Once(<<Since(776, Field({"CreativeGroupInfoPayload"})),
       Field({"CreativeItemEntryPayload"})>>)),
     Enum("LabTableReactionType", <<Based("uint8", Body(<<Is(0, 13)>>))>>),
     EnumIn(<<"LabTablePacket">>, "Type", Repeated(1, Based("uint8", Body(<<Is(0, 3)>>)))),
     Packet("LabTablePacket", 109, Once(<<Field({"BlockPos", "LabTableReactionType", "Type"})>>)) >>

CraftingFromUnlockedRecipesPacket ==
  << EnumIn(<<"UnlockedRecipesPacket">>, "PacketType", Repeated(1, Based("uint32",
    Body(<<Is(0, 5)>>)))),
     Packet("UnlockedRecipesPacket", 199, Once(<<Typed(Field({"PacketType"}))>>)),
     EnumIn(<<"ItemDescriptor">>, "InternalType", Repeated(1, Based("uint8", Body(<<Is(0, 1),
       Named("DEFAULT", Is(1, 1)), Named("MOLANG", Is(2, 1)), Named("ITEM_TAG", Is(3, 1)),
       Named("DEFERRED", Is(4, 1)), Named("COMPLEX_ALIAS", Is(5, 1))>>)))),
     Struct("ItemDescriptor", <<Over(0, 2168, <<Named("internal_type", Field({"InternalType"})),
       Named("id", When({"internal_type"}, Members("InternalType", {"DEFAULT"}), Field({}))),
       When({"internal_type"}, Members("InternalType", {"COMPLEX_ALIAS", "DEFERRED", "ITEM_TAG",
       "MOLANG"}), Field({})),
       When({"internal_type"}, Members("InternalType", {"MOLANG"}), Field({})), When({"id",
       "internal_type"}, Members("InternalType", {"DEFAULT", "DEFERRED"}), Field({}))>>)>>),
     Struct("ShapedChemistryRecipePayload", <<Over(0, 2168, <<Named("width", Field({})),
       Named("height", Field({})),
       When({"height", "width"}, {}, Field({"SerializedRecipeIngredient"})),
       Field({"RecipeNetId", "SerializedNetworkItemInstanceDescriptor"})>>)>>),
     Struct("ShapelessChemistryRecipePayload", <<Over(0, 2168, <<Field({"RecipeNetId",
       "SerializedNetworkItemInstanceDescriptor", "SerializedRecipeIngredient"})>>)>>) >>

CraftingFromCraftingDataEntry ==
  << Struct("CraftingDataEntry", <<Over(0, 748,
    <<Named("entry_type", Field({"CraftingDataEntryType"})), When({"entry_type"},
    Members("CraftingDataEntryType", {"SHAPELESS_RECIPE"}), Field({"ShapelessRecipePayload"})),
    When({"entry_type"}, Members("CraftingDataEntryType", {"SHAPELESS_CHEMISTRY_RECIPE",
    "USER_DATA_SHAPELESS_RECIPE"}), Field({"ShapelessChemistryRecipePayload"})),
    When({"entry_type"}, Members("CraftingDataEntryType", {"SHAPED_RECIPE"}),
    Field({"ShapedRecipePayload"})), When({"entry_type"}, Members("CraftingDataEntryType",
    {"SHAPED_CHEMISTRY_RECIPE"}), Field({"ShapedChemistryRecipePayload"})), When({"entry_type"},
    Members("CraftingDataEntryType", {"MULTI_RECIPE"}), Field({"MultiRecipePayload"})),
    When({"entry_type"}, Members("CraftingDataEntryType", {"SMITHING_TRANSFORM_RECIPE"}),
    Field({"SmithingTransformRecipePayload"})), When({"entry_type"},
    Members("CraftingDataEntryType", {"SMITHING_TRIM_RECIPE"}),
    Field({"SmithingTrimRecipePayload"})), Until(975, When({"entry_type"},
    Members("CraftingDataEntryType", {"FURNACE_AUX_RECIPE", "FURNACE_RECIPE"}), Field({}))),
    Until(975, When({"entry_type"}, Members("CraftingDataEntryType", {"FURNACE_AUX_RECIPE"}),
    Field({}))), Until(975, When({"entry_type"}, Members("CraftingDataEntryType",
    {"FURNACE_AUX_RECIPE", "FURNACE_RECIPE"}), Field({"SerializedNetworkItemInstanceDescriptor"}))),
    Until(975, When({"entry_type"}, Members("CraftingDataEntryType", {"FURNACE_AUX_RECIPE",
    "FURNACE_RECIPE"}), Field({})))>>), Over(748, 2168,
    <<Named("entry_type", Field({"CraftingDataEntryType"})), When({"entry_type"},
    Members("CraftingDataEntryType", {"SHAPELESS_RECIPE", "USER_DATA_SHAPELESS_RECIPE"}),
    Field({"ShapelessRecipePayload"})), When({"entry_type"}, Members("CraftingDataEntryType",
    {"SHAPELESS_CHEMISTRY_RECIPE"}), Field({"ShapelessChemistryRecipePayload"})),
    When({"entry_type"}, Members("CraftingDataEntryType", {"SHAPED_RECIPE"}),
    Field({"ShapedRecipePayload"})), When({"entry_type"}, Members("CraftingDataEntryType",
    {"SHAPED_CHEMISTRY_RECIPE"}), Field({"ShapedChemistryRecipePayload"})), When({"entry_type"},
    Members("CraftingDataEntryType", {"MULTI_RECIPE"}), Field({"MultiRecipePayload"})),
    When({"entry_type"}, Members("CraftingDataEntryType", {"SMITHING_TRANSFORM_RECIPE"}),
    Field({"SmithingTransformRecipePayload"})), When({"entry_type"},
    Members("CraftingDataEntryType", {"SMITHING_TRIM_RECIPE"}),
    Field({"SmithingTrimRecipePayload"})), Until(975, When({"entry_type"},
    Members("CraftingDataEntryType", {"FURNACE_AUX_RECIPE", "FURNACE_RECIPE"}), Field({}))),
    Until(975, When({"entry_type"}, Members("CraftingDataEntryType", {"FURNACE_AUX_RECIPE"}),
    Field({}))), Until(975, When({"entry_type"}, Members("CraftingDataEntryType",
    {"FURNACE_AUX_RECIPE", "FURNACE_RECIPE"}), Field({"SerializedNetworkItemInstanceDescriptor"}))),
    Until(975, When({"entry_type"}, Members("CraftingDataEntryType", {"FURNACE_AUX_RECIPE",
    "FURNACE_RECIPE"}), Field({})))>>)>>) >>

CraftingModule ==
  Module("protocol.crafting", {"protocol", "protocol.common"}, {}, CraftingFromCreativeItemCategory
    \o CraftingFromShapelessRecipePayload \o CraftingFromUnlockedRecipesPacket \o
    CraftingFromCraftingDataEntry)

-----------------------------------------------------------------------------
(* protocol/transaction.py                                                 *)

TransactionFromInventorySourceType ==
  << Enum("InventorySourceType", <<Based("uint32", Body(<<Is(-1, 1),
    Named("CONTAINER_INVENTORY", Is(0, 1)), Is(1, 1), Named("WORLD_INTERACTION", Is(2, 1)),
    Is(3, 1), Named("NON_IMPLEMENTED_FEATURE_TODO", Is(99999, 1))>>))>>),
     Struct("LegacySetSlot", Once(<<Field({"ContainerEnumName"})>>)),
     EnumIn(<<"InventorySource">>, "InventorySourceFlags", Repeated(2, Based("uint32",
       Body(<<Is(0, 2)>>)))),
     Struct("InventorySource", <<Over(0, 1001, <<Named("type", Field({"InventorySourceType"})),
       When({"type"}, Members("InventorySourceType", {"CONTAINER_INVENTORY",
       "NON_IMPLEMENTED_FEATURE_TODO"}), Typed(Field({"ContainerID"}))), When({"type"},
       Members("InventorySourceType", {"WORLD_INTERACTION"}), Field({"InventorySourceFlags"}))>>),
       Over(1001, Open, <<Field({"InventorySourceType"}), Until(2193, Field({})),
       Field({"ContainerID"}), Until(2193, Field({})), Field({"InventorySourceFlags"})>>)>>),
     Struct("InventoryAction", <<Over(0, 1001,
       <<Field({"InventorySource", "NetworkItemStackDescriptor"})>>), Over(1001, Open,
       <<Field({"InventorySource", "SerializedNetworkItemStackDescriptor"})>>)>>),
     Struct("InventoryTransaction", Once(<<Gated(1001, 2193, Field({})),
       Field({"InventoryAction"})>>)),
     Struct("NormalTransactionData", Once(<<Field({"InventoryTransaction"})>>)),
     Struct("InventoryMismatchData", Once(<<Field({"InventoryTransaction"})>>)) >>

TransactionFromItemUseInventoryTransaction ==
  << EnumIn(<<"ItemUseInventoryTransaction">>, "ActionType", Repeated(3, Body(<<Is(0, 3),
    Since(844, Is(3, 1))>>))),
     EnumIn(<<"ItemUseInventoryTransaction">>, "TriggerType", Repeated(3, Based("uint8",
       Body(<<Is(0, 3)>>)))),
     EnumIn(<<"ItemUseInventoryTransaction">>, "PredictedResult", Repeated(3, Based("uint8",
       Body(<<Is(0, 2)>>)))),
     EnumIn(<<"ItemUseInventoryTransaction">>, "ClientCooldownState", Repeated(3, Based("uint8",
       Body(<<Is(0, 2)>>)))),
     Struct("ItemUseInventoryTransaction", <<Over(0, 944, <<Field({"InventoryTransaction"}),
       Typed(Field({"ActionType"})), Field({"BlockRuntimeId", "NetworkBlockPosition",
       "NetworkItemStackDescriptor", "TriggerType", "Vec3"}), Typed(Field({"PredictedResult"}))>>),
       Over(944, 1001, <<Field({"InventoryTransaction"}), Typed(Field({"ActionType"})),
       Field({"BlockPos", "BlockRuntimeId", "NetworkItemStackDescriptor", "TriggerType", "Vec3"}),
       Typed(Field({"PredictedResult"})), Field({"ClientCooldownState"})>>), Over(1001, Open,
       <<Field({"ActionType", "BlockPos", "InventoryTransaction", "TriggerType"}),
       Since(2193, Field({"HandSlot"})), Field({"BlockRuntimeId", "ClientCooldownState",
       "PredictedResult", "SerializedNetworkItemStackDescriptor", "Vec3"})>>)>>) >>

TransactionFromLegacyItemUseInventoryTransaction ==
  << PreCereal(Struct("ItemUseInventoryTransaction", <<Over(0, 944, <<Field({"InventoryAction"}),
    Typed(FieldOf({<<"ItemUseInventoryTransaction", "ActionType">>})),
    FieldOf({<<"BlockRuntimeId">>, <<"ItemUseInventoryTransaction", "TriggerType">>,
    <<"NetworkBlockPosition">>, <<"NetworkItemStackDescriptor">>, <<"Vec3">>}),
    Typed(FieldOf({<<"ItemUseInventoryTransaction", "PredictedResult">>}))>>), Over(944, 1001,
    <<Field({"InventoryAction"}), Typed(FieldOf({<<"ItemUseInventoryTransaction", "ActionType">>})),
    FieldOf({<<"BlockPos">>, <<"BlockRuntimeId">>, <<"ItemUseInventoryTransaction", "TriggerType">>,
    <<"NetworkItemStackDescriptor">>, <<"Vec3">>}),
    Typed(FieldOf({<<"ItemUseInventoryTransaction", "PredictedResult">>})),
    FieldOf({<<"ItemUseInventoryTransaction", "ClientCooldownState">>})>>), Over(1001, Open,
    <<Field({"InventoryAction"}), Typed(FieldOf({<<"ItemUseInventoryTransaction", "ActionType">>})),
    FieldOf({<<"BlockPos">>, <<"BlockRuntimeId">>, <<"ItemUseInventoryTransaction",
    "ClientCooldownState">>, <<"ItemUseInventoryTransaction", "PredictedResult">>,
    <<"ItemUseInventoryTransaction", "TriggerType">>, <<"SerializedNetworkItemStackDescriptor">>,
    <<"Vec3">>})>>)>>)),
     EnumIn(<<"ItemUseOnActorInventoryTransaction">>, "ActionType", Repeated(2,
       Body(<<Is(0, 3)>>))),
     Struct("ItemUseOnActorInventoryTransaction", <<Over(0, 1001,
       <<Field({"ActorRuntimeID", "InventoryTransaction"}), Typed(Field({"ActionType"})),
       Field({"NetworkItemStackDescriptor", "Vec3"})>>), Over(1001, Open,
       <<Field({"ActionType", "ActorRuntimeID", "InventoryTransaction"}),
       Since(2225, Field({"HandSlot"})),
       Field({"SerializedNetworkItemStackDescriptor", "Vec3"})>>)>>),
     EnumIn(<<"ItemReleaseInventoryTransaction">>, "ActionType", Repeated(2, Body(<<Is(0, 2)>>))),
     Struct("ItemReleaseInventoryTransaction", <<Over(0, 1001, <<Field({"InventoryTransaction"}),
       Typed(Field({"ActionType"})), Field({"NetworkItemStackDescriptor", "Vec3"})>>), Over(1001,
       Open, <<Field({"ActionType", "InventoryTransaction", "SerializedNetworkItemStackDescriptor",
       "Vec3"}), Since(2225, Field({"HandSlot"}))>>)>>),
     Packet("InventoryTransactionPacket", 30, <<Over(0, 1001,
       <<Named("legacy_request_id", Field({})),
       When({"legacy_request_id"}, {}, Field({"LegacySetSlot"})), Field({"TransactionData"})>>),
       Over(1001, Open, <<Field({"LegacySetSlot"}), Until(2193, Field({})),
       Field({"TransactionData"})>>)>>) >>

TransactionModule ==
  Module("protocol.transaction", {"protocol", "protocol.actor", "protocol.common",
    "protocol.inventory", "protocol.item", "protocol.network"}, {[name |-> "TransactionData", refs
    |-> {<<"InventoryMismatchData">>, <<"ItemReleaseInventoryTransaction">>,
    <<"ItemUseInventoryTransaction">>, <<"ItemUseOnActorInventoryTransaction">>,
    <<"NormalTransactionData">>}]}, TransactionFromInventorySourceType \o
    TransactionFromItemUseInventoryTransaction \o TransactionFromLegacyItemUseInventoryTransaction)
=============================================================================
