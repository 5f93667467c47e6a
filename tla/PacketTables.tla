----------------------------- MODULE PacketTables -----------------------------
(***************************************************************************)
(* The generated headers (include/core/protocol/generated): what an id     *)
(* means in each protocol state, and the registries and tags a client is   *)
(* sent.                                                                   *)
(*                                                                         *)
(* The ids of a state are 0 .. n without a gap, so a state is the sequence *)
(* of its packets.  Of a registry only how many entries it has is kept,    *)
(* and of the tags of a registry the highest id among their entries: an    *)
(* entry is named by its place.                                            *)
(***************************************************************************)
EXTENDS Integers, Sequences

ConfigurationClientbound ==
  <<"cookie_request", "custom_payload", "disconnect", "finish_configuration", "keep_alive",
    "ping", "reset_chat", "registry_data", "resource_pack_pop", "resource_pack_push",
    "store_cookie", "transfer", "update_enabled_features", "update_tags", "select_known_packs",
    "custom_report_details", "server_links", "clear_dialog", "show_dialog", "code_of_conduct">>

ConfigurationServerbound ==
  <<"client_information", "cookie_response", "custom_payload", "finish_configuration",
    "keep_alive", "pong", "resource_pack", "select_known_packs", "custom_click_action",
    "accept_code_of_conduct">>

HandshakeServerbound ==
  <<"intention">>

LoginClientbound ==
  <<"login_disconnect", "hello", "login_finished", "login_compression", "custom_query",
    "cookie_request">>

LoginServerbound ==
  <<"hello", "key", "custom_query_answer", "login_acknowledged", "cookie_response">>

PlayClientbound ==
  <<"bundle_delimiter", "add_entity", "animate", "award_stats", "block_changed_ack",
    "block_destruction", "block_entity_data", "block_event", "block_update", "boss_event",
    "change_difficulty", "chunk_batch_finished", "chunk_batch_start", "chunks_biomes",
    "clear_titles", "command_suggestions", "commands", "container_close", "container_set_content",
    "container_set_data", "container_set_slot", "cookie_request", "cooldown",
    "custom_chat_completions", "custom_payload", "damage_event", "block_value", "chunk_value",
    "entity_value", "event", "debug_sample", "delete_chat", "disconnect", "disguised_chat",
    "entity_event", "entity_position_sync", "explode", "forget_level_chunk", "game_event",
    "game_rule_values", "game_test_highlight_pos", "mount_screen_open", "hurt_animation",
    "initialize_border", "keep_alive", "level_chunk_with_light", "level_event", "level_particles",
    "light_update", "login", "low_disk_space_warning", "map_item_data", "merchant_offers",
    "move_entity_pos", "move_entity_pos_rot", "move_minecart_along_track", "move_entity_rot",
    "move_vehicle", "open_book", "open_screen", "open_sign_editor", "ping", "pong_response",
    "place_ghost_recipe", "player_abilities", "player_chat", "player_combat_end",
    "player_combat_enter", "player_combat_kill", "player_info_remove", "player_info_update",
    "player_look_at", "player_position", "player_rotation", "recipe_book_add",
    "recipe_book_remove", "recipe_book_settings", "remove_entities", "remove_mob_effect",
    "reset_score", "resource_pack_pop", "resource_pack_push", "respawn", "rotate_head",
    "section_blocks_update", "select_advancements_tab", "server_data", "set_action_bar_text",
    "set_border_center", "set_border_lerp_size", "set_border_size", "set_border_warning_delay",
    "set_border_warning_distance", "set_camera", "set_chunk_cache_center",
    "set_chunk_cache_radius", "set_cursor_item", "set_default_spawn_position",
    "set_display_objective", "set_entity_data", "set_entity_link", "set_entity_motion",
    "set_equipment", "set_experience", "set_health", "set_held_slot", "set_objective",
    "set_passengers", "set_player_inventory", "set_player_team", "set_score",
    "set_simulation_distance", "set_subtitle_text", "set_time", "set_title_text",
    "set_titles_animation", "sound_entity", "sound", "start_configuration", "stop_sound",
    "store_cookie", "system_chat", "tab_list", "tag_query", "take_item_entity", "teleport_entity",
    "test_instance_block_status", "ticking_state", "ticking_step", "transfer",
    "update_advancements", "update_attributes", "update_mob_effect", "update_recipes",
    "update_tags", "projectile_power", "custom_report_details", "server_links", "waypoint",
    "clear_dialog", "show_dialog">>

PlayServerbound ==
  <<"accept_teleportation", "attack", "block_entity_tag_query", "bundle_item_selected",
    "change_difficulty", "change_game_mode", "chat_ack", "chat_command", "chat_command_signed",
    "chat", "chat_session_update", "chunk_batch_received", "client_command", "client_tick_end",
    "client_information", "command_suggestion", "configuration_acknowledged",
    "container_button_click", "container_click", "container_close",
    "container_slot_state_changed", "cookie_response", "custom_payload",
    "debug_subscription_request", "edit_book", "entity_tag_query", "interact", "jigsaw_generate",
    "keep_alive", "lock_difficulty", "move_player_pos", "move_player_pos_rot", "move_player_rot",
    "move_player_status_only", "move_vehicle", "paddle_boat", "pick_item_from_block",
    "pick_item_from_entity", "ping_request", "place_recipe", "player_abilities", "player_action",
    "player_command", "player_input", "player_loaded", "pong", "recipe_book_change_settings",
    "recipe_book_seen_recipe", "rename_item", "resource_pack", "seen_advancements",
    "select_trade", "set_beacon", "set_carried_item", "set_command_block", "set_command_minecart",
    "set_creative_mode_slot", "set_game_rule", "set_jigsaw_block", "set_structure_block",
    "set_test_block", "sign_update", "spectator_action", "swing", "teleport_to_entity",
    "test_instance_block_action", "use_item_on", "use_item", "custom_click_action">>

StatusClientbound ==
  <<"status_response", "pong_response">>

StatusServerbound ==
  <<"status_request", "ping_request">>

(* The packets the server may send, and those a client may, by state. *)
ClientboundTable ==
  [Handshake |-> <<>>, Status |-> StatusClientbound, Login |-> LoginClientbound,
   Configuration |-> ConfigurationClientbound, Play |-> PlayClientbound]
ServerboundTable ==
  [Handshake |-> HandshakeServerbound, Status |-> StatusServerbound, Login |-> LoginServerbound,
   Configuration |-> ConfigurationServerbound, Play |-> PlayServerbound]

(* all_registries: each of them with the number of its entries, as sent.    *)
AllRegistries ==
  <<[name |-> "banner_pattern", entries |-> 43], [name |-> "cat_sound_variant", entries |-> 1],
    [name |-> "cat_variant", entries |-> 11], [name |-> "chicken_sound_variant", entries |-> 1],
    [name |-> "chicken_variant", entries |-> 3], [name |-> "cow_sound_variant", entries |-> 1],
    [name |-> "cow_variant", entries |-> 3], [name |-> "damage_type", entries |-> 51],
    [name |-> "dimension_type", entries |-> 1], [name |-> "frog_variant", entries |-> 3],
    [name |-> "instrument", entries |-> 8], [name |-> "jukebox_song", entries |-> 22],
    [name |-> "painting_variant", entries |-> 1], [name |-> "pig_sound_variant", entries |-> 1],
    [name |-> "pig_variant", entries |-> 3], [name |-> "timeline", entries |-> 4],
    [name |-> "trim_material", entries |-> 11], [name |-> "trim_pattern", entries |-> 18],
    [name |-> "wolf_sound_variant", entries |-> 1], [name |-> "wolf_variant", entries |-> 9],
    [name |-> "world_clock", entries |-> 2], [name |-> "worldgen/biome", entries |-> 1],
    [name |-> "zombie_nautilus_variant", entries |-> 1], [name |-> "biome", entries |-> 1]>>

(* registry_tags: for each registry the highest id its tags name. *)
RegistryTags ==
  {[registry |-> "fluid", highest |-> 4], [registry |-> "banner_pattern", highest |-> 42],
   [registry |-> "game_event", highest |-> 60],
   [registry |-> "painting_variant", highest |-> 0], [registry |-> "potion", highest |-> 45],
   [registry |-> "item", highest |-> 1531], [registry |-> "timeline", highest |-> 3],
   [registry |-> "entity_type", highest |-> 156],
   [registry |-> "worldgen/biome", highest |-> 0], [registry |-> "instrument", highest |-> 7],
   [registry |-> "damage_type", highest |-> 50],
   [registry |-> "point_of_interest_type", highest |-> 16],
   [registry |-> "block", highest |-> 1195]}
===============================================================================
