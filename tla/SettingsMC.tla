----------------------------- MODULE SettingsMC -----------------------------
(***************************************************************************)
(* Settings that depend on each other, a few at a time, and all blocks;    *)
(* and the virtual file system, which keeps its state to itself: a         *)
(* behaviour is one of the component `part'.                               *)
(***************************************************************************)
EXTENDS Settings, Vfs

CONSTANT v1

VARIABLE part   \* the component that runs

Homing == {<<"homing", {"enabled", "init_lock"}>>, <<"homing", {"enabled", "per_axis"}>>,
           <<"homing", {}>>, <<"axis_feed", 2>>, <<"soft_limits", TRUE>>, <<"jog_soft", TRUE>>}
Travel == {<<"homing", {"enabled", "init_lock"}>>, <<"max_travel", 0>>, <<"max_travel", 2>>,
           <<"soft_limits", TRUE>>, <<"max_travel", -1>>}
Motion == {<<"acceleration", 3>>, <<"max_rate", 2>>, <<"homing_feed", 2>>, <<"tool_change", 5>>}
Flags == {<<"hard_limits", {"enabled", "check"}>>, <<"hard_limits", {}>>, <<"mode", "laser">>,
          <<"spindle_invert", {"pwm"}>>, <<"parking", {"enabled", "deactivate_upon_init"}>>,
          <<"reset_actions", {"homing", "offsets"}>>}

Storing == {<<"mode", "standard">>}

MCMenus ==
    {[settings |-> s, blocks |-> {}, restores |-> {}] : s \in {Homing, Travel, Motion, Flags}}
    \cup {[settings |-> Storing,
           blocks |-> Blocks \ {Version, Global, Build},
           restores |-> {{"parameters"}, {"driver_parameters", "startup_lines"}}],
          [settings |-> {}, blocks |-> {Build, Startup(0)}, restores |-> {{"build_info"}}]}
MCDefaults == {[settings |-> Travel, blocks |-> {}, restores |-> {{"defaults"}}]}
MCUnreliable == {Global, Startup(0)}
MCForeign ==
    {[b \in Blocks |-> Torn],
     [b \in Blocks |-> CASE b = Version -> "now"
                         [] b = Global -> [Defaults EXCEPT !.build = "other"]
                         [] OTHER -> v1]}

\* A card at the root, a drive, the hidden pages of the web server, the devices.
MCWhere == [sd |-> << >>, usb |-> <<"usb">>, web |-> <<"web">>, dev |-> <<"dev">>]

-----------------------------------------------------------------------------
StorageInit ==
    /\ part \in {"settings", "files"}
    /\ Init /\ (part = "files" => menu.settings = Storing)
    /\ VfsInit

StorageNext ==
    /\ \/ part = "settings" /\ Next /\ UNCHANGED vfsVars
       \/ part = "files" /\ VfsNext /\ UNCHANGED vars
    /\ UNCHANGED part

StorageSpec == StorageInit /\ [][StorageNext]_<<part, vars, vfsVars>>
=============================================================================
