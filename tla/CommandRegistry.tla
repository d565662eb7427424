-------------------------- MODULE CommandRegistry --------------------------
(***************************************************************************)
(* The delivery policy of each command type: internal/command/registry.go. *)
(* A type's row in the specs table is split into the sets the delivery     *)
(* code asks about: its lane, its attempt cap, and whether it is live-only.*)
(* The set InstallShaped comes from internal/product/commands.go.          *)
(***************************************************************************)
EXTENDS Naturals

InstallLane  == {"install_apk", "app_update", "uninstall", "pull_apk"}
FirmwareLane == {"ota"}
DeviceLane   == {"reboot", "wipe", "unenroll", "move_server", "lost_mode"}
ShellLane    == {"shell", "collect_logs", "screenshot", "mic_gain_read",
                 "mic_gain_set", "adb_tcp"}
CanaryLane   == {"canary"}
DefaultLane  == {"config", "wifi_config", "update_splash",
                 "start_capture", "stop_capture"}

CommandTypes == UNION {InstallLane, FirmwareLane, DeviceLane, ShellLane,
                       CanaryLane, DefaultLane}

\* The queue a type serializes in.
Lane(t) == CASE t \in InstallLane  -> "install"
             [] t \in FirmwareLane -> "firmware"
             [] t \in DeviceLane   -> "device"
             [] t \in ShellLane    -> "shell"
             [] t \in CanaryLane   -> "canary"
             [] OTHER              -> "default"

\* Hand-outs allowed; 0 is unlimited.
MaxAttempts(t) ==
    IF t \in {"wipe", "unenroll", "move_server", "canary"} THEN 1 ELSE 0

\* Never queued, never handed out over HTTP.
LiveOnly == {"start_capture", "stop_capture"}

\* Mutant of InstallShaped: the agent's own update is forgotten.
InstallShapedApkOnly == {"install_apk"}

\* Types that report 'downloading'/'installing' and expire on inactivity.
InstallShaped == {"install_apk", "app_update"}

\* Types the per-device gate neither holds back nor is held by.
GateExempt == {"ota", "canary"}
=============================================================================
