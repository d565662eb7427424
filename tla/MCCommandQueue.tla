--------------------------- MODULE MCCommandQueue ---------------------------
(* Small instances of CommandQueue for TLC: which types the commands have. *)
EXTENDS CommandQueue, TLC

WorkerSymmetry == Permutations(Workers)

MCOneReboot    == <<"reboot">>
MCOneShell     == <<"shell">>
MCOneInstall   == <<"install_apk">>
MCInstallLane  == <<"app_update", "install_apk">>
=============================================================================
