---------------------------- MODULE MCTaskTable ----------------------------
(* TaskTable alone, with lists of modules as the repository's menus have     *)
(* them: /boot/start.bin is listed, and no module is too long.  The paths'   *)
(* lengths keep the order of the real ones.                                  *)
EXTENDS TaskTable

MCPathLen == [n \in Programs \cup {"task_control", "sys_call", "sys_control"} |->
                CASE n = "keyb" -> 1 [] n \in {"start", "video"} -> 2 [] n = "sys_call" -> 3
                  [] n \in {"background", "sys_control"} -> 4 [] n = "task_control" -> 5]

MCInit ==
    /\ Init
    /\ \E i \in DOMAIN mods : mods[i].name = "start"
    /\ \A i \in DOMAIN mods : mods[i].pag <= MAX_PAG_DRIVER

MCSpec == MCInit /\ [][Next]_vars
=============================================================================
