------------------------------- MODULE MCIpc -------------------------------
(* Instances of Ipc for TLC.  Tasks 3, 4, ... are the modules GRUB loads;  *)
(* names and buffer contents are strings.                                  *)
EXTENDS IpcRefinement

MCSameName == [d \in Drivers |-> "/dev/tty"]
MCOwnName  == [d \in Drivers |-> IF d = 3 THEN "/dev/keyb" ELSE "/dev/video"]
NoTasks    == {}
MCRets     == {-1, 2}
NoFaults   == {}
SomeFaults == {-6, -4, -2}   \* one failing pointer check per system call
=============================================================================
