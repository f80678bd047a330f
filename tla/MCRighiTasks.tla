------------------------------ MODULE MCRighiTasks ------------------------------
(* RighiTasks with a few tasks: a shell that creates, forks, kills and exits, a    *)
(* thread or process of the shell that can have a thread, waits for it and may be  *)
(* killed meanwhile, and that thread, which just runs.                             *)
EXTENDS RighiTasks

CONSTANTS sh, ch, th
MCProgram ==
    [t \in Task |->
        CASE t = sh -> {"DOWN", "create", "fork", "kill", "exit"}
          [] t = ch -> {"DOWN", "create", "waitpid", "exit"}
          [] t = th -> {}
          [] OTHER -> {}]
================================================================================
