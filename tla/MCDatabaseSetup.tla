---------------------------- MODULE MCDatabaseSetup ----------------------------
(* Two starts of the web server or a command and the demo build.  One path names the *)
(* production file itself, one is a link to it, one is a copy of it elsewhere under  *)
(* its name, one is the demo file.                                                   *)
EXTENDS DatabaseSetup, TLC

CONSTANTS production, copy, demo

MCFileAt ==
  ("asm_cleanup.db" :> production) @@ ("link.db" :> production) @@
  ("backup/asm_cleanup.db" :> copy) @@ ("asm_cleanup_demo.db" :> demo)
MCOutput == DOMAIN MCFileAt
===============================================================================
