---------------------------- MODULE GreeterSetup ----------------------------
(***************************************************************************)
(* argvus-greeter-setup with the greeter beside it.  What the script does  *)
(* to the projections and what it does to greetd's configuration touch no  *)
(* common file, so that a behaviour is looked at for either.               *)
(***************************************************************************)
EXTENDS ThemeProjection, ConfigMigration

VARIABLE concern  \* "themes" or "configuration"

vars == <<themeVars, configVars, concern>>

Init ==
  /\ concern \in {"themes", "configuration"}
  /\ ThemesInit
  /\ ConfigInit
  /\ concern = "themes" => config = Plain("absent")
  /\ concern = "configuration" => source = [a \in Account |->
                                    [theme |-> "none", accent |-> "none"]]

Next ==
  /\ UNCHANGED concern
  /\ \/ concern = "themes" /\ ThemesNext /\ UNCHANGED configVars
     \/ concern = "configuration" /\ ConfigNext /\ UNCHANGED themeVars

Spec == Init /\ [][Next]_vars
=============================================================================
