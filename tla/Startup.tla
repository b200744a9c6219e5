------------------------------ MODULE Startup ------------------------------
(***************************************************************************)
(* The start of the greeter (main in crates/main/src/main.rs): the         *)
(* configuration, the accounts, the sessions and the translations are read *)
(* once, one after the other, and the form opens on that snapshot; an      *)
(* error in any of them ends the process.  The accounts and the sessions   *)
(* have nothing in common, so that a behaviour has either something to     *)
(* find among the accounts or something among the sessions.                *)
(***************************************************************************)
EXTENDS UserDiscovery, SessionDiscovery

VARIABLE main  \* "config", "users", "sessions", "translations", "form" or
               \* "exited"

vars == <<userVars, sessionVars, main>>

AboutUsers == \E l \in Line : passwd[l].kind # "malformed"

Init ==
  /\ UsersInit
  /\ SessionsInit
  /\ IF AboutUsers THEN \A d \in Dir, id \in Id : disk[d][id] = Missing
     ELSE \A l \in Line : avatars[l] = {}
  /\ main = "config"

\* Config::load: a file that is not there is as good as an empty one, one that
\* is malformed or cannot be read is an error.
LoadConfig ==
  /\ main = "config"
  /\ main' \in {"users", "exited"}
  /\ UNCHANGED <<userVars, sessionVars>>

\* /etc/passwd cannot be read.
NoPasswd ==
  /\ main = "users" /\ line = 1 /\ place = 0
  /\ main' = "exited"
  /\ UNCHANGED <<userVars, sessionVars>>

FindUsers ==
  /\ main = "users"
  /\ DiscoverUsers
  /\ main' = IF listed' THEN "sessions" ELSE main
  /\ UNCHANGED sessionVars

FindSessions ==
  /\ main = "sessions"
  /\ DiscoverSessions
  /\ main' = CASE walk' = "done" -> "translations"
               [] walk' = "failed" -> "exited"
               [] OTHER -> main
  /\ UNCHANGED userVars

\* i18n::load
LoadTranslations ==
  /\ main = "translations"
  /\ main' \in {"form", "exited"}
  /\ UNCHANGED <<userVars, sessionVars>>

\* The system meanwhile.  A change outside of the discovery it concerns is one
\* more initial state, or comes too late.
Deploys ==
  /\ main = "users" /\ AboutUsers
  /\ \E l \in Line, p \in Place : Deploy(l, p)
  /\ UNCHANGED <<sessionVars, main>>

Installs ==
  /\ main = "sessions" /\ ~AboutUsers
  /\ \E d \in Dir, id \in Id : Install(d, id)
  /\ UNCHANGED <<userVars, main>>

Next ==
  \/ LoadConfig \/ NoPasswd \/ FindUsers \/ FindSessions
  \/ LoadTranslations
  \/ Deploys \/ Installs

Spec == Init /\ [][Next]_vars
=============================================================================
