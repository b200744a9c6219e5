-------------------------- MODULE SessionDiscovery --------------------------
(***************************************************************************)
(* discover_sessions (crates/main/src/session.rs): the walk over the       *)
(* directories of desktop files, once, when the greeter starts.            *)
(* read_dir gives the files of a directory in any order, and packages may  *)
(* be installed, upgraded or removed under the walk.  Of a desktop file    *)
(* only this matters: whether parse_session_file accepts it, the place its *)
(* Name has in the alphabet, and whether its names match the configured    *)
(* default.                                                                *)
(***************************************************************************)
EXTENDS Naturals, FiniteSets

CONSTANTS
  NumDirs,        \* SESSION_DIRS, those of Wayland sessions first
  NumIds,         \* desktop-file ids, in the order of BTreeMap
  MaxName,        \* bound: names, in their order
  ConfiguredIds,  \* the ids that match the configured default by themselves
  MaxInstalls     \* bound: changes to the directories during the walk

ASSUME DirsAssumption == NumDirs \in Nat /\ NumIds \in Nat /\ MaxName \in Nat
ASSUME InstallsAssumption == MaxInstalls \in Nat

Dir == 1 .. NumDirs
Id == 1 .. NumIds

VARIABLES
  disk,      \* disk[d][id]: <id>.desktop in that directory
  walk,      \* "dirs", "entries", "done" or "failed"
  dir,       \* directory of the walk
  unread,    \* files of it still to be read
  sessions,  \* sessions[id]: the accepted entry and its directory
  list,      \* the ids as the form shows them
  installs,  \* changes so far
  ever       \* history, ever[d][id]: what was there since the walk began

sessionVars == <<disk, walk, dir, unread, sessions, list, installs, ever>>

\* What the walk makes of a desktop file.
Missing == [status |-> "missing", name |-> 0, matches |-> FALSE]
Invalid == [status |-> "invalid", name |-> 0, matches |-> FALSE]
DesktopFile == {Missing, Invalid}
  \cup [status : {"valid"}, name : 1 .. MaxName, matches : BOOLEAN]

Valid(f) == f.status = "valid"
NoSession == [from |-> 0, entry |-> Missing]
Found == {id \in Id : sessions[id] # NoSession}

SessionsTypeOK ==
  /\ disk \in [Dir -> [Id -> DesktopFile]]
  /\ walk \in {"dirs", "entries", "done", "failed"}
  /\ dir \in 1 .. NumDirs + 1
  /\ unread \subseteq Id
  /\ sessions \in [Id -> [from : 0 .. NumDirs, entry : DesktopFile]]
  /\ \E n \in 0 .. NumIds : list \in [1 .. n -> Id]
  /\ installs \in 0 .. MaxInstalls
  /\ ever \in [Dir -> [Id -> SUBSET DesktopFile]]

SessionsInit ==
  /\ disk \in [Dir -> [Id -> DesktopFile]]
  /\ walk = "dirs"
  /\ dir = 1
  /\ unread = {}
  /\ sessions = [id \in Id |-> NoSession]
  /\ list = <<>>
  /\ installs = 0
  /\ ever = [d \in Dir |-> [id \in Id |-> {disk[d][id]}]]

-----------------------------------------------------------------------------

\* A directory that is missing has no files.
OpenDir ==
  /\ walk = "dirs" /\ dir \in Dir
  /\ walk' = "entries"
  /\ unread' = {id \in Id : disk[dir][id] # Missing}
  /\ UNCHANGED <<disk, dir, sessions, list, installs, ever>>

\* read_dir, or one of its entries, fails, and so does the discovery.
WalkFails ==
  /\ \/ walk = "dirs" /\ dir \in Dir
     \/ walk = "entries"
  /\ walk' = "failed"
  /\ unread' = {}
  /\ sessions' = [id \in Id |-> NoSession]
  /\ UNCHANGED <<disk, dir, list, installs, ever>>

\* Mutant: an entry that is not valid takes the place of its id.
AcceptUnvalidated(id, f) ==
  sessions' = IF id \notin Found
              THEN [sessions EXCEPT ![id] = [from |-> dir, entry |-> f]]
              ELSE sessions

\* entry(id).or_insert(session), for a file that was accepted.
Accept(id, f) ==
  sessions' = IF Valid(f) /\ id \notin Found
              THEN [sessions EXCEPT ![id] = [from |-> dir, entry |-> f]]
              ELSE sessions

\* A file may be gone, or another, since it was listed.
ReadEntry(id) ==
  /\ walk = "entries" /\ id \in unread
  /\ unread' = unread \ {id}
  /\ Accept(id, disk[dir][id])
  /\ UNCHANGED <<disk, walk, dir, list, installs, ever>>

CloseDir ==
  /\ walk = "entries" /\ unread = {}
  /\ walk' = "dirs"
  /\ dir' = dir + 1
  /\ UNCHANGED <<disk, unread, sessions, list, installs, ever>>

\* is_default_session
IsDefault(id) == id \in ConfiguredIds \/ sessions[id].entry.matches

\* Mutant: an unstable sort, which turns sessions of the same name around.
BeforeUnstably(i, j) ==
  LET m == sessions[i].entry.name
      n == sessions[j].entry.name
  IN IF IsDefault(i) # IsDefault(j) THEN IsDefault(i)
     ELSE m < n \/ (m = n /\ i > j)

\* sort_by is stable, and the values of a BTreeMap come in the order of ids.
Before(i, j) ==
  LET m == sessions[i].entry.name
      n == sessions[j].entry.name
  IN IF IsDefault(i) # IsDefault(j) THEN IsDefault(i)
     ELSE m < n \/ (m = n /\ i < j)

\* Mutant: positions counted from 0.
SortFromZero ==
  /\ walk = "dirs" /\ dir \notin Dir
  /\ walk' = "done"
  /\ list' = [n \in 0 .. Cardinality(Found) - 1 |->
       CHOOSE j \in Found : Cardinality({i \in Found : Before(i, j)}) = n]
  /\ UNCHANGED <<disk, dir, unread, sessions, installs, ever>>

Sort ==
  /\ walk = "dirs" /\ dir \notin Dir
  /\ walk' = "done"
  /\ list' = [n \in 1 .. Cardinality(Found) |->
       CHOOSE j \in Found : Cardinality({i \in Found : Before(i, j)}) = n - 1]
  /\ UNCHANGED <<disk, dir, unread, sessions, installs, ever>>

\* A package comes, goes or changes.  A file that appears in the directory
\* being read may still be listed.
Install(d, id) ==
  /\ walk \in {"dirs", "entries"} /\ installs < MaxInstalls
  /\ installs' = installs + 1
  /\ \E f \in DesktopFile \ {disk[d][id]} :
       /\ disk' = [disk EXCEPT ![d][id] = f]
       /\ ever' = [ever EXCEPT ![d][id] = @ \cup {f}]
       /\ \/ unread' = unread
          \/ /\ walk = "entries" /\ d = dir /\ disk[d][id] = Missing
             /\ unread' = unread \cup {id}
  /\ UNCHANGED <<walk, dir, sessions, list>>

DiscoverSessions ==
  \/ OpenDir \/ WalkFails \/ CloseDir \/ Sort
  \/ \E id \in Id : ReadEntry(id)

SessionsNext ==
  \/ DiscoverSessions
  \/ \E d \in Dir, id \in Id : Install(d, id)

SessionsSpec == SessionsInit /\ [][SessionsNext]_sessionVars

-----------------------------------------------------------------------------

\* It may be that a directory had no valid entry of the id when it was read.
MayLack(d, id) == \E f \in ever[d][id] : ~Valid(f)

\* For every id the session offered is the valid entry of the first directory
\* that had one, whatever the order in which files are listed and whatever is
\* invalid, vanishes or appears meanwhile: a later directory is only used for
\* want of a valid entry in the earlier ones, and an id is left out only for
\* want of one anywhere.  ("lets the first valid entry win", "One malformed
\* session must not hide all other usable sessions")
FirstValidEntryWins ==
  walk = "done" =>
    \A id \in Id :
      LET s == sessions[id] IN
      /\ id \in Found => s.from \in Dir /\ Valid(s.entry)
                         /\ s.entry \in ever[s.from][id]
      /\ \A d \in Dir : (id \in Found => d < s.from) => MayLack(d, id)

\* The list has every session found once and no other, the default ones first,
\* then by name, and sessions of the same name by id.  That leaves one list for
\* what was found: two starts of the greeter show the same.  (the sort of
\* discover_sessions, whose ties keep the order of the BTreeMap)
ListIsPresentation ==
  walk = "done" =>
    LET n == Cardinality(Found) IN
    /\ DOMAIN list = 1 .. n
    /\ {list[i] : i \in 1 .. n} = Found
    /\ \A i, j \in 1 .. n : i < j =>
         /\ IsDefault(list[j]) => IsDefault(list[i])
         /\ IsDefault(list[i]) = IsDefault(list[j])
              => \/ sessions[list[i]].entry.name < sessions[list[j]].entry.name
                 \/ /\ sessions[list[i]].entry.name = sessions[list[j]].entry.name
                    /\ list[i] < list[j]
=============================================================================
