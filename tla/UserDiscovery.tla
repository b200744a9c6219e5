--------------------------- MODULE UserDiscovery ---------------------------
(***************************************************************************)
(* discover_users (crates/main/src/users.rs): the accounts of /etc/passwd  *)
(* that may log in, each with the avatar found for it, in the order of     *)
(* their display names.  passwd is read at once; the avatars are looked up *)
(* line by line while desktops may deploy or remove them.                  *)
(*                                                                         *)
(* Names are numbers in their alphabetical order.                          *)
(***************************************************************************)
EXTENDS Naturals, FiniteSets

CONSTANTS
  NumLines,   \* lines of /etc/passwd
  MaxGecos,   \* bound: full names in GECOS fields
  MaxDeploys  \* bound: avatars deployed or removed during the discovery

ASSUME LinesAssumption == NumLines \in Nat /\ MaxGecos \in Nat
ASSUME DeploysAssumption == MaxDeploys \in Nat

Line == 1 .. NumLines

\* Where avatar_for looks, in its order: .face, AccountsService's icons, and
\* the Icon= of its users file.
Place == 1 .. 3

VARIABLES
  passwd,   \* the lines
  avatars,  \* avatars[l]: the places with a plain file that can be read
  line,     \* line at hand
  place,    \* place to look at next; 0 before the line is parsed
  users,    \* accepted lines, with the place of the avatar, 4 for none
  order,    \* the accepted lines as the form shows them
  listed,   \* whether they are sorted
  deploys,  \* changes so far
  had,      \* history: the places that had an avatar at some moment of the
            \* lookup of a line, and those that had none
  lacked

lookups == <<had, lacked>>
userVars ==
  <<passwd, avatars, line, place, users, order, listed, deploys, lookups>>

\* A line parse_passwd_line takes has a user name, here that of its place in
\* the file, a GECOS full name or none, and perhaps a home to look for .face
\* in: one that is named, of a user name that is safe as a file name.
PasswdLine ==
  [kind : {"malformed", "system", "disabled"}, gecos : {0}, home : {FALSE}]
  \cup [kind : {"login"}, gecos : 0 .. MaxGecos, home : BOOLEAN]

UsersTypeOK ==
  /\ passwd \in [Line -> PasswdLine]
  /\ avatars \in [Line -> SUBSET Place]
  /\ line \in 1 .. NumLines + 1
  /\ place \in 0 .. 3
  /\ users \in [Line -> 0 .. 4]
  /\ \E n \in 0 .. NumLines : order \in [1 .. n -> Line]
  /\ listed \in BOOLEAN
  /\ deploys \in 0 .. MaxDeploys
  /\ had \in [Line -> SUBSET Place]
  /\ lacked \in [Line -> SUBSET Place]

UsersInit ==
  /\ passwd \in [Line -> PasswdLine]
  /\ \E a \in SUBSET Place : avatars = [l \in Line |-> a]
  /\ line = 1
  /\ place = 0
  /\ users = [l \in Line |-> 0]
  /\ order = <<>>
  /\ listed = FALSE
  /\ deploys = 0
  /\ had = [l \in Line |-> {}]
  /\ lacked = [l \in Line |-> {}]

-----------------------------------------------------------------------------

\* is_login_user, of a line that was parsed.
IsLogin(l) == passwd[l].kind = "login"
Accepted == {l \in Line : users[l] # 0}

Skip ==
  /\ line \in Line /\ place = 0 /\ ~IsLogin(line)
  /\ line' = line + 1
  /\ UNCHANGED <<passwd, avatars, place, users, order, listed, deploys, lookups>>

\* avatar_for: .face is left out if the account has no home for it.
BeginLookup ==
  /\ line \in Line /\ place = 0 /\ IsLogin(line)
  /\ place' = IF passwd[line].home THEN 1 ELSE 2
  /\ had' = [had EXCEPT ![line] = avatars[line]]
  /\ lacked' = [lacked EXCEPT ![line] = Place \ avatars[line]]
  /\ UNCHANGED <<passwd, avatars, line, users, order, listed, deploys>>

Settle(p) ==
  /\ users' = [users EXCEPT ![line] = p]
  /\ line' = line + 1
  /\ place' = 0

\* Mutant: AccountsService is not asked when the home was.
LookThereOnly ==
  /\ line \in Line /\ place \in Place
  /\ IF place \in avatars[line] THEN Settle(place)
     ELSE IF place \in {1, 3} THEN Settle(4)
     ELSE place' = place + 1 /\ UNCHANGED <<line, users>>
  /\ UNCHANGED <<passwd, avatars, order, listed, deploys, lookups>>

\* Mutant: the search goes on after the last place.
LookFurther ==
  /\ line \in Line /\ place \in Place
  /\ IF place \in avatars[line] THEN Settle(place)
     ELSE place' = place + 1 /\ UNCHANGED <<line, users>>
  /\ UNCHANGED <<passwd, avatars, order, listed, deploys, lookups>>

\* is_regular_readable_file; of the users file the first Icon= that qualifies.
Look ==
  /\ line \in Line /\ place \in Place
  /\ IF place \in avatars[line] THEN Settle(place)
     ELSE IF place = 3 THEN Settle(4)
     ELSE place' = place + 1 /\ UNCHANGED <<line, users>>
  /\ UNCHANGED <<passwd, avatars, order, listed, deploys, lookups>>

\* display_name: the full name, or else the user name.
DisplayName(l) == IF passwd[l].gecos = 0 THEN l ELSE passwd[l].gecos

\* Mutant: of two accounts with one name the later comes first.
PrecedesUnstably(l, m) ==
  DisplayName(l) < DisplayName(m) \/ (DisplayName(l) = DisplayName(m) /\ l > m)

\* sort_by is stable.
Precedes(l, m) ==
  DisplayName(l) < DisplayName(m) \/ (DisplayName(l) = DisplayName(m) /\ l < m)

SortUsers ==
  /\ line \notin Line /\ ~listed
  /\ listed' = TRUE
  /\ order' = [n \in 1 .. Cardinality(Accepted) |->
       CHOOSE m \in Accepted :
         Cardinality({l \in Accepted : Precedes(l, m)}) = n - 1]
  /\ UNCHANGED <<passwd, avatars, line, place, users, deploys, lookups>>

\* Somebody's avatar is deployed or removed.
Deploy(l, p) ==
  /\ line \in Line /\ deploys < MaxDeploys
  /\ deploys' = deploys + 1
  /\ avatars' = [avatars EXCEPT ![l] = IF p \in @ THEN @ \ {p} ELSE @ \cup {p}]
  /\ IF l = line /\ place # 0
     THEN /\ had' = [had EXCEPT ![l] = @ \cup {p}]
          /\ lacked' = [lacked EXCEPT ![l] = @ \cup {p}]
     ELSE UNCHANGED lookups
  /\ UNCHANGED <<passwd, line, place, users, order, listed>>

DiscoverUsers == Skip \/ BeginLookup \/ Look \/ SortUsers

UsersNext ==
  \/ DiscoverUsers
  \/ \E l \in Line, p \in Place : Deploy(l, p)

UsersSpec == UsersInit /\ [][UsersNext]_userVars

-----------------------------------------------------------------------------

\* An account's avatar is the first of its places: each place before the one
\* used, or all of them, had none at some moment of that account's lookup, and
\* the one used had one.  So an avatar that stays where it is is never passed
\* over for one of less standing, whatever is deployed meanwhile.
\* ("Resolution order" of avatar_for)
AvatarOfFirstPlace ==
  \A l \in Accepted :
    /\ users[l] \in Place => users[l] \in had[l]
    /\ \A p \in Place :
         p < users[l] /\ (p = 1 => passwd[l].home) => p \in lacked[l]
    /\ users[l] = 1 => passwd[l].home

\* The form is given every account that may log in, once, and no other; those
\* with the same display name, which the user cannot tell apart, keep the order
\* of the file, so that the first is the same one at every start.
\* (discover_users "makes startup behavior deterministic")
UsersAreDetermined ==
  listed =>
    /\ {order[n] : n \in DOMAIN order} = {l \in Line : IsLogin(l)}
    /\ \A m, n \in DOMAIN order : m < n =>
         LET a == DisplayName(order[m])
             b == DisplayName(order[n])
         IN a <= b /\ (a = b => order[m] < order[n])
=============================================================================
