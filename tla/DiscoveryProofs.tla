-------------------------- MODULE DiscoveryProofs --------------------------
(***************************************************************************)
(* Theorems about the discoveries of accounts and sessions, each by itself *)
(* and as the start of the greeter runs them, for any passwd file, any     *)
(* directories and any number of changes made meanwhile.                   *)
(***************************************************************************)
EXTENDS Startup, FiniteOrders

-----------------------------------------------------------------------------
(* The avatar of an account.                                               *)

\* Of the types, what the argument needs.
LookupTypes ==
  /\ avatars \in [Line -> SUBSET Place]
  /\ line \in 1 .. NumLines + 1
  /\ place \in 0 .. 3
  /\ place # 0 => line \in Line
  /\ users \in [Line -> 0 .. 4]
  /\ had \in [Line -> SUBSET Place]
  /\ lacked \in [Line -> SUBSET Place]

\* Accounts are accepted in the order of their lines.
AcceptedSoFar == \A l \in Accepted : l < line

\* The lookup at hand: its history has what is there now, and every place that
\* was passed had nothing when it was looked at.
LookupInv ==
  place # 0 =>
    /\ avatars[line] \subseteq had[line]
    /\ Place \ avatars[line] \subseteq lacked[line]
    /\ \A p \in Place : p < place /\ (p = 1 => passwd[line].home)
                          => p \in lacked[line]
    /\ place = 1 => passwd[line].home

AvatarInv == LookupTypes /\ AcceptedSoFar /\ LookupInv /\ AvatarOfFirstPlace

LEMMA InitLooks == UsersInit => AvatarInv
<1> SUFFICES ASSUME UsersInit
             PROVE  AvatarInv
  OBVIOUS
<1>1. LookupTypes
  BY LinesAssumption DEF UsersInit, LookupTypes
<1>2. Accepted = {}
  BY DEF UsersInit, Accepted
<1> QED BY <1>1, <1>2 DEF UsersInit, AvatarInv, AcceptedSoFar, LookupInv,
                          AvatarOfFirstPlace

\* The lookup of an account ends, at a place that has an avatar or after the
\* last one.
LEMMA SettleKeeps ==
  ASSUME AvatarInv, NEW s \in 1 .. 4, line \in Line, place \in Place, Settle(s),
         UNCHANGED <<passwd, avatars, lookups>>,
         \/ s = place /\ place \in avatars[line]
         \/ s = 4 /\ place = 3 /\ place \notin avatars[line]
  PROVE  AvatarInv'
<1> USE DEF AvatarInv, lookups
<1>1. /\ users' = [users EXCEPT ![line] = s]
      /\ line' = line + 1 /\ place' = 0
  BY DEF Settle
<1>2. LookupTypes' /\ LookupInv'
  BY <1>1, LinesAssumption DEF LookupTypes, LookupInv, Line
<1>3. ASSUME NEW l \in Accepted'
      PROVE  l = line \/ (l \in Accepted /\ users'[l] = users[l])
  BY <1>1, <1>3 DEF Accepted, LookupTypes
<1>4. AcceptedSoFar'
  BY <1>1, <1>3 DEF AcceptedSoFar, Line, Accepted
<1>5. users'[line] = s
  BY <1>1 DEF LookupTypes
<1>6. /\ s \in Place => s \in had[line]
      /\ \A p \in Place : p < s /\ (p = 1 => passwd[line].home)
                            => p \in lacked[line]
      /\ s = 1 => passwd[line].home
  BY DEF LookupInv, Place
<1>7. AvatarOfFirstPlace'
  BY <1>3, <1>5, <1>6 DEF AvatarOfFirstPlace
<1> QED BY <1>2, <1>4, <1>7

LEMMA StepLooks == AvatarInv /\ [UsersNext]_userVars => AvatarInv'
<1> SUFFICES ASSUME AvatarInv, [UsersNext]_userVars
             PROVE  AvatarInv'
  OBVIOUS
<1> USE DEF AvatarInv, lookups
<1>1. ASSUME UNCHANGED <<users, passwd, lookups>>
      PROVE  AvatarOfFirstPlace'
  BY <1>1 DEF AvatarOfFirstPlace, Accepted
<1>2. CASE Skip
  <2>1. LookupTypes' /\ AcceptedSoFar' /\ LookupInv'
    BY <1>2, LinesAssumption
    DEF Skip, LookupTypes, AcceptedSoFar, Accepted, LookupInv, Line
  <2> QED BY <1>1, <1>2, <2>1 DEF Skip
<1>3. CASE BeginLookup
  <2>1. /\ line \in Line /\ line \notin Accepted
        /\ place' = IF passwd[line].home THEN 1 ELSE 2
        /\ UNCHANGED <<passwd, avatars, line, users>>
    BY <1>3 DEF BeginLookup, AcceptedSoFar, Accepted, Line
  <2>2. /\ had' = [had EXCEPT ![line] = avatars[line]]
        /\ lacked' = [lacked EXCEPT ![line] = Place \ avatars[line]]
    BY <1>3 DEF BeginLookup
  <2>3. LookupTypes'
    BY <2>1, <2>2 DEF LookupTypes
  <2>4. /\ had'[line] = avatars[line]
        /\ lacked'[line] = Place \ avatars[line]
        /\ \A l \in Line : l # line =>
             had'[l] = had[l] /\ lacked'[l] = lacked[l]
    BY <2>1, <2>2 DEF LookupTypes
  <2>5. LookupInv'
    BY <2>1, <2>4 DEF LookupInv, Place
  <2>6. AvatarOfFirstPlace'
    BY <2>1, <2>4 DEF AvatarOfFirstPlace, Accepted
  <2> QED BY <2>1, <2>3, <2>5, <2>6 DEF AcceptedSoFar, Accepted
<1>4. CASE Look
  <2>1. /\ line \in Line /\ place \in Place
        /\ UNCHANGED <<passwd, avatars, lookups>>
    BY <1>4 DEF Look
  <2>2. CASE place \in avatars[line]
    BY <1>4, <2>1, <2>2, SettleKeeps DEF Look, Place
  <2>3. CASE place \notin avatars[line] /\ place = 3
    BY <1>4, <2>1, <2>3, SettleKeeps DEF Look
  <2>4. CASE place \notin avatars[line] /\ place # 3
    <3>1. place' = place + 1 /\ UNCHANGED <<line, users>>
      BY <1>4, <2>4 DEF Look
    <3>2. LookupTypes' /\ LookupInv'
      BY <2>1, <2>4, <3>1 DEF LookupTypes, LookupInv, Place
    <3> QED BY <1>1, <2>1, <3>1, <3>2 DEF AcceptedSoFar, Accepted
  <2> QED BY <2>2, <2>3, <2>4
<1>5. CASE SortUsers \/ UNCHANGED userVars
  BY <1>1, <1>5
  DEF SortUsers, userVars, LookupTypes, AcceptedSoFar, Accepted, LookupInv
<1>6. ASSUME NEW l \in Line, NEW p \in Place, Deploy(l, p)
      PROVE  AvatarInv'
  <2>1. UNCHANGED <<passwd, line, place, users>>
    BY <1>6 DEF Deploy
  <2>2. /\ avatars' \in [Line -> SUBSET Place]
        /\ \A m \in Line \ {l} : avatars'[m] = avatars[m]
        /\ \A q \in Place \ {p} : q \in avatars'[l] <=> q \in avatars[l]
    BY <1>6 DEF Deploy, LookupTypes
  <2>3. /\ had' \in [Line -> SUBSET Place]
        /\ lacked' \in [Line -> SUBSET Place]
        /\ \A m \in Line : had[m] \subseteq had'[m]
        /\ \A m \in Line : lacked[m] \subseteq lacked'[m]
        /\ l = line /\ place # 0 => p \in had'[l] /\ p \in lacked'[l]
    BY <1>6 DEF Deploy, LookupTypes
  <2>4. LookupInv'
    BY <2>1, <2>2, <2>3 DEF LookupInv, LookupTypes
  <2>5. AvatarOfFirstPlace'
    BY <2>1, <2>3 DEF AvatarOfFirstPlace, Accepted
  <2> QED BY <2>1, <2>2, <2>3, <2>4, <2>5
          DEF LookupTypes, AcceptedSoFar, Accepted
<1> QED BY <1>2, <1>3, <1>4, <1>5, <1>6 DEF UsersNext, DiscoverUsers

LEMMA DiscoveredAvatars == UsersSpec => []AvatarOfFirstPlace
<1>1. AvatarInv => AvatarOfFirstPlace
  BY DEF AvatarInv
<1> QED BY <1>1, InitLooks, StepLooks, PTL DEF UsersSpec

-----------------------------------------------------------------------------
(* The accounts listed.                                                    *)

\* What the discovery of accounts has done: a line is accepted when it is passed
\* if it may log in, and only then, and the list is sorted at the end.
FilterInv ==
  /\ UsersTypeOK
  /\ place # 0 => line \in Line /\ IsLogin(line)
  /\ \A l \in Line : users[l] # 0 <=> l < line /\ IsLogin(l)
  /\ listed => line \notin Line
  /\ UsersAreDetermined

LEMMA DisplayNamesAreNaturals ==
  ASSUME passwd \in [Line -> PasswdLine]
  PROVE  \A l \in Line : DisplayName(l) \in Nat
<1> SUFFICES ASSUME NEW l \in Line PROVE DisplayName(l) \in Nat
  OBVIOUS
<1>1. passwd[l].gecos \in 0 .. MaxGecos \cup {0}
  BY DEF PasswdLine
<1> QED
  BY <1>1, LinesAssumption DEF DisplayName, Line

\* The order in which accounts are shown is total.
LEMMA PrecedesIsTotal ==
  ASSUME passwd \in [Line -> PasswdLine]
  PROVE  /\ IsFiniteSet(Accepted) /\ Cardinality(Accepted) \in 0 .. NumLines
         /\ IsTotalOrder(Accepted,
              [m \in Accepted |-> {l \in Accepted : Precedes(l, m)}])
<1>1. Accepted \in SUBSET Line
  BY DEF Accepted
<1>2. IsFiniteSet(Line) /\ Cardinality(Line) = NumLines
  BY LinesAssumption, FS_Interval DEF Line
<1>3. IsFiniteSet(Accepted) /\ Cardinality(Accepted) \in 0 .. NumLines
  BY <1>1, <1>2, FS_Subset, FS_CardinalityType, LinesAssumption
<1> DEFINE B == [m \in Accepted |-> {l \in Accepted : Precedes(l, m)}]
<1>4. \A m \in Accepted : m \in Nat /\ DisplayName(m) \in Nat
  BY <1>1, DisplayNamesAreNaturals DEF Line
<1>5. IsTotalOrder(Accepted, B)
  <2>1. B \in [Accepted -> SUBSET Accepted]
    OBVIOUS
  <2>2. \A l, m \in Accepted : l \in B[m] <=> Precedes(l, m)
    OBVIOUS
  <2>3. \A m \in Accepted : ~Precedes(m, m)
    BY <1>4 DEF Precedes
  <2>4. \A l, m \in Accepted : l # m => Precedes(l, m) \/ Precedes(m, l)
    BY <1>4 DEF Precedes
  <2>5. \A k, l, m \in Accepted :
          Precedes(k, l) /\ Precedes(l, m) => Precedes(k, m)
    BY <1>4 DEF Precedes
  <2> QED
    BY <2>1, <2>2, <2>3, <2>4, <2>5 DEF IsTotalOrder
<1> QED
  BY <1>3, <1>5

LEMMA SortUsersSorts ==
  ASSUME FilterInv, SortUsers
  PROVE  FilterInv'
<1> DEFINE B == [m \in Accepted |-> {l \in Accepted : Precedes(l, m)}]
           N == Cardinality(Accepted)
<1>1. /\ line \notin Line /\ listed'
      /\ UNCHANGED <<passwd, avatars, line, place, users, deploys, had, lacked>>
      /\ order' = [n \in 1 .. N |-> CHOOSE m \in Accepted :
                     Cardinality({l \in Accepted : Precedes(l, m)}) = n - 1]
  BY DEF SortUsers, lookups
<1>2. /\ IsFiniteSet(Accepted) /\ N \in 0 .. NumLines
      /\ IsTotalOrder(Accepted, B)
  BY PrecedesIsTotal DEF FilterInv, UsersTypeOK
<1>3. ASSUME NEW n \in 1 .. N
      PROVE  order'[n] \in Accepted /\ Cardinality(B[order'[n]]) = n - 1
  <2>1. \E m \in Accepted : Cardinality(B[m]) = n - 1
    <3> HIDE DEF B
    <3> QED
      BY <1>2, EveryRankIsTaken
  <2>2. \E m \in Accepted :
          Cardinality({l \in Accepted : Precedes(l, m)}) = n - 1
    BY <2>1
  <2>3. /\ order'[n] \in Accepted
        /\ Cardinality({l \in Accepted : Precedes(l, order'[n])}) = n - 1
    BY <1>1, <2>2
  <2> QED
    BY <2>3
<1>4. /\ {order'[n] : n \in 1 .. N} = Accepted
      /\ \A m, n \in 1 .. N : m < n => order'[m] \in B[order'[n]]
  <2> HIDE DEF B
  <2> QED
    BY <1>2, <1>3, ListByRankIsSorted
<1>5. DOMAIN order' = 1 .. N /\ order' \in [1 .. N -> Line]
  BY <1>1, <1>3 DEF Accepted
<1>6. Accepted = {l \in Line : IsLogin(l)}
  BY <1>1, LinesAssumption DEF FilterInv, Accepted, UsersTypeOK, Line
<1>7. \A m, n \in 1 .. N : m < n => Precedes(order'[m], order'[n])
  BY <1>3, <1>4
<1>8. UsersAreDetermined'
  <2>1. \A m \in 1 .. N : order'[m] \in Line /\ DisplayName(order'[m]) \in Nat
    BY <1>3, DisplayNamesAreNaturals DEF FilterInv, UsersTypeOK, Accepted
  <2>2. \A l : DisplayName(l)' = DisplayName(l) /\ IsLogin(l)' = IsLogin(l)
    BY <1>1 DEF DisplayName, IsLogin
  <2>3. \A m, n \in 1 .. N : m < n =>
          /\ DisplayName(order'[m]) <= DisplayName(order'[n])
          /\ DisplayName(order'[m]) = DisplayName(order'[n])
               => order'[m] < order'[n]
    BY <1>7, <2>1 DEF Precedes
  <2>4. {order'[n] : n \in DOMAIN order'} = {l \in Line : IsLogin(l)'}
    BY <1>4, <1>5, <1>6, <2>2
  <2>5. ASSUME NEW m \in DOMAIN order', NEW n \in DOMAIN order', m < n
        PROVE  /\ DisplayName(order[m])' <= DisplayName(order[n])'
               /\ DisplayName(order[m])' = DisplayName(order[n])'
                    => order'[m] < order'[n]
    <3>1. m \in 1 .. N /\ n \in 1 .. N
      BY <1>5
    <3>2. /\ DisplayName(order[m])' = DisplayName(order'[m])
          /\ DisplayName(order[n])' = DisplayName(order'[n])
      BY <1>1 DEF DisplayName
    <3> QED
      BY <2>3, <2>5, <3>1, <3>2
  <2> QED
    BY <2>4, <2>5 DEF UsersAreDetermined
<1> QED
  BY <1>1, <1>2, <1>5, <1>8 DEF FilterInv, UsersTypeOK, IsLogin

LEMMA InitFilters == UsersInit => FilterInv
<1> SUFFICES ASSUME UsersInit PROVE FilterInv
  OBVIOUS
<1>1. order \in [1 .. 0 -> Line] /\ 0 \in 0 .. NumLines
  BY LinesAssumption DEF UsersInit
<1>2. UsersTypeOK
  <2>1. \E n \in 0 .. NumLines : order \in [1 .. n -> Line]
    BY <1>1
  <2>2. avatars \in [Line -> SUBSET Place]
    BY DEF UsersInit
  <2>3. /\ users \in [Line -> 0 .. 4] /\ place \in 0 .. 3
        /\ line \in 1 .. NumLines + 1 /\ deploys \in 0 .. MaxDeploys
    BY LinesAssumption, DeploysAssumption DEF UsersInit
  <2>4. had \in [Line -> SUBSET Place] /\ lacked \in [Line -> SUBSET Place]
    BY DEF UsersInit
  <2> QED
    BY <2>1, <2>2, <2>3, <2>4 DEF UsersTypeOK, UsersInit
<1> QED
  BY <1>2, LinesAssumption
  DEF UsersInit, FilterInv, UsersAreDetermined, Line

LEMMA StepFilters == FilterInv /\ [UsersNext]_userVars => FilterInv'
<1> SUFFICES ASSUME FilterInv, [UsersNext]_userVars PROVE FilterInv'
  OBVIOUS
<1> USE LinesAssumption DEF FilterInv
<1>1. CASE Skip
  <2> USE <1>1 DEF Skip, lookups
  <2>1. line \in Line /\ line' = line + 1 /\ ~IsLogin(line) /\ ~listed
    OBVIOUS
  <2>2. UsersTypeOK'
    <3>1. line' \in 1 .. NumLines + 1
      BY <2>1 DEF Line
    <3> QED
      BY <3>1 DEF UsersTypeOK
  <2>3. \A l \in Line : users'[l] # 0 <=> l < line' /\ IsLogin(l)'
    BY <2>1 DEF IsLogin, Line
  <2> QED
    BY <2>1, <2>2, <2>3 DEF UsersAreDetermined
<1>2. CASE BeginLookup
  <2> USE <1>2 DEF BeginLookup
  <2>1. had' \in [Line -> SUBSET Place] /\ lacked' \in [Line -> SUBSET Place]
    BY DEF UsersTypeOK
  <2>2. place' \in 0 .. 3
    OBVIOUS
  <2>3. UsersTypeOK'
    BY <2>1, <2>2 DEF UsersTypeOK
  <2>4. \A l : IsLogin(l)' = IsLogin(l)
    BY DEF IsLogin
  <2> QED
    BY <2>3, <2>4 DEF UsersAreDetermined
<1>3. ASSUME Look, NEW s \in 1 .. 4, Settle(s)
      PROVE  FilterInv'
  <2>1. /\ line \in Line /\ IsLogin(line)
        /\ UNCHANGED <<passwd, avatars, order, listed, deploys, had, lacked>>
        /\ users' = [users EXCEPT ![line] = s]
        /\ line' = line + 1 /\ place' = 0
    BY <1>3 DEF Look, Settle, lookups, Place
  <2>2. UsersTypeOK'
    <3>1. line' \in 1 .. NumLines + 1 /\ place' \in 0 .. 3
      BY <2>1 DEF Line
    <3>2. users' \in [Line -> 0 .. 4]
      BY <2>1 DEF UsersTypeOK
    <3> QED
      BY <2>1, <3>1, <3>2 DEF UsersTypeOK
  <2>3. /\ users'[line] # 0
        /\ \A l \in Line : l # line => users'[l] = users[l]
    BY <2>1 DEF UsersTypeOK
  <2>4. \A l \in Line : users'[l] # 0 <=> l < line' /\ IsLogin(l)'
    BY <2>1, <2>3 DEF IsLogin, Line
  <2> QED
    BY <2>1, <2>2, <2>4 DEF UsersAreDetermined
<1>4. CASE Look
  <2>1. CASE \E s \in 1 .. 4 : Settle(s)
    BY <1>3, <1>4, <2>1
  <2>2. CASE ~\E s \in 1 .. 4 : Settle(s)
    <3>1. /\ place \in 1 .. 2 /\ place' = place + 1
          /\ UNCHANGED <<passwd, avatars, line, users, order, listed, deploys,
                         had, lacked>>
      BY <1>4, <2>2 DEF Look, Place, lookups
    <3>2. UsersTypeOK'
      BY <3>1 DEF UsersTypeOK
    <3> QED
      BY <3>1, <3>2 DEF IsLogin, UsersAreDetermined, DisplayName
  <2> QED
    BY <2>1, <2>2
<1>5. CASE SortUsers
  BY <1>5, SortUsersSorts
<1>6. ASSUME NEW l \in Line, NEW p \in Place, Deploy(l, p)
      PROVE  FilterInv'
  <2>1. /\ UNCHANGED <<passwd, line, place, users, order, listed>>
        /\ deploys' \in 0 .. MaxDeploys
    BY <1>6, DeploysAssumption DEF Deploy, UsersTypeOK
  <2>2. avatars' \in [Line -> SUBSET Place]
    BY <1>6 DEF Deploy, UsersTypeOK
  <2>3. had' \in [Line -> SUBSET Place] /\ lacked' \in [Line -> SUBSET Place]
    BY <1>6 DEF Deploy, UsersTypeOK, lookups
  <2>4. UsersTypeOK'
    BY <2>1, <2>2, <2>3 DEF UsersTypeOK
  <2> QED
    BY <2>1, <2>4 DEF IsLogin, UsersAreDetermined, DisplayName
<1>7. CASE UNCHANGED userVars
  BY <1>7 DEF userVars, lookups, UsersTypeOK, IsLogin, UsersAreDetermined,
              DisplayName
<1> QED
  BY <1>1, <1>2, <1>4, <1>5, <1>6, <1>7 DEF UsersNext, DiscoverUsers

LEMMA DiscoveredUsers == UsersSpec => [](UsersTypeOK /\ UsersAreDetermined)
<1>1. FilterInv => UsersTypeOK /\ UsersAreDetermined
  BY DEF FilterInv
<1> QED
  BY <1>1, InitFilters, StepFilters, PTL DEF UsersSpec

-----------------------------------------------------------------------------
(* The session of an id.                                                   *)

\* Of the types, what the argument needs.
WalkTypes ==
  /\ disk \in [Dir -> [Id -> DesktopFile]]
  /\ dir \in 1 .. NumDirs + 1
  /\ sessions \in [Id -> [from : 0 .. NumDirs, entry : DesktopFile]]
  /\ ever \in [Dir -> [Id -> SUBSET DesktopFile]]
  /\ walk = "entries" => dir \in Dir
  /\ walk = "done" => dir = NumDirs + 1

HistoryHasTheDisk == \A d \in Dir, id \in Id : disk[d][id] \in ever[d][id]

\* A session was offered by a directory that was walked.
FoundOnTheWay ==
  \A id \in Found :
    /\ sessions[id].from \in Dir /\ sessions[id].from <= dir
    /\ Valid(sessions[id].entry)
    /\ sessions[id].entry \in ever[sessions[id].from][id]

\* The walk will not look at this directory for the id any more.
Passed(d, id) == d < dir \/ (d = dir /\ walk = "entries" /\ id \notin unread)

\* It passed a directory without taking a session only for want of one.
PassedForWant ==
  \A d \in Dir, id \in Id :
    Passed(d, id) /\ (id \in Found => d < sessions[id].from) => MayLack(d, id)

WalkInv ==
  /\ WalkTypes
  /\ HistoryHasTheDisk
  /\ walk # "failed" => FoundOnTheWay /\ PassedForWant

LEMMA MissingIsNotValid ==
  Missing \in DesktopFile /\ ~Valid(Missing)
BY DEF DesktopFile, Missing, Valid

LEMMA InitWalks == SessionsInit => WalkInv
<1> SUFFICES ASSUME SessionsInit PROVE WalkInv
  OBVIOUS
<1> USE DirsAssumption DEF SessionsInit
<1>1. WalkTypes
  BY MissingIsNotValid DEF WalkTypes, NoSession, Dir
<1>2. HistoryHasTheDisk
  BY DEF HistoryHasTheDisk
<1>3. Found = {}
  BY DEF Found
<1>4. PassedForWant
  BY DEF PassedForWant, Passed, Dir
<1> QED
  BY <1>1, <1>2, <1>3, <1>4 DEF WalkInv, FoundOnTheWay

LEMMA StepWalks ==
  ASSUME WalkInv, SessionsNext PROVE WalkInv'
<1> USE DirsAssumption DEF WalkInv
<1>1. CASE OpenDir
  <2> USE <1>1 DEF OpenDir
  <2>1. WalkTypes' /\ HistoryHasTheDisk' /\ FoundOnTheWay'
    BY DEF WalkTypes, HistoryHasTheDisk, FoundOnTheWay, Found
  <2>2. \A id \in Id \ unread' : MayLack(dir, id)
    BY MissingIsNotValid DEF HistoryHasTheDisk, MayLack
  <2>3. PassedForWant'
    BY <2>2 DEF PassedForWant, Passed, Found, MayLack, WalkTypes
  <2> QED
    BY <2>1, <2>3
<1>2. CASE WalkFails
  BY <1>2, MissingIsNotValid
  DEF WalkFails, WalkTypes, HistoryHasTheDisk, NoSession
<1>3. CASE CloseDir
  <2> USE <1>3 DEF CloseDir
  <2>1. dir \in Dir /\ dir' = dir + 1
    BY DEF WalkTypes
  <2>2. WalkTypes'
    BY <2>1 DEF WalkTypes, Dir
  <2>3. HistoryHasTheDisk'
    BY DEF HistoryHasTheDisk
  <2>4. FoundOnTheWay'
    BY <2>1 DEF FoundOnTheWay, Found, Dir
  <2>5. \A d \in Dir, id \in Id : Passed(d, id)' => Passed(d, id)
    BY <2>1 DEF Passed, Dir
  <2>6. PassedForWant'
    BY <2>5 DEF PassedForWant, Found, MayLack
  <2> QED
    BY <2>2, <2>3, <2>4, <2>6
<1>4. CASE Sort
  <2> USE <1>4 DEF Sort
  <2>1. WalkTypes' /\ HistoryHasTheDisk' /\ FoundOnTheWay'
    BY DEF WalkTypes, HistoryHasTheDisk, FoundOnTheWay, Found, Dir
  <2>2. PassedForWant'
    BY DEF PassedForWant, Passed, Found, MayLack, Dir
  <2> QED
    BY <2>1, <2>2
<1>5. ASSUME NEW i \in Id, ReadEntry(i)
      PROVE  WalkInv'
  <2> DEFINE f == disk[dir][i]
  <2>1. /\ dir \in Dir /\ walk = "entries" /\ unread' = unread \ {i}
        /\ UNCHANGED <<disk, walk, dir, ever>>
        /\ f \in DesktopFile /\ f \in ever[dir][i]
        /\ Accept(i, f)
    BY <1>5 DEF ReadEntry, WalkTypes, HistoryHasTheDisk
  <2> HIDE DEF f
  <2>2. HistoryHasTheDisk'
    BY <2>1 DEF HistoryHasTheDisk
  <2>3. CASE Valid(f) /\ i \notin Found
    <3>1. /\ sessions' = [sessions EXCEPT ![i] = [from |-> dir, entry |-> f]]
          /\ dir \in 0 .. NumDirs
      BY <2>1, <2>3 DEF Accept, Dir
    <3>2. WalkTypes'
      BY <2>1, <3>1 DEF WalkTypes
    <3>3. /\ sessions'[i].from = dir /\ sessions'[i].entry = f
          /\ \A j \in Id \ {i} : sessions'[j] = sessions[j]
      BY <3>1 DEF WalkTypes
    <3>4. i \in Found' /\ \A j \in Id \ {i} : j \in Found' <=> j \in Found
      BY <2>1, <3>3 DEF Found, NoSession, Dir
    <3>5. FoundOnTheWay'
      <4> SUFFICES ASSUME NEW j \in Found'
                   PROVE  /\ sessions'[j].from \in Dir
                          /\ sessions'[j].from <= dir'
                          /\ Valid(sessions'[j].entry)
                          /\ sessions'[j].entry \in ever'[sessions'[j].from][j]
        BY DEF FoundOnTheWay, Valid
      <4>1. CASE j = i
        BY <2>1, <2>3, <3>3, <4>1 DEF Dir
      <4>2. CASE j # i
        BY <2>1, <3>3, <3>4, <4>2 DEF FoundOnTheWay, Found
      <4> QED
        BY <4>1, <4>2
    <3>6. PassedForWant'
      <4> SUFFICES ASSUME NEW d \in Dir, NEW j \in Id, Passed(d, j)',
                          j \in Found' => d < sessions'[j].from
                   PROVE  MayLack(d, j)'
        BY DEF PassedForWant
      <4>1. CASE j = i
        <5>1. d < dir
          BY <3>3, <3>4, <4>1
        <5> QED
          BY <2>1, <2>3, <4>1, <5>1 DEF PassedForWant, Passed, MayLack
      <4>2. CASE j # i
        BY <2>1, <3>3, <3>4, <4>2 DEF PassedForWant, Passed, MayLack
      <4> QED
        BY <4>1, <4>2
    <3> QED
      BY <2>2, <3>2, <3>5, <3>6
  <2>4. CASE ~(Valid(f) /\ i \notin Found)
    <3>1. sessions' = sessions
      BY <2>1, <2>4 DEF Accept
    <3>2. WalkTypes' /\ FoundOnTheWay'
      BY <2>1, <3>1 DEF WalkTypes, FoundOnTheWay, Found
    <3>3. PassedForWant'
      <4> SUFFICES ASSUME NEW d \in Dir, NEW j \in Id, Passed(d, j)',
                          j \in Found => d < sessions[j].from
                   PROVE  MayLack(d, j)
        BY <2>1, <3>1 DEF PassedForWant, Found, MayLack
      <4>1. CASE Passed(d, j)
        BY <2>1, <4>1 DEF PassedForWant
      <4>2. CASE ~Passed(d, j)
        <5>1. d = dir /\ j = i
          BY <2>1, <4>2 DEF Passed
        <5>2. i \notin Found
          BY <2>1, <5>1 DEF FoundOnTheWay, Dir
        <5>3. ~Valid(f)
          BY <2>4, <5>2
        <5> QED
          BY <2>1, <5>1, <5>3 DEF MayLack
      <4> QED
        BY <4>1, <4>2
    <3> QED
      BY <2>2, <3>2, <3>3
  <2> QED
    BY <2>3, <2>4
<1>6. ASSUME NEW d \in Dir, NEW i \in Id, Install(d, i)
      PROVE  WalkInv'
  <2>1. PICK f \in DesktopFile :
          /\ disk' = [disk EXCEPT ![d][i] = f]
          /\ ever' = [ever EXCEPT ![d][i] = @ \cup {f}]
          /\ unread \subseteq unread'
          /\ UNCHANGED <<walk, dir, sessions>>
          /\ walk \in {"dirs", "entries"}
    BY <1>6 DEF Install
  <2>2. disk' \in [Dir -> [Id -> DesktopFile]]
    BY <2>1 DEF WalkTypes
  <2>3. ever' \in [Dir -> [Id -> SUBSET DesktopFile]]
    <3>1. ever[d][i] \cup {f} \in SUBSET DesktopFile
      BY DEF WalkTypes
    <3> QED
      BY <2>1, <3>1 DEF WalkTypes
  <2>4. \A c \in Dir, j \in Id : ever[c][j] \subseteq ever'[c][j]
    BY <2>1 DEF WalkTypes
  <2>5. WalkTypes'
    BY <2>1, <2>2, <2>3 DEF WalkTypes
  <2>6. HistoryHasTheDisk'
    BY <2>1 DEF HistoryHasTheDisk, WalkTypes
  <2>7. FoundOnTheWay'
    BY <2>1, <2>4 DEF FoundOnTheWay, Found
  <2>8. \A c \in Dir, j \in Id : /\ Passed(c, j)' => Passed(c, j)
                                 /\ MayLack(c, j) => MayLack(c, j)'
    BY <2>1, <2>4 DEF Passed, MayLack
  <2>9. PassedForWant'
    BY <2>1, <2>8 DEF PassedForWant, Found
  <2> QED
    BY <2>5, <2>6, <2>7, <2>9
<1> QED
  BY <1>1, <1>2, <1>3, <1>4, <1>5, <1>6 DEF SessionsNext, DiscoverSessions

LEMMA DiscoveredSessions == SessionsSpec => []FirstValidEntryWins
<1>1. WalkInv /\ [SessionsNext]_sessionVars => WalkInv'
  <2> SUFFICES ASSUME WalkInv, [SessionsNext]_sessionVars PROVE WalkInv'
    OBVIOUS
  <2>1. CASE SessionsNext
    BY <2>1, StepWalks
  <2>2. CASE UNCHANGED sessionVars
    BY <2>2 DEF sessionVars, WalkInv, WalkTypes, HistoryHasTheDisk,
       FoundOnTheWay, PassedForWant, Passed, Found, MayLack
  <2> QED
    BY <2>1, <2>2
<1>2. WalkInv => FirstValidEntryWins
  <2> SUFFICES ASSUME WalkInv, walk = "done" PROVE FirstValidEntryWins
    BY DEF FirstValidEntryWins
  <2>1. \A d \in Dir, id \in Id : Passed(d, id)
    BY DirsAssumption DEF Passed, WalkInv, WalkTypes, Dir
  <2> QED
    BY <2>1 DEF FirstValidEntryWins, WalkInv, FoundOnTheWay, PassedForWant
<1> QED
  BY <1>1, <1>2, InitWalks, PTL DEF SessionsSpec

-----------------------------------------------------------------------------
(* The sessions listed.                                                    *)

\* The list shows what was found, from the moment it is made.
ShownInv ==
  /\ SessionsTypeOK
  /\ walk = "entries" => dir \in Dir
  /\ ListIsPresentation

LEMMA FilesAreNamed ==
  ASSUME NEW f \in DesktopFile
  PROVE  f.name \in Nat
BY DirsAssumption DEF DesktopFile, Missing, Invalid

\* The order in which sessions are shown is total.
LEMMA BeforeIsTotal ==
  ASSUME sessions \in [Id -> [from : 0 .. NumDirs, entry : DesktopFile]]
  PROVE  /\ IsFiniteSet(Found) /\ Cardinality(Found) \in 0 .. NumIds
         /\ IsTotalOrder(Found, [j \in Found |-> {i \in Found : Before(i, j)}])
<1>1. Found \in SUBSET Id
  BY DEF Found
<1>2. IsFiniteSet(Id) /\ Cardinality(Id) = NumIds
  BY DirsAssumption, FS_Interval DEF Id
<1>3. IsFiniteSet(Found) /\ Cardinality(Found) \in 0 .. NumIds
  BY <1>1, <1>2, FS_Subset, FS_CardinalityType, DirsAssumption
<1> DEFINE B == [j \in Found |-> {i \in Found : Before(i, j)}]
<1>4. \A j \in Found : j \in Nat /\ sessions[j].entry.name \in Nat
  BY <1>1, FilesAreNamed DEF Id
<1>5. \A j : IsDefault(j) \in BOOLEAN
  BY DEF IsDefault
<1>6. IsTotalOrder(Found, B)
  <2>1. B \in [Found -> SUBSET Found]
    OBVIOUS
  <2>2. \A i, j \in Found : i \in B[j] <=> Before(i, j)
    OBVIOUS
  <2>3. \A j \in Found : ~Before(j, j)
    BY <1>4 DEF Before
  <2>4. \A i, j \in Found : i # j => Before(i, j) \/ Before(j, i)
    BY <1>4, <1>5 DEF Before
  <2>5. \A i, j, k \in Found : Before(i, j) /\ Before(j, k) => Before(i, k)
    BY <1>4, <1>5 DEF Before
  <2> QED
    BY <2>1, <2>2, <2>3, <2>4, <2>5 DEF IsTotalOrder
<1> QED
  BY <1>3, <1>6

LEMMA SortShows ==
  ASSUME ShownInv, Sort
  PROVE  ShownInv'
<1> DEFINE B == [j \in Found |-> {i \in Found : Before(i, j)}]
           N == Cardinality(Found)
<1>1. /\ walk' = "done"
      /\ UNCHANGED <<disk, dir, unread, sessions, installs, ever>>
      /\ list' = [n \in 1 .. N |-> CHOOSE j \in Found :
                    Cardinality({i \in Found : Before(i, j)}) = n - 1]
  BY DEF Sort
<1>2. /\ IsFiniteSet(Found) /\ N \in 0 .. NumIds
      /\ IsTotalOrder(Found, B)
  BY BeforeIsTotal DEF ShownInv, SessionsTypeOK
<1>3. ASSUME NEW n \in 1 .. N
      PROVE  list'[n] \in Found /\ Cardinality(B[list'[n]]) = n - 1
  <2>1. \E j \in Found : Cardinality(B[j]) = n - 1
    <3> HIDE DEF B
    <3> QED
      BY <1>2, EveryRankIsTaken
  <2>2. \E j \in Found : Cardinality({i \in Found : Before(i, j)}) = n - 1
    BY <2>1
  <2>3. /\ list'[n] \in Found
        /\ Cardinality({i \in Found : Before(i, list'[n])}) = n - 1
    BY <1>1, <2>2
  <2> QED
    BY <2>3
<1>4. /\ {list'[n] : n \in 1 .. N} = Found
      /\ \A m, n \in 1 .. N : m < n => list'[m] \in B[list'[n]]
  <2> HIDE DEF B
  <2> QED
    BY <1>2, <1>3, ListByRankIsSorted
<1>5. DOMAIN list' = 1 .. N /\ list' \in [1 .. N -> Id]
  BY <1>1, <1>3 DEF Found
<1>6. \A m, n \in 1 .. N : m < n => Before(list'[m], list'[n])
  BY <1>3, <1>4
<1>7. ListIsPresentation'
  <2>1. Found' = Found /\ \A j : IsDefault(j)' = IsDefault(j)
    BY <1>1 DEF Found, IsDefault
  <2>2. \A n \in 1 .. N : sessions[list'[n]].entry.name \in Nat
    BY <1>3, FilesAreNamed DEF ShownInv, SessionsTypeOK, Found
  <2>3. ASSUME NEW m \in 1 .. N, NEW n \in 1 .. N, m < n
        PROVE  /\ IsDefault(list'[n]) => IsDefault(list'[m])
               /\ IsDefault(list'[m]) = IsDefault(list'[n]) =>
                    \/ sessions[list'[m]].entry.name < sessions[list'[n]].entry.name
                    \/ /\ sessions[list'[m]].entry.name = sessions[list'[n]].entry.name
                       /\ list'[m] < list'[n]
    <3>1. Before(list'[m], list'[n])
      BY <1>6, <2>3
    <3> QED
      BY <2>2, <3>1 DEF Before
  <2>4. \A n \in 1 .. N : IsDefault(list[n])' = IsDefault(list'[n])
    BY <1>1 DEF IsDefault
  <2>5. ASSUME NEW m \in 1 .. N, NEW n \in 1 .. N, m < n
        PROVE  /\ IsDefault(list[n])' => IsDefault(list[m])'
               /\ IsDefault(list[m])' = IsDefault(list[n])' =>
                    \/ sessions'[list'[m]].entry.name
                         < sessions'[list'[n]].entry.name
                    \/ /\ sessions'[list'[m]].entry.name
                            = sessions'[list'[n]].entry.name
                       /\ list'[m] < list'[n]
    <3>1. sessions' = sessions
      BY <1>1
    <3>2. /\ IsDefault(list[m])' = IsDefault(list'[m])
          /\ IsDefault(list[n])' = IsDefault(list'[n])
      BY <3>1 DEF IsDefault
    <3>3. /\ IsDefault(list'[n]) => IsDefault(list'[m])
          /\ IsDefault(list'[m]) = IsDefault(list'[n]) =>
               \/ sessions[list'[m]].entry.name < sessions[list'[n]].entry.name
               \/ /\ sessions[list'[m]].entry.name = sessions[list'[n]].entry.name
                  /\ list'[m] < list'[n]
      BY <2>3, <2>5
    <3> QED
      BY <3>1, <3>2, <3>3
  <2>6. /\ DOMAIN list' = 1 .. Cardinality(Found')
        /\ {list'[n] : n \in 1 .. Cardinality(Found')} = Found'
    BY <1>4, <1>5, <2>1
  <2> QED
    BY <2>1, <2>5, <2>6 DEF ListIsPresentation
<1> QED
  <2>1. \E n \in 0 .. NumIds : list' \in [1 .. n -> Id]
    BY <1>2, <1>5
  <2> QED
    BY <1>1, <1>7, <2>1 DEF ShownInv, SessionsTypeOK

LEMMA InitShows == SessionsInit => ShownInv
<1> SUFFICES ASSUME SessionsInit PROVE ShownInv
  OBVIOUS
<1> USE DirsAssumption, InstallsAssumption DEF SessionsInit
<1>1. list \in [1 .. 0 -> Id] /\ 0 \in 0 .. NumIds
  OBVIOUS
<1>2. Missing \in DesktopFile
  BY DEF DesktopFile
<1>3. /\ sessions \in [Id -> [from : 0 .. NumDirs, entry : DesktopFile]]
      /\ dir \in 1 .. NumDirs + 1 /\ installs \in 0 .. MaxInstalls
  BY <1>2 DEF NoSession
<1>4. ever \in [Dir -> [Id -> SUBSET DesktopFile]]
  OBVIOUS
<1>5. SessionsTypeOK
  BY <1>1, <1>3, <1>4 DEF SessionsTypeOK
<1> QED
  BY <1>5 DEF ShownInv, ListIsPresentation

LEMMA StepShows == ShownInv /\ [SessionsNext]_sessionVars => ShownInv'
<1> SUFFICES ASSUME ShownInv, [SessionsNext]_sessionVars PROVE ShownInv'
  OBVIOUS
<1> USE DirsAssumption DEF ShownInv
<1>1. CASE OpenDir
  BY <1>1 DEF OpenDir, SessionsTypeOK, ListIsPresentation
<1>2. CASE WalkFails
  <2>1. Missing \in DesktopFile
    BY DEF DesktopFile
  <2>2. sessions' \in [Id -> [from : 0 .. NumDirs, entry : DesktopFile]]
    BY <1>2, <2>1 DEF WalkFails, NoSession
  <2> QED
    BY <1>2, <2>2 DEF WalkFails, SessionsTypeOK, ListIsPresentation
<1>3. CASE CloseDir
  <2>1. dir' \in 1 .. NumDirs + 1
    BY <1>3 DEF CloseDir, Dir
  <2> QED
    BY <1>3, <2>1 DEF CloseDir, SessionsTypeOK, ListIsPresentation
<1>4. CASE Sort
  BY <1>4, SortShows
<1>5. ASSUME NEW i \in Id, ReadEntry(i)
      PROVE  ShownInv'
  <2>1. /\ walk = "entries" /\ unread' \subseteq Id
        /\ UNCHANGED <<disk, walk, dir, list, installs, ever>>
        /\ Accept(i, disk[dir][i])
    BY <1>5 DEF ReadEntry, SessionsTypeOK
  <2>2. dir \in Dir /\ disk[dir][i] \in DesktopFile
    BY <2>1 DEF SessionsTypeOK
  <2>3. sessions' \in [Id -> [from : 0 .. NumDirs, entry : DesktopFile]]
    BY <2>1, <2>2 DEF Accept, SessionsTypeOK, Dir
  <2> QED
    BY <2>1, <2>2, <2>3 DEF SessionsTypeOK, ListIsPresentation
<1>6. ASSUME NEW d \in Dir, NEW i \in Id, Install(d, i)
      PROVE  ShownInv'
  <2>1. PICK f \in DesktopFile :
          /\ disk' = [disk EXCEPT ![d][i] = f]
          /\ ever' = [ever EXCEPT ![d][i] = @ \cup {f}]
          /\ unread' \in {unread, unread \cup {i}}
          /\ UNCHANGED <<walk, dir, sessions, list>>
          /\ walk \in {"dirs", "entries"}
          /\ installs < MaxInstalls /\ installs' = installs + 1
    BY <1>6 DEF Install
  <2>2. disk' \in [Dir -> [Id -> DesktopFile]]
    BY <2>1 DEF SessionsTypeOK
  <2>3. ever' \in [Dir -> [Id -> SUBSET DesktopFile]]
    <3>1. ever[d][i] \cup {f} \in SUBSET DesktopFile
      BY DEF SessionsTypeOK
    <3> QED
      BY <2>1, <3>1 DEF SessionsTypeOK
  <2>4. installs' \in 0 .. MaxInstalls /\ unread' \subseteq Id
    BY <2>1, InstallsAssumption DEF SessionsTypeOK
  <2>5. SessionsTypeOK'
    BY <2>1, <2>2, <2>3, <2>4 DEF SessionsTypeOK
  <2>6. ListIsPresentation'
    BY <2>1 DEF ListIsPresentation
  <2> QED
    BY <2>1, <2>5, <2>6
<1>7. CASE UNCHANGED sessionVars
  <2>1. SessionsTypeOK'
    BY <1>7 DEF sessionVars, SessionsTypeOK
  <2>2. ListIsPresentation'
    BY <1>7 DEF sessionVars, ListIsPresentation, Found, IsDefault
  <2> QED
    BY <1>7, <2>1, <2>2 DEF sessionVars
<1> QED
  BY <1>1, <1>2, <1>3, <1>4, <1>5, <1>6, <1>7 DEF SessionsNext, DiscoverSessions

LEMMA DiscoveredList == SessionsSpec => [](SessionsTypeOK /\ ListIsPresentation)
<1>1. ShownInv => SessionsTypeOK /\ ListIsPresentation
  BY DEF ShownInv
<1> QED
  BY <1>1, InitShows, StepShows, PTL DEF SessionsSpec

-----------------------------------------------------------------------------
(* The start of the greeter.                                               *)

\* The start runs each discovery as it is specified by itself: whatever main
\* does besides, each discovery takes a step of its own or none.
THEOREM StartupRunsDiscoveries == Spec => UsersSpec /\ SessionsSpec
<1>1. Init => UsersInit /\ SessionsInit
  BY DEF Init
<1>2. [Next]_vars => [UsersNext]_userVars /\ [SessionsNext]_sessionVars
  <2> SUFFICES ASSUME [Next]_vars
               PROVE  [UsersNext]_userVars /\ [SessionsNext]_sessionVars
    OBVIOUS
  <2>1. CASE FindUsers
    BY <2>1 DEF FindUsers, UsersNext
  <2>2. CASE FindSessions
    BY <2>2 DEF FindSessions, SessionsNext
  <2>3. CASE Deploys
    BY <2>3 DEF Deploys, UsersNext
  <2>4. CASE Installs
    BY <2>4 DEF Installs, SessionsNext
  <2>5. CASE LoadConfig \/ NoPasswd \/ LoadTranslations \/ UNCHANGED vars
    BY <2>5 DEF LoadConfig, NoPasswd, LoadTranslations, vars
  <2> QED
    BY <2>1, <2>2, <2>3, <2>4, <2>5 DEF Next
<1> QED
  BY <1>1, <1>2, PTL DEF Spec, UsersSpec, SessionsSpec

\* What the discovery of accounts keeps is of its type.
THEOREM UsersTypeCorrect == Spec => []UsersTypeOK
BY StartupRunsDiscoveries, DiscoveredUsers, PTL

\* The form is given every account that may log in, once, and no other, by
\* display name and those of one name in the order of the file.
\* (parse_passwd_line, is_login_user, the sort of discover_users)
THEOREM UsersAreSorted == Spec => []UsersAreDetermined
BY StartupRunsDiscoveries, DiscoveredUsers, PTL

\* An account's avatar comes from the first of its places that had one, for
\* any accounts and any number of avatars deployed or removed meanwhile.
\* (avatar_for)
THEOREM AvatarsAreOfFirstPlace == Spec => []AvatarOfFirstPlace
BY StartupRunsDiscoveries, DiscoveredAvatars, PTL

\* What the discovery of sessions keeps is of its type.
THEOREM SessionsTypeCorrect == Spec => []SessionsTypeOK
BY StartupRunsDiscoveries, DiscoveredList, PTL

\* The session offered under an id is the first valid entry, in every order of
\* reading and whatever packages do meanwhile.  (entry(id).or_insert of
\* discover_sessions)
THEOREM DiscoveryIsFirstValid == Spec => []FirstValidEntryWins
BY StartupRunsDiscoveries, DiscoveredSessions, PTL

\* The list has every session found once and no other, the default ones first
\* and by name among each other.  (the sort of discover_sessions)
THEOREM SessionsAreSorted == Spec => []ListIsPresentation
BY StartupRunsDiscoveries, DiscoveredList, PTL
=============================================================================
