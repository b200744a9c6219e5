---------------------------- MODULE SetupProofs ----------------------------
(***************************************************************************)
(* Theorems about argvus-greeter-setup with the greeter beside it, for any *)
(* accounts, themes and accents, any number of overlapping or abandoned    *)
(* runs, and any editions of greetd's configuration.                       *)
(***************************************************************************)
EXTENDS GreeterSetup, TLAPS

-----------------------------------------------------------------------------
(* The script's two concerns                                               *)

\* Whichever of the two a behaviour is about, the other stands still.
THEOREM SetupMindsBoth == Spec => ThemesSpec /\ ConfigSpec
<1>1. Init => ThemesInit /\ ConfigInit
  BY DEF Init
<1>2. [Next]_vars => [ThemesNext]_themeVars /\ [ConfigNext]_configVars
  BY DEF Next, vars
<1> QED
  BY <1>1, <1>2, PTL DEF Spec, ThemesSpec, ConfigSpec

-----------------------------------------------------------------------------
(* Theme projections                                                       *)

Published(v) ==
  IF v = "default" THEN NoFile ELSE [content |-> v, owned |-> TRUE]

\* The file of a projection is the last published value, whole and owned.
FilesAreRegisters ==
  \A a \in Account, k \in Kind : file[a][k] = Published(register[a][k])

\* A temporary file is complete and owned before it is renamed, and belongs to
\* a run that is publishing.
TempsArePrepared ==
  \A p \in Script :
    /\ script[p].stage \in Publishing => script[p].value \in Value
    /\ script[p].stage = "own" => temp[p].content = script[p].value
    /\ script[p].stage = "rename"
         => temp[p] = [content |-> script[p].value, owned |-> TRUE]
    /\ script[p].stage \notin Publishing => temp[p] = NoFile
    /\ script[p].stage = "create" => temp[p] = NoFile

\* During a load the history holds what is published now.
HistoryIsCurrent ==
  load.stage # "idle" =>
    \A k \in Kind : register[load.account][k] \in seen[k]

ProjectionInv ==
  /\ ThemesTypeOK
  /\ FilesAreRegisters
  /\ TempsArePrepared
  /\ HistoryIsCurrent
  /\ LoadIsRegular

LEMMA InitEstablishes == ThemesInit => ProjectionInv
<1> SUFFICES ASSUME ThemesInit PROVE ProjectionInv
  OBVIOUS
<1> USE AccountAssumption, EditsAssumption, ValueAssumption
<1>1. ThemesTypeOK
  BY DEF ThemesInit, ThemesTypeOK, Account, Kind, File, NoFile
<1>2. FilesAreRegisters /\ TempsArePrepared
  BY DEF ThemesInit, FilesAreRegisters, TempsArePrepared, Published,
     Publishing
<1>3. HistoryIsCurrent /\ LoadIsRegular
  BY DEF ThemesInit, HistoryIsCurrent, LoadIsRegular, Account, Kind
<1> QED
  BY <1>1, <1>2, <1>3 DEF ProjectionInv

\* A publication, by removal or by rename, moves the file and its register
\* together, and a load under way may see it.
LEMMA PublicationIsAtomic ==
  ASSUME ProjectionInv, NEW a \in Account, NEW k \in Kind,
         NEW v \in Value \cup {"default"},
         Publish(a, k, v), load' = load,
         file' = [file EXCEPT ![a][k] = Published(v)]
  PROVE  /\ FilesAreRegisters' /\ HistoryIsCurrent' /\ LoadIsRegular'
         /\ register' \in [Account -> [Kind -> Value \cup {"default"}]]
         /\ seen' \in [Kind -> SUBSET (Value \cup {"default"})]
<1> USE DEF ProjectionInv, ThemesTypeOK, Publish
<1>1. FilesAreRegisters'
  BY DEF FilesAreRegisters
<1>2. HistoryIsCurrent'
  BY DEF HistoryIsCurrent
<1>3. \A j \in Kind : seen[j] \subseteq seen'[j]
  OBVIOUS
<1>4. LoadIsRegular'
  BY <1>3 DEF LoadIsRegular, Kind
<1>5. register' \in [Account -> [Kind -> Value \cup {"default"}]]
  OBVIOUS
<1>6. seen' \in [Kind -> SUBSET (Value \cup {"default"})]
  OBVIOUS
<1> QED
  BY <1>1, <1>2, <1>4, <1>5, <1>6

\* Whatever disturbs the runs leaves the history one of files.
LEMMA ExcuseKeepsTypes ==
  ASSUME ThemesTypeOK
  PROVE  /\ \A a \in Account, k \in Kind :
              Disturb(a, k) => excused' \in [Script -> SUBSET Files]
         /\ \A p \in Script :
              Excuse(p) => excused' \in [Script -> SUBSET Files]
<1> USE DEF ThemesTypeOK, Files
<1>1. ASSUME NEW a \in Account, NEW k \in Kind, Disturb(a, k)
      PROVE  excused' \in [Script -> SUBSET Files]
  BY <1>1 DEF Disturb
<1>2. ASSUME NEW p \in Script, Excuse(p)
      PROVE  excused' \in [Script -> SUBSET Files]
  <2>1. <<script[p].account, script[p].kind>> \in Files
    OBVIOUS
  <2> QED
    BY <1>2, <2>1 DEF Excuse
<1> QED
  BY <1>1, <1>2

ScriptState ==
  [stage : Running \cup {"off", "done"}, account : Account, kind : Kind,
   value : Value \cup {"default"}]

\* A run moves to another stage, with a value at hand.
LEMMA RunMoves ==
  ASSUME ThemesTypeOK, NEW p \in Script,
         NEW s \in Running \cup {"off", "done"},
         NEW v \in Value \cup {"default"},
         script' = [script EXCEPT ![p].stage = s, ![p].value = v]
  PROVE  /\ script' \in [Script -> ScriptState]
         /\ script'[p].stage = s /\ script'[p].value = v
         /\ \A q \in Script \ {p} : script'[q] = script[q]
<1>1. script \in [Script -> ScriptState]
  BY DEF ThemesTypeOK, ScriptState
<1>2. [script[p] EXCEPT !.stage = s, !.value = v] \in ScriptState
  BY <1>1 DEF ScriptState
<1>3. script' = [script EXCEPT ![p] = [script[p] EXCEPT !.stage = s, !.value = v]]
  BY <1>1
<1> HIDE DEF ScriptState
<1>4. script' \in [Script -> ScriptState]
  BY <1>1, <1>2, <1>3
<1>5. script'[p].stage = s /\ script'[p].value = v
  BY <1>1, <1>3 DEF ScriptState
<1>6. \A q \in Script \ {p} : script'[q] = script[q]
  BY <1>1, <1>3
<1> QED
  BY <1>4, <1>5, <1>6

LEMMA RunGoes ==
  ASSUME ThemesTypeOK, NEW p \in Script,
         NEW s \in Running \cup {"off", "done"}, Goes(p, s)
  PROVE  /\ script' \in [Script -> ScriptState]
         /\ script'[p].stage = s /\ script'[p].value = script[p].value
         /\ \A q \in Script \ {p} : script'[q] = script[q]
<1>1. script \in [Script -> ScriptState]
  BY DEF ThemesTypeOK, ScriptState
<1>2. [script[p] EXCEPT !.stage = s] \in ScriptState
  BY <1>1 DEF ScriptState
<1>3. script' = [script EXCEPT ![p] = [script[p] EXCEPT !.stage = s]]
  BY <1>1 DEF Goes
<1>4. script'[p].stage = s /\ script'[p].value = script[p].value
  BY <1>1, <1>3 DEF ScriptState
<1> QED
  BY <1>1, <1>2, <1>3, <1>4

\* It begins to publish what the account's file says.
LEMMA ChoiceMoves ==
  ASSUME ThemesTypeOK, NEW p \in Script, NEW k \in Kind, Chooses(p, k)
  PROVE  \E v \in Value :
           /\ script[p].stage = k
           /\ script' \in [Script -> ScriptState]
           /\ script'[p].stage = "create" /\ script'[p].value = v
           /\ \A q \in Script \ {p} : script'[q] = script[q]
<1>1. PICK v \in Value :
        /\ script[p].stage = k
        /\ script' = [script EXCEPT ![p].stage = "create", ![p].value = v]
  BY DEF Chooses
<1>2. /\ "create" \in Running \cup {"off", "done"}
      /\ v \in Value \cup {"default"}
  BY DEF Running, Publishing
<1>3. /\ script' \in [Script -> ScriptState]
      /\ script'[p].stage = "create" /\ script'[p].value = v
      /\ \A q \in Script \ {p} : script'[q] = script[q]
  BY <1>1, <1>2, RunMoves
<1> QED
  BY <1>1, <1>3

\* Where the loop goes on, nothing is at hand.
LEMMA LoopGoesOn ==
  ASSUME ThemesTypeOK, NEW p \in Script, GoesOn(p)
  PROVE  /\ script' \in [Script -> ScriptState]
         /\ script'[p].stage \notin Publishing
         /\ \A q \in Script \ {p} : script'[q] = script[q]
<1> USE AccountAssumption
<1> DEFINE At(stage, b, k) == [stage |-> stage, account |-> b, kind |-> k,
                               value |-> "default"]
<1>1. script[p].account \in Account
  BY DEF ThemesTypeOK
<1>2. At("accent", script[p].account, "accent") \in ScriptState
  BY <1>1 DEF ScriptState, Running, Kind
<1>3. At("done", 1, "theme") \in ScriptState
  BY AccountAssumption DEF ScriptState, Running, Kind, Account
<1>4. ASSUME script[p].account < NumAccounts
      PROVE  At("theme", script[p].account + 1, "theme") \in ScriptState
  BY <1>1, <1>4 DEF ScriptState, Running, Kind, Account
<1>5. PICK r \in ScriptState : /\ script' = [script EXCEPT ![p] = r]
                     /\ r.stage \in {"accent", "theme", "done"}
  BY <1>2, <1>3, <1>4 DEF GoesOn
<1>6. script \in [Script -> ScriptState]
  BY DEF ThemesTypeOK, ScriptState
<1> QED
  BY <1>5, <1>6 DEF Publishing

LEMMA ScriptKeeps ==
  ASSUME ProjectionInv, NEW p \in Script, SetupScript(p)
  PROVE  ProjectionInv'
<1> USE DEF ProjectionInv
<1>1. CASE Begin(p)
  <2> USE <1>1 DEF Begin, Keep
  <2>0. /\ script' \in [Script -> ScriptState]
        /\ script'[p].stage = "theme"
        /\ \A q \in Script \ {p} : script'[q] = script[q]
    BY RunGoes DEF Running
  <2>1. ThemesTypeOK'
    BY <2>0 DEF ThemesTypeOK, ScriptState
  <2>2. TempsArePrepared'
    BY <2>0 DEF TempsArePrepared, Publishing
  <2>3. FilesAreRegisters' /\ HistoryIsCurrent' /\ LoadIsRegular'
    BY DEF FilesAreRegisters, HistoryIsCurrent, LoadIsRegular
  <2> QED
    BY <2>1, <2>2, <2>3
<1>2. ASSUME NEW k \in Kind, Chooses(p, k)
      PROVE  ProjectionInv'
  <2>0. PICK v \in Value :
          /\ script[p].stage = k
          /\ script' \in [Script -> ScriptState]
          /\ script'[p].stage = "create" /\ script'[p].value = v
          /\ \A q \in Script \ {p} : script'[q] = script[q]
    BY <1>2, ChoiceMoves
  <2> USE <1>2 DEF Chooses, Keep
  <2>1. ThemesTypeOK'
    BY <2>0 DEF ThemesTypeOK, ScriptState
  <2>2. TempsArePrepared'
    BY <2>0 DEF TempsArePrepared, Publishing, Kind
  <2>3. FilesAreRegisters' /\ HistoryIsCurrent' /\ LoadIsRegular'
    BY DEF FilesAreRegisters, HistoryIsCurrent, LoadIsRegular
  <2> QED
    BY <2>1, <2>2, <2>3
<1>3. ASSUME NEW k \in Kind, Withdraws(p, k)
      PROVE  ProjectionInv'
  <2> DEFINE a == script[p].account
  <2>1. a \in Account /\ Published("default") = NoFile
    BY DEF ThemesTypeOK, Published
  <2>2. /\ Publish(a, k, "default") /\ GoesOn(p)
        /\ file' = [file EXCEPT ![a][k] = Published("default")]
        /\ UNCHANGED <<source, temp, load, edits, excused>>
        /\ script[p].stage \in {"theme", "accent"}
    BY <1>3, <2>1 DEF Withdraws, Kind
  <2> HIDE DEF a
  <2>3. /\ FilesAreRegisters' /\ HistoryIsCurrent' /\ LoadIsRegular'
        /\ register' \in [Account -> [Kind -> Value \cup {"default"}]]
        /\ seen' \in [Kind -> SUBSET (Value \cup {"default"})]
    BY <2>1, <2>2, PublicationIsAtomic
  <2>4. /\ script' \in [Script -> ScriptState]
        /\ script'[p].stage \notin Publishing
        /\ \A q \in Script \ {p} : script'[q] = script[q]
    BY <2>2, LoopGoesOn
  <2>5. file' \in [Account -> [Kind -> File]]
    <3>1. Published("default") \in File
      BY DEF Published, NoFile, File
    <3> QED
      BY <2>1, <2>2, <3>1 DEF ThemesTypeOK
  <2>6. ThemesTypeOK'
    BY <2>2, <2>3, <2>4, <2>5 DEF ThemesTypeOK, ScriptState
  <2>7. TempsArePrepared'
    BY <2>2, <2>4 DEF TempsArePrepared, Publishing
  <2> QED
    BY <2>3, <2>6, <2>7
<1>4. CASE Declines(p)
  <2>1. /\ script' \in [Script -> ScriptState]
        /\ script'[p].stage \notin Publishing
        /\ \A q \in Script \ {p} : script'[q] = script[q]
    BY <1>4, LoopGoesOn DEF Declines
  <2> USE <1>4, <2>1 DEF Declines, Keep
  <2>2. ThemesTypeOK'
    BY DEF ThemesTypeOK, ScriptState
  <2>3. TempsArePrepared'
    BY DEF TempsArePrepared, Publishing
  <2>4. FilesAreRegisters' /\ HistoryIsCurrent' /\ LoadIsRegular'
    BY DEF FilesAreRegisters, HistoryIsCurrent, LoadIsRegular
  <2> QED
    BY <2>2, <2>3, <2>4
<1>5. CASE Create(p) \/ Fill(p) \/ Own(p)
  <2>1. PICK s \in {"fill", "own", "rename"} : Goes(p, s)
    BY <1>5 DEF Create, Fill, Own
  <2>2. /\ script' \in [Script -> ScriptState]
        /\ script'[p].stage = s /\ script'[p].value = script[p].value
        /\ \A q \in Script \ {p} : script'[q] = script[q]
    BY <2>1, RunGoes DEF Running, Publishing
  <2>3. /\ script[p].value \in Value
        /\ temp \in [Script -> File]
        /\ UNCHANGED <<source, file, load, edits, register, seen, excused>>
    BY <1>5 DEF Create, Fill, Own, Keep, TempsArePrepared, Publishing,
       ThemesTypeOK
  <2>4. /\ temp' \in [Script -> File]
        /\ \A q \in Script \ {p} : temp'[q] = temp[q]
    <3>1. PICK f \in File : temp' = [temp EXCEPT ![p] = f]
      <4>1. CASE Create(p)
        BY <4>1 DEF Create, File
      <4>2. CASE Fill(p)
        <5>1. temp' = [temp EXCEPT ![p] = [temp[p] EXCEPT
                                             !.content = script[p].value]]
          BY <4>2, <2>3 DEF Fill
        <5>2. [temp[p] EXCEPT !.content = script[p].value] \in File
          BY <2>3 DEF File
        <5> QED
          BY <5>1, <5>2
      <4>3. CASE Own(p)
        <5>1. temp' = [temp EXCEPT ![p] = [temp[p] EXCEPT !.owned = TRUE]]
          BY <4>3, <2>3 DEF Own
        <5>2. [temp[p] EXCEPT !.owned = TRUE] \in File
          BY <2>3 DEF File
        <5> QED
          BY <5>1, <5>2
      <4> QED
        BY <1>5, <4>1, <4>2, <4>3
    <3> QED
      BY <2>3, <3>1
  <2>5. ThemesTypeOK'
    BY <2>2, <2>3, <2>4 DEF ThemesTypeOK, ScriptState
  <2>6. /\ s = "own" => temp'[p].content = script[p].value
        /\ s = "rename"
             => temp'[p] = [content |-> script[p].value, owned |-> TRUE]
    <3>1. CASE Create(p)
      BY <3>1, <2>2, RunGoes DEF Create, Running, Publishing
    <3>2. CASE Fill(p)
      BY <3>2, <2>2, <2>3, RunGoes DEF Fill, File, Running, Publishing
    <3>3. CASE Own(p)
      <4>1. s = "rename"
        BY <3>3, <2>2, RunGoes DEF Own, Running, Publishing
      <4>2. temp[p].content = script[p].value
        BY <3>3 DEF Own, TempsArePrepared
      <4> QED
        BY <3>3, <4>1, <4>2, <2>3 DEF Own, File
    <3> QED
      BY <1>5, <3>1, <3>2, <3>3
  <2>7. TempsArePrepared'
    BY <2>2, <2>3, <2>4, <2>6 DEF TempsArePrepared, Publishing
  <2>8. FilesAreRegisters' /\ HistoryIsCurrent' /\ LoadIsRegular'
    BY <2>3 DEF FilesAreRegisters, HistoryIsCurrent, LoadIsRegular, Projected
  <2> QED
    BY <2>5, <2>7, <2>8
<1>6. CASE WriteFails(p)
  <2>1. /\ script' \in [Script -> ScriptState]
        /\ script'[p].stage \notin Publishing
        /\ \A q \in Script \ {p} : script'[q] = script[q]
    BY <1>6, LoopGoesOn DEF WriteFails
  <2> USE <1>6, <2>1 DEF WriteFails
  <2>2. temp' \in [Script -> File] /\ excused' \in [Script -> SUBSET Files]
    BY ExcuseKeepsTypes DEF ThemesTypeOK, NoFile, File
  <2>3. temp'[p] = NoFile /\ \A q \in Script \ {p} : temp'[q] = temp[q]
    BY DEF ThemesTypeOK
  <2>5. ThemesTypeOK'
    BY <2>2 DEF ThemesTypeOK, ScriptState
  <2>6. TempsArePrepared'
    BY <2>3 DEF TempsArePrepared, Publishing
  <2>4. FilesAreRegisters' /\ HistoryIsCurrent' /\ LoadIsRegular'
    BY DEF FilesAreRegisters, HistoryIsCurrent, LoadIsRegular
  <2> QED
    BY <2>4, <2>5, <2>6
<1>7. CASE Rename(p)
  <2> DEFINE a == script[p].account
             k == script[p].kind
             v == script[p].value
  <2>1. a \in Account /\ k \in Kind /\ v \in Value /\ temp[p] = Published(v)
    BY <1>7, ValueAssumption
    DEF Rename, TempsArePrepared, ThemesTypeOK, Publishing, Published
  <2>2. /\ Publish(a, k, v) /\ GoesOn(p)
        /\ file' = [file EXCEPT ![a][k] = Published(v)]
        /\ temp' = [temp EXCEPT ![p] = NoFile]
        /\ UNCHANGED <<source, load, edits>>
    BY <1>7, <2>1 DEF Rename
  <2>3. /\ Published(v) \in File
        /\ excused' \in [Script -> SUBSET Files]
    BY <1>7, <2>1, ExcuseKeepsTypes
    DEF Rename, Published, File, NoFile, ThemesTypeOK
  <2> HIDE DEF a, k, v
  <2>4. /\ FilesAreRegisters' /\ HistoryIsCurrent' /\ LoadIsRegular'
        /\ register' \in [Account -> [Kind -> Value \cup {"default"}]]
        /\ seen' \in [Kind -> SUBSET (Value \cup {"default"})]
    BY <2>1, <2>2, PublicationIsAtomic
  <2>5. /\ script' \in [Script -> ScriptState]
        /\ script'[p].stage \notin Publishing
        /\ \A q \in Script \ {p} : script'[q] = script[q]
    BY <2>2, LoopGoesOn
  <2>6. ThemesTypeOK'
    BY <2>1, <2>2, <2>3, <2>4, <2>5 DEF ThemesTypeOK, ScriptState, NoFile, File
  <2>7. TempsArePrepared'
    <3>1. temp'[p] = NoFile /\ \A q \in Script \ {p} : temp'[q] = temp[q]
      BY <2>2 DEF ThemesTypeOK
    <3> QED
      BY <2>5, <3>1 DEF TempsArePrepared, Publishing
  <2> QED
    BY <2>4, <2>6, <2>7
<1> QED
  BY <1>1, <1>2, <1>3, <1>4, <1>5, <1>6, <1>7 DEF SetupScript

LEMMA FormKeeps ==
  ASSUME ProjectionInv,
         Load \/ (\E a \in Account : Select(a))
           \/ (\E a \in Account, k \in Kind : Edit(a, k))
  PROVE  ProjectionInv'
<1> USE DEF ProjectionInv
<1>0. "theme" \in Kind /\ "accent" \in Kind
  BY DEF Kind
<1>1. ASSUME NEW a \in Account, Select(a)
      PROVE  ProjectionInv'
  <2> USE <1>1 DEF Select
  <2>1. ThemesTypeOK'
    BY DEF ThemesTypeOK
  <2>2. HistoryIsCurrent' /\ LoadIsRegular'
    BY DEF HistoryIsCurrent, LoadIsRegular, ThemesTypeOK
  <2>3. FilesAreRegisters' /\ TempsArePrepared'
    BY DEF FilesAreRegisters, TempsArePrepared
  <2> QED
    BY <2>1, <2>2, <2>3
<1>2. ASSUME NEW k \in Kind, load.stage # "idle"
      PROVE  /\ ~Projected(k).owned => "default" \in seen[k]
             /\ Content(k) \in seen[k]
  <2>1. /\ Projected(k) = Published(register[load.account][k])
        /\ register[load.account][k] \in seen[k]
        /\ register[load.account][k] \in Value \cup {"default"}
    BY <1>2 DEF FilesAreRegisters, HistoryIsCurrent, ThemesTypeOK, Projected
  <2> QED
    BY <2>1, ValueAssumption DEF Published, NoFile, Content
<1>3. CASE Load
  <2>1. /\ \A k \in Kind : seen[k] \subseteq Value \cup {"default"}
        /\ UNCHANGED <<source, file, temp, script, edits, register, seen, excused>>
    BY <1>3 DEF ThemesTypeOK, Load, Stat, Read
  <2>2. load.stage # "idle"
    BY <1>3 DEF Load, Stat, Read
  <2>3. /\ ~Projected("theme").owned => "default" \in seen["theme"]
        /\ ~Projected("accent").owned => "default" \in seen["accent"]
        /\ Content("theme") \in seen["theme"]
        /\ Content("accent") \in seen["accent"]
    BY <1>0, <1>2, <2>2
  <2>4. ThemesTypeOK'
    <3>1. load' \in [stage : {"idle", "statTheme", "readTheme", "statAccent",
                              "readAccent"},
                     account : Account, theme : Value \cup {"default", "empty"},
                     accent : Value \cup {"default", "empty"}]
      <4>1. load \in [stage : {"idle", "statTheme", "readTheme", "statAccent",
                               "readAccent"},
                      account : Account,
                      theme : Value \cup {"default", "empty"},
                      accent : Value \cup {"default", "empty"}]
        BY DEF ThemesTypeOK
      <4>2. /\ Content("theme") \in Value \cup {"default"}
            /\ Content("accent") \in Value \cup {"default"}
        BY <1>0, <2>1, <2>3
      <4>3. CASE Stat("theme", "statTheme", "readTheme", "statAccent")
        BY <4>1, <4>3 DEF Stat
      <4>4. CASE Stat("accent", "statAccent", "readAccent", "idle")
        BY <4>1, <4>4 DEF Stat
      <4>5. CASE Read("theme", "readTheme", "statAccent")
        BY <4>1, <4>2, <4>5 DEF Read
      <4>6. CASE Read("accent", "readAccent", "idle")
        BY <4>1, <4>2, <4>6 DEF Read
      <4> QED
        BY <1>3, <4>3, <4>4, <4>5, <4>6 DEF Load
    <3> QED
      BY <2>1, <3>1 DEF ThemesTypeOK
  <2>5. HistoryIsCurrent'
    <3>1. load'.account = load.account
      BY <1>3 DEF ThemesTypeOK, Load, Stat, Read
    <3> QED
      BY <2>1, <2>2, <3>1 DEF HistoryIsCurrent
  <2>6. LoadIsRegular'
    BY <1>3, <2>1, <2>3 DEF LoadIsRegular, ThemesTypeOK, Load, Stat, Read
  <2>7. FilesAreRegisters' /\ TempsArePrepared'
    BY <2>1 DEF FilesAreRegisters, TempsArePrepared
  <2> QED
    BY <2>4, <2>5, <2>6, <2>7
<1>4. ASSUME NEW a \in Account, NEW k \in Kind, Edit(a, k)
      PROVE  ProjectionInv'
  <2> USE <1>4, EditsAssumption DEF Edit
  <2>1. source' \in [Account -> Source]
    <3>1. PICK s \in Source : source' = [source EXCEPT ![a][k] = s[k]]
      OBVIOUS
    <3>2. source[a] \in Source
      BY DEF ThemesTypeOK
    <3>3. [source[a] EXCEPT ![k] = s[k]] \in Source
      BY <3>2 DEF Source, Kind
    <3>4. source' = [source EXCEPT ![a] = [source[a] EXCEPT ![k] = s[k]]]
      BY <3>1 DEF ThemesTypeOK
    <3> QED
      BY <3>3, <3>4 DEF ThemesTypeOK
  <2>2. edits' \in 0 .. MaxEdits /\ excused' \in [Script -> SUBSET Files]
    BY ExcuseKeepsTypes DEF ThemesTypeOK
  <2>3. ThemesTypeOK'
    BY <2>1, <2>2 DEF ThemesTypeOK
  <2>4. /\ FilesAreRegisters' /\ TempsArePrepared'
        /\ HistoryIsCurrent' /\ LoadIsRegular'
    BY DEF FilesAreRegisters, TempsArePrepared, HistoryIsCurrent,
       LoadIsRegular
  <2> QED
    BY <2>3, <2>4
<1> QED
  BY <1>1, <1>3, <1>4

\* What every reachable state of the projections satisfies.
LEMMA ProjectionsAreInvariant == ThemesSpec => []ProjectionInv
<1>1. ProjectionInv /\ [ThemesNext]_themeVars => ProjectionInv'
  <2> SUFFICES ASSUME ProjectionInv, [ThemesNext]_themeVars
               PROVE  ProjectionInv'
    OBVIOUS
  <2>1. CASE ThemesNext
    BY <2>1, ScriptKeeps, FormKeeps DEF ThemesNext
  <2>2. CASE UNCHANGED themeVars
    BY <2>2 DEF themeVars, ProjectionInv, ThemesTypeOK, FilesAreRegisters,
       TempsArePrepared, HistoryIsCurrent, LoadIsRegular, Projected
  <2> QED
    BY <2>1, <2>2
<1> QED
  BY <1>1, InitEstablishes, PTL DEF ThemesSpec

\* Type correctness, which says too that the script's walk over the accounts
\* ends at the last of them.
THEOREM ThemesTypeCorrect == Spec => []ThemesTypeOK
BY ProjectionsAreInvariant, SetupMindsBoth, PTL DEF ProjectionInv

\* What the form loads was published at some moment of the load, however many
\* runs of the script replace, withdraw or abandon the files meanwhile.
THEOREM LoadsAreRegular == Spec => []LoadIsRegular
BY ProjectionsAreInvariant, SetupMindsBoth, PTL DEF ProjectionInv

\* A run that is not in the middle of a publication has no temporary file.
THEOREM FinishedSyncsAreClean == Spec => []FinishedSyncLeavesNoTemp
<1>1. ProjectionInv => FinishedSyncLeavesNoTemp
  BY DEF ProjectionInv, TempsArePrepared, FinishedSyncLeavesNoTemp, Publishing
<1> QED
  BY <1>1, ProjectionsAreInvariant, SetupMindsBoth, PTL

-----------------------------------------------------------------------------
(* What the runs that have ended have published.                           *)

\* Where the loop of sync_themes is tells which file it is about.
WalkIsInOrder ==
  \A p \in Script :
    /\ script[p].stage \in {"off", "theme"} => script[p].kind = "theme"
    /\ script[p].stage = "accent" => script[p].kind = "accent"
    /\ script[p].stage = "off" => script[p].account = 1

AtHand(p, a, k) ==
  /\ script[p].stage \in Publishing
  /\ a = script[p].account /\ k = script[p].kind

\* Where it is not excused, a run holds what the account's file says now, and
\* has left behind what the files say now.
RunIsAccurate(p) ==
  \A a \in Account, k \in Kind :
    HasRead(p, a, k) /\ <<a, k>> \notin excused[p] =>
      /\ AtHand(p, a, k) => script[p].value = source[a][k]
      /\ ~AtHand(p, a, k) => AsAsked(a, k)

RunsAreAccurate == \A p \in Script : RunIsAccurate(p)

AccurateInv ==
  /\ ThemesTypeOK
  /\ TempsArePrepared
  /\ WalkIsInOrder
  /\ RunsAreAccurate

LEMMA InitIsAccurate == ThemesInit => WalkIsInOrder /\ RunsAreAccurate
BY DEF ThemesInit, WalkIsInOrder, RunsAreAccurate, RunIsAccurate, HasRead,
       Account, Publishing

\* The run passes the file it was about and no other.
LEMMA LoopPassesOne ==
  ASSUME ThemesTypeOK, NEW p \in Script, GoesOn(p)
  PROVE  /\ script'[p].stage \in {"theme", "accent", "done"}
         /\ script'[p].stage = "theme" => script'[p].kind = "theme"
         /\ script'[p].stage = "accent" => script'[p].kind = "accent"
         /\ \A a \in Account, k \in Kind :
              HasRead(p, a, k)' =>
                \/ HasRead(p, a, k)
                \/ a = script[p].account /\ k = script[p].kind
<1> DEFINE At(stage, b, k) == [stage |-> stage, account |-> b, kind |-> k,
                               value |-> "default"]
<1>1. /\ script \in [Script -> ScriptState]
      /\ script[p].account \in Account /\ script[p].kind \in Kind
  BY DEF ThemesTypeOK, ScriptState
<1>2. CASE script[p].kind = "theme"
  <2>1. script'[p] = At("accent", script[p].account, "accent")
    BY <1>1, <1>2 DEF GoesOn
  <2> QED
    BY <1>1, <1>2, <2>1 DEF HasRead, Account, Publishing
<1>3. CASE script[p].kind = "accent" /\ script[p].account < NumAccounts
  <2>1. script'[p] = At("theme", script[p].account + 1, "theme")
    BY <1>1, <1>3 DEF GoesOn
  <2> QED
    BY <1>1, <1>3, <2>1, AccountAssumption DEF HasRead, Account, Publishing, Kind
<1>4. CASE script[p].kind = "accent" /\ script[p].account = NumAccounts
  <2>1. script'[p] = At("done", 1, "theme")
    BY <1>1, <1>4, AccountAssumption DEF GoesOn
  <2> QED
    BY <1>1, <1>4, <2>1, AccountAssumption DEF HasRead, Account, Publishing, Kind
<1> QED
  BY <1>1, <1>2, <1>3, <1>4, AccountAssumption DEF Account, Kind

\* A run stays accurate when it has seen to a file: that one is as asked now,
\* or excused, and the others are as they were.
LEMMA SeenTo ==
  ASSUME AccurateInv, NEW p \in Script, GoesOn(p), source' = source,
         excused[p] \subseteq excused'[p],
         NEW b \in Account, b = script[p].account,
         NEW j \in Kind, j = script[p].kind,
         <<b, j>> \in excused'[p] \/ AsAsked(b, j)',
         \A a \in Account, k \in Kind :
           a # b \/ k # j => register'[a][k] = register[a][k]
  PROVE  RunIsAccurate(p)'
<1>1. script'[p].stage \in {"theme", "accent", "done"}
  BY LoopPassesOne DEF AccurateInv
<1>2. ASSUME NEW a \in Account, NEW k \in Kind,
             HasRead(p, a, k)', <<a, k>> \notin excused'[p]
      PROVE  AsAsked(a, k)'
  <2>1. CASE a = b /\ k = j
    BY <1>2, <2>1
  <2>2. CASE a # b \/ k # j
    <3>1. HasRead(p, a, k)
      BY <1>2, <2>2, LoopPassesOne DEF AccurateInv
    <3>2. <<a, k>> \notin excused[p] /\ ~AtHand(p, a, k)
      BY <1>2, <2>2 DEF AtHand
    <3>3. AsAsked(a, k)
      BY <3>1, <3>2 DEF AccurateInv, RunsAreAccurate, RunIsAccurate
    <3> QED
      BY <2>2, <3>3 DEF AsAsked
  <2> QED
    BY <2>1, <2>2
<1> QED
  BY <1>1, <1>2 DEF RunIsAccurate, AtHand, Publishing

\* What happens to one file leaves a run accurate that does not move, if the
\* file is still to be read, excused, or published as asked.
LEMMA OthersStayAccurate ==
  ASSUME NEW q \in Script, RunIsAccurate(q), script'[q] = script[q],
         excused[q] \subseteq excused'[q],
         NEW b \in Account, NEW j \in Kind,
         \A a \in Account, k \in Kind :
           a # b \/ k # j => /\ source'[a][k] = source[a][k]
                            /\ register'[a][k] = register[a][k],
         \/ ~HasRead(q, b, j)
         \/ <<b, j>> \in excused'[q]
         \/ source'[b][j] = source[b][j] /\ AsAsked(b, j)'
  PROVE  RunIsAccurate(q)'
<1> SUFFICES ASSUME NEW a \in Account, NEW k \in Kind,
                    HasRead(q, a, k)', <<a, k>> \notin excused'[q]
             PROVE  /\ AtHand(q, a, k)' => script'[q].value = source'[a][k]
                    /\ ~AtHand(q, a, k)' => AsAsked(a, k)'
  BY DEF RunIsAccurate
<1>1. /\ HasRead(q, a, k) /\ <<a, k>> \notin excused[q]
      /\ AtHand(q, a, k)' <=> AtHand(q, a, k)
  BY DEF HasRead, AtHand
<1>2. /\ AtHand(q, a, k) => script[q].value = source[a][k]
      /\ ~AtHand(q, a, k) => AsAsked(a, k)
  BY <1>1 DEF RunIsAccurate
<1>3. CASE a # b \/ k # j
  BY <1>1, <1>2, <1>3 DEF AsAsked
<1>4. CASE a = b /\ k = j
  BY <1>1, <1>2, <1>4
<1> QED
  BY <1>3, <1>4

LEMMA RunStaysAccurate ==
  ASSUME NEW q \in Script, RunIsAccurate(q),
         UNCHANGED <<source, register, script[q], excused[q]>>
  PROVE  RunIsAccurate(q)'
BY DEF RunIsAccurate, HasRead, AtHand, AsAsked

LEMMA StepIsInOrder ==
  ASSUME ThemesTypeOK, WalkIsInOrder, NEW p \in Script, SetupScript(p)
  PROVE  /\ WalkIsInOrder'
         /\ \A q \in Script \ {p} : script'[q] = script[q]
<1> USE DEF WalkIsInOrder
<1>1. CASE Begin(p)
  <2>1. /\ script'[p].stage = "theme" /\ script'[p].kind = script[p].kind
        /\ \A q \in Script \ {p} : script'[q] = script[q]
    BY <1>1 DEF Begin, Goes, ThemesTypeOK
  <2> QED
    BY <1>1, <2>1 DEF Begin
<1>2. CASE GoesOn(p)
  BY <1>2, LoopPassesOne, LoopGoesOn
<1>3. CASE \/ \E k \in Kind : Chooses(p, k)
           \/ Create(p) \/ Fill(p) \/ Own(p)
  <2>1. /\ script'[p].stage \in Publishing
        /\ \A q \in Script \ {p} : script'[q] = script[q]
    BY <1>3 DEF Chooses, Create, Fill, Own, Goes, ThemesTypeOK, Publishing
  <2> QED
    BY <2>1 DEF Publishing
<1> QED
  BY <1>1, <1>2, <1>3 DEF SetupScript, Withdraws, Declines, WriteFails, Rename

\* A publication: of what the account's file says, or by an excused run, which
\* disturbs all others that have read the file.
LEMMA PublicationIsAccurate ==
  ASSUME AccurateInv, NEW p \in Script, GoesOn(p), source' = source,
         \A q \in Script \ {p} : script'[q] = script[q],
         NEW b \in Account, b = script[p].account,
         NEW j \in Kind, j = script[p].kind,
         NEW v \in Value \cup {"default"}, Publish(b, j, v),
         \/ /\ excused' = excused
            /\ IF v = "default" THEN source[b][j] = "none"
                                ELSE source[b][j] = v
         \/ <<b, j>> \in excused[p] /\ Disturb(b, j)
  PROVE  RunsAreAccurate'
<1> USE DEF AccurateInv
<1>1. /\ register'[b][j] = v
      /\ \A a \in Account, k \in Kind :
           a # b \/ k # j => register'[a][k] = register[a][k]
  BY DEF Publish, ThemesTypeOK
<1>2. CASE /\ excused' = excused
           /\ IF v = "default" THEN source[b][j] = "none"
                               ELSE source[b][j] = v
  <2>1. AsAsked(b, j)'
    BY <1>1, <1>2, ValueAssumption DEF AsAsked
  <2>2. RunIsAccurate(p)'
    BY <1>1, <1>2, <2>1, SeenTo
  <2>3. ASSUME NEW q \in Script \ {p} PROVE RunIsAccurate(q)'
    BY <1>1, <1>2, <2>1, <2>3, OthersStayAccurate DEF RunsAreAccurate
  <2> QED
    BY <2>2, <2>3 DEF RunsAreAccurate
<1>3. CASE <<b, j>> \in excused[p] /\ Disturb(b, j)
  <2>1. \A q \in Script : /\ excused[q] \subseteq excused'[q]
                          /\ HasRead(q, b, j) => <<b, j>> \in excused'[q]
    BY <1>3 DEF Disturb, ThemesTypeOK
  <2>2. RunIsAccurate(p)'
    BY <1>1, <1>3, <2>1, SeenTo
  <2>3. ASSUME NEW q \in Script \ {p} PROVE RunIsAccurate(q)'
    BY <1>1, <2>1, <2>3, OthersStayAccurate DEF RunsAreAccurate
  <2> QED
    BY <2>2, <2>3 DEF RunsAreAccurate
<1> QED
  BY <1>2, <1>3

LEMMA ScriptStaysAccurate ==
  ASSUME AccurateInv, NEW p \in Script, SetupScript(p)
  PROVE  RunsAreAccurate'
<1> USE DEF AccurateInv
<1>0. \A q \in Script \ {p} : script'[q] = script[q]
  BY StepIsInOrder
<1>1. PICK b \in Account, j \in Kind :
        b = script[p].account /\ j = script[p].kind
  BY DEF ThemesTypeOK
<1>2. ASSUME UNCHANGED <<source, register>>, RunIsAccurate(p)',
             \A q \in Script \ {p} : excused'[q] = excused[q]
      PROVE  RunsAreAccurate'
  BY <1>0, <1>2, RunStaysAccurate DEF RunsAreAccurate
<1>3. CASE Begin(p)
  <2>1. /\ script'[p].stage = "theme" /\ script'[p].account = 1
        /\ script'[p].kind = "theme"
    BY <1>3 DEF Begin, Goes, ThemesTypeOK, WalkIsInOrder
  <2>2. RunIsAccurate(p)'
    BY <2>1 DEF RunIsAccurate, HasRead, Publishing, Account
  <2> QED
    BY <1>2, <1>3, <2>2 DEF Begin, Keep
<1>4. ASSUME NEW k \in Kind, Chooses(p, k)
      PROVE  RunsAreAccurate'
  <2>1. /\ j = k /\ script[p].stage = k
        /\ UNCHANGED <<source, register, excused>>
    BY <1>1, <1>4 DEF Chooses, Keep, Kind, WalkIsInOrder
  <2>2. /\ script'[p].stage = "create"
        /\ script'[p].value = source[b][j]
        /\ script'[p].account = b /\ script'[p].kind = j
    BY <1>1, <1>4, <2>1 DEF Chooses, ThemesTypeOK
  <2>3. ASSUME NEW a \in Account, NEW l \in Kind, a # b \/ l # j
        PROVE  /\ ~AtHand(p, a, l)' /\ ~AtHand(p, a, l)
               /\ HasRead(p, a, l)' => HasRead(p, a, l)
    BY <1>1, <2>2, <2>3 DEF AtHand, HasRead
  <2>4. AtHand(p, b, j)'
    BY <2>2 DEF AtHand, Publishing
  <2>5. RunIsAccurate(p)'
    <3> SUFFICES ASSUME NEW a \in Account, NEW l \in Kind,
                        HasRead(p, a, l)', <<a, l>> \notin excused'[p]
                 PROVE  /\ AtHand(p, a, l)' => script'[p].value = source'[a][l]
                        /\ ~AtHand(p, a, l)' => AsAsked(a, l)'
      BY DEF RunIsAccurate
    <3>1. CASE a = b /\ l = j
      BY <2>1, <2>2, <2>4, <3>1
    <3>2. CASE a # b \/ l # j
      <4>1. AsAsked(a, l)
        BY <2>1, <2>3, <3>2 DEF RunsAreAccurate, RunIsAccurate
      <4> QED
        BY <2>1, <2>3, <3>2, <4>1 DEF AsAsked
    <3> QED
      BY <3>1, <3>2
  <2> QED
    BY <1>2, <2>1, <2>5
<1>5. ASSUME NEW k \in Kind, Withdraws(p, k)
      PROVE  RunsAreAccurate'
  <2>1. j = k
    BY <1>1, <1>5 DEF Withdraws, Kind, WalkIsInOrder
  <2> QED
    BY <1>0, <1>1, <1>5, <2>1, PublicationIsAccurate DEF Withdraws
<1>6. CASE Declines(p)
  <2>1. /\ GoesOn(p) /\ UNCHANGED <<source, register, excused>>
        /\ j = "theme" /\ source[b][j] = "unsupported"
    BY <1>1, <1>6 DEF Declines, Keep, WalkIsInOrder
  <2>2. AsAsked(b, j)'
    BY <2>1, ValueAssumption DEF AsAsked
  <2>3. RunIsAccurate(p)'
    BY <1>1, <2>1, <2>2, SeenTo
  <2> QED
    BY <1>2, <2>1, <2>3
<1>7. CASE Create(p) \/ Fill(p) \/ Own(p)
  <2>1. /\ UNCHANGED <<source, register, excused>>
        /\ script[p].stage \in Publishing /\ script'[p].stage \in Publishing
        /\ script'[p].value = script[p].value
        /\ script'[p].account = script[p].account
        /\ script'[p].kind = script[p].kind
    BY <1>7 DEF Create, Fill, Own, Keep, Goes, ThemesTypeOK, Publishing
  <2>2. \A a \in Account, k \in Kind :
          /\ HasRead(p, a, k)' <=> HasRead(p, a, k)
          /\ AtHand(p, a, k)' <=> AtHand(p, a, k)
          /\ AsAsked(a, k)' <=> AsAsked(a, k)
    BY <2>1 DEF HasRead, AtHand, AsAsked, Publishing
  <2>3. RunIsAccurate(p)'
    BY <2>1, <2>2 DEF RunsAreAccurate, RunIsAccurate
  <2> QED
    BY <1>2, <2>1, <2>3
<1>8. CASE WriteFails(p)
  <2>1. /\ GoesOn(p) /\ UNCHANGED <<source, register>>
        /\ excused[p] \subseteq excused'[p] /\ <<b, j>> \in excused'[p]
        /\ \A q \in Script \ {p} : excused'[q] = excused[q]
    BY <1>1, <1>8 DEF WriteFails, Excuse, ThemesTypeOK
  <2>2. RunIsAccurate(p)'
    BY <1>1, <2>1, SeenTo
  <2> QED
    BY <1>2, <2>1, <2>2
<1>9. CASE Rename(p)
  <2>1. /\ script[p].value \in Value
        /\ <<b, j>> \notin excused[p] => script[p].value = source[b][j]
    BY <1>1, <1>9 DEF Rename, TempsArePrepared, RunsAreAccurate, RunIsAccurate,
       HasRead, AtHand, Publishing
  <2>2. /\ GoesOn(p) /\ source' = source /\ Publish(b, j, script[p].value)
        /\ IF <<b, j>> \in excused[p] THEN Disturb(b, j)
                                     ELSE excused' = excused
    BY <1>1, <1>9 DEF Rename
  <2>3. script[p].value # "default"
    BY <2>1, ValueAssumption
  <2> QED
    BY <1>0, <1>1, <2>1, <2>2, <2>3, PublicationIsAccurate
<1> QED
  BY <1>3, <1>4, <1>5, <1>6, <1>7, <1>8, <1>9 DEF SetupScript

LEMMA StepStaysAccurate ==
  ASSUME AccurateInv, [ThemesNext]_themeVars
  PROVE  WalkIsInOrder' /\ RunsAreAccurate'
<1> USE DEF AccurateInv, RunsAreAccurate
<1>1. ASSUME NEW p \in Script, SetupScript(p)
      PROVE  WalkIsInOrder' /\ RunsAreAccurate'
  BY <1>1, StepIsInOrder, ScriptStaysAccurate
<1>2. CASE \/ Load \/ (\E a \in Account : Select(a))
           \/ UNCHANGED themeVars
  <2>1. UNCHANGED <<source, script, register, excused>>
    BY <1>2 DEF Load, Stat, Read, Select, themeVars
  <2> QED
    BY <2>1, RunStaysAccurate DEF WalkIsInOrder
<1>3. ASSUME NEW b \in Account, NEW j \in Kind, Edit(b, j)
      PROVE  WalkIsInOrder' /\ RunsAreAccurate'
  <2>1. /\ UNCHANGED <<script, register>>
        /\ \A a \in Account, k \in Kind :
             a # b \/ k # j => source'[a][k] = source[a][k]
    BY <1>3 DEF Edit, ThemesTypeOK
  <2>2. \A q \in Script : /\ excused[q] \subseteq excused'[q]
                          /\ HasRead(q, b, j) => <<b, j>> \in excused'[q]
    BY <1>3 DEF Edit, Disturb, ThemesTypeOK
  <2>3. ASSUME NEW q \in Script PROVE RunIsAccurate(q)'
    BY <2>1, <2>2, OthersStayAccurate
  <2> QED
    BY <2>1, <2>3 DEF WalkIsInOrder
<1> QED
  BY <1>1, <1>2, <1>3 DEF ThemesNext

\* A run that has ended has published every file it is not excused of as the
\* account asks, for any number of accounts and of overlapping, failing and
\* dying runs.  (sync_themes)
THEOREM FinishedSyncsAreAccurate == Spec => []FinishedSyncIsAccurate
<1>1. ThemesInit => WalkIsInOrder /\ RunsAreAccurate
  BY InitIsAccurate
<1>2. ProjectionInv /\ WalkIsInOrder /\ RunsAreAccurate
        /\ [ThemesNext]_themeVars
        => WalkIsInOrder' /\ RunsAreAccurate'
  BY StepStaysAccurate DEF ProjectionInv, AccurateInv
<1>3. RunsAreAccurate => FinishedSyncIsAccurate
  BY DEF RunsAreAccurate, RunIsAccurate, FinishedSyncIsAccurate, HasRead,
     AtHand, Publishing
<1> QED
  BY <1>1, <1>2, <1>3, ProjectionsAreInvariant, SetupMindsBoth, PTL DEF ThemesSpec

-----------------------------------------------------------------------------
(* greetd's configuration                                                  *)

\* Holds the administrator's last edition, be it with lines migrated.
Holds(c) == c.kind = "admin" /\ c.edition = original.edition

\* The backup of a run that is over holds it.
InOldBackup == \E r \in 1 .. run : Holds(backup[r]) /\ (task # 0 => r # run)

\* The configuration itself does, and has not been opened for writing.
InPlace == Holds(config) /\ step \in {"check", "copy"}

\* The run at hand has it in its backup, and puts back what it took.
BackedUp ==
  /\ task # 0 /\ step \in {"write", "fill"}
  /\ Holds(backup[run])
  /\ step = "write" => Holds(config)
  /\ step = "fill" /\ task # 3 => Holds(draft)

RunIsCounted == IF task = 0 THEN step = "check" ELSE run \in Invocation

ConfigInv ==
  /\ ConfigTypeOK
  /\ RunIsCounted
  /\ original.kind = "admin" => InOldBackup \/ InPlace \/ BackedUp

LEMMA InitKeepsEdition == ConfigInit => ConfigInv
<1> SUFFICES ASSUME ConfigInit PROVE ConfigInv
  OBVIOUS
<1> USE RunsAssumption
<1>1. config \in Config
  BY DEF ConfigInit, Config, Plain, Admin
<1>2. ConfigTypeOK
  BY <1>1 DEF ConfigInit, ConfigTypeOK, Config, Plain
<1> QED
  BY <1>2 DEF ConfigInv, ConfigInit, RunIsCounted, InPlace, Holds

LEMMA StepKeepsTypes ==
  ASSUME ConfigTypeOK, RunIsCounted, ConfigNext
  PROVE  ConfigTypeOK' /\ RunIsCounted'
<1> USE RunsAssumption DEF ConfigTypeOK, RunIsCounted, Invocation
<1>1. /\ Plain("torn") \in Config /\ Plain("packaged") \in Config
      /\ [config EXCEPT !.legacy = @ \ {LineOf(task)}] \in Config
  BY DEF Config, Plain
<1>2. After(task) \in 0 .. 3
  BY DEF After
<1>3. CASE StartRun
  BY <1>3 DEF StartRun
<1>4. CASE NothingToDo
  BY <1>2, <1>4 DEF NothingToDo, GoTo
<1>5. CASE OpenBackup \/ CopyBackup
  BY <1>1, <1>5 DEF OpenBackup, CopyBackup, GoTo, BackupOf
<1>6. CASE OpenFile \/ FillFile
  <2>1. config' \in Config /\ draft' \in Config
    BY <1>1, <1>6 DEF OpenFile, FillFile
  <2> QED
    BY <1>2, <1>6, <2>1 DEF OpenFile, FillFile, GoTo
<1>7. CASE RunDies
  BY <1>7 DEF RunDies, GoTo
<1>8. ASSUME NEW lines \in SUBSET Line, WriteEdition(lines)
      PROVE  ConfigTypeOK' /\ RunIsCounted'
  <2>1. original.edition + 1 \in 0 .. MaxEditions
    BY <1>8 DEF WriteEdition, Config
  <2>2. Admin(original.edition + 1, lines) \in Config
    BY <2>1 DEF Admin, Config
  <2> QED
    BY <1>8, <2>2 DEF WriteEdition
<1> QED
  BY <1>3, <1>4, <1>5, <1>6, <1>7, <1>8 DEF ConfigNext

LEMMA StepKeepsEdition ==
  ASSUME ConfigInv, ConfigNext
  PROVE  (original.kind = "admin" => InOldBackup \/ InPlace \/ BackedUp)'
<1> USE DEF ConfigInv
<1>1. ConfigTypeOK' /\ RunIsCounted'
  BY StepKeepsTypes
<1>2. run \in Nat /\ task \in 0 .. 3
  BY RunsAssumption DEF ConfigTypeOK
<1>3. CASE \E lines \in SUBSET Line : WriteEdition(lines)
  <2>1. InPlace'
    BY <1>3 DEF WriteEdition, InPlace, Holds, Admin, RunIsCounted
  <2> QED
    BY <2>1
<1>4. ASSUME ~(\E lines \in SUBSET Line : WriteEdition(lines)),
             original.kind = "admin"
      PROVE  (InOldBackup \/ InPlace \/ BackedUp)'
  <2>1. UNCHANGED original
    BY <1>4 DEF ConfigNext, StartRun, NothingToDo, OpenBackup, CopyBackup,
       OpenFile, FillFile, RunDies
  <2>2. CASE InOldBackup
    <3>1. PICK r \in 1 .. run : Holds(backup[r]) /\ (task # 0 => r # run)
      BY <2>2 DEF InOldBackup
    <3>2. r \in Invocation /\ backup \in [Invocation -> Config]
      BY RunsAssumption DEF ConfigTypeOK, Invocation
    <3>3. backup'[r] = backup[r]
      BY <1>4, <3>1, <3>2 DEF ConfigNext, StartRun, NothingToDo, OpenBackup,
         CopyBackup, OpenFile, FillFile, RunDies, BackupOf
    <3>4. r \in 1 .. run' /\ (task' # 0 => r # run')
      BY <1>2, <1>4, <3>1 DEF ConfigNext, StartRun, NothingToDo, OpenBackup,
         CopyBackup, OpenFile, FillFile, RunDies, GoTo
    <3> QED
      BY <2>1, <3>1, <3>3, <3>4 DEF InOldBackup, Holds
  <2>3. CASE InPlace
    <3>1. CASE StartRun \/ RunDies \/ OpenBackup
      BY <2>1, <2>3, <3>1 DEF StartRun, RunDies, OpenBackup, InPlace, Holds,
         GoTo
    <3>2. CASE NothingToDo
      <4>1. task # 3
        BY <2>3, <3>2 DEF NothingToDo, Concerned, InPlace, Holds
      <4> QED
        BY <2>1, <2>3, <3>2, <4>1 DEF NothingToDo, GoTo, InPlace, Holds
    <3>3. CASE CopyBackup
      <4>1. backup'[run] = config
        BY <1>2, <3>3 DEF CopyBackup, BackupOf, RunIsCounted, ConfigTypeOK
      <4> QED
        BY <2>1, <2>3, <3>3, <4>1 DEF CopyBackup, GoTo, BackedUp, InPlace,
           Holds
    <3>4. ~OpenFile /\ ~FillFile
      BY <2>3 DEF InPlace, OpenFile, FillFile
    <3> QED
      BY <1>4, <3>1, <3>2, <3>3, <3>4 DEF ConfigNext
  <2>4. CASE BackedUp
    <3>1. CASE OpenFile
      <4>1. task # 3 => /\ draft'.kind = config.kind
                        /\ draft'.edition = config.edition
        BY <3>1 DEF OpenFile, ConfigTypeOK, Config
      <4> QED
        BY <2>1, <2>4, <3>1, <4>1 DEF OpenFile, GoTo, BackedUp, Holds
    <3>2. CASE FillFile
      <4>1. CASE task = 3
        <5>1. task' = 0 /\ run' = run /\ backup' = backup
          BY <3>2, <4>1 DEF FillFile, GoTo, After
        <5>2. run \in 1 .. run
          BY <1>2, <2>4 DEF BackedUp, RunIsCounted, Invocation
        <5> QED
          BY <2>1, <2>4, <5>1, <5>2 DEF BackedUp, InOldBackup, Holds
      <4>2. CASE task # 3
        BY <2>1, <2>4, <3>2, <4>2 DEF FillFile, GoTo, BackedUp, InPlace,
           Holds
      <4> QED
        BY <4>1, <4>2
    <3>3. CASE RunDies
      <4>1. task' = 0 /\ run' = run /\ backup' = backup /\ run \in 1 .. run
        BY <1>2, <2>4, <3>3 DEF RunDies, GoTo, BackedUp, RunIsCounted,
           Invocation
      <4> QED
        BY <2>1, <2>4, <4>1 DEF BackedUp, InOldBackup, Holds
    <3>4. ~StartRun /\ ~NothingToDo /\ ~OpenBackup /\ ~CopyBackup
      BY <2>4 DEF BackedUp, StartRun, NothingToDo, OpenBackup, CopyBackup
    <3> QED
      BY <1>4, <3>1, <3>2, <3>3, <3>4 DEF ConfigNext
  <2>5. original.kind = "admin" => InOldBackup \/ InPlace \/ BackedUp
    OBVIOUS
  <2> QED
    BY <1>4, <2>2, <2>3, <2>4, <2>5
<1>5. CASE original.kind # "admin"
  <2>1. CASE \E lines \in SUBSET Line : WriteEdition(lines)
    BY <1>3, <2>1
  <2>2. CASE ~(\E lines \in SUBSET Line : WriteEdition(lines))
    BY <1>5, <2>2 DEF ConfigNext, StartRun, NothingToDo, OpenBackup,
       CopyBackup, OpenFile, FillFile, RunDies
  <2> QED
    BY <2>1, <2>2
<1> QED
  BY <1>3, <1>4, <1>5

\* What every reachable state of the configuration satisfies.
LEMMA ConfigurationIsInvariant == ConfigSpec => []ConfigInv
<1>1. ConfigInv /\ [ConfigNext]_configVars => ConfigInv'
  <2> SUFFICES ASSUME ConfigInv, [ConfigNext]_configVars PROVE ConfigInv'
    OBVIOUS
  <2>1. CASE ConfigNext
    BY <2>1, StepKeepsTypes, StepKeepsEdition DEF ConfigInv
  <2>2. CASE UNCHANGED configVars
    BY <2>2 DEF configVars, ConfigInv, ConfigTypeOK, RunIsCounted,
       InOldBackup, InPlace, BackedUp, Holds
  <2> QED
    BY <2>1, <2>2
<1> QED
  BY <1>1, InitKeepsEdition, PTL DEF ConfigSpec

\* Type correctness: the tasks of a run end.
THEOREM ConfigTypeCorrect == Spec => []ConfigTypeOK
BY ConfigurationIsInvariant, SetupMindsBoth, PTL DEF ConfigInv

\* No sequence of runs, ended or killed anywhere, loses the administrator's
\* last edition.
THEOREM LastEditionSurvives == Spec => []EditionsSurvive
<1>1. ConfigInv => EditionsSurvive
  <2> SUFFICES ASSUME ConfigInv, original.kind = "admin"
               PROVE  \E c \in Kept :
                        c.kind = "admin" /\ c.edition = original.edition
    BY DEF EditionsSurvive
  <2>1. CASE InPlace
    BY <2>1 DEF InPlace, Holds, Kept
  <2>2. CASE BackedUp
    BY <2>2 DEF BackedUp, Holds, Kept, ConfigInv, RunIsCounted
  <2>3. CASE InOldBackup
    <3>1. PICK r \in 1 .. run : Holds(backup[r])
      BY <2>3 DEF InOldBackup
    <3>2. r \in Invocation
      BY RunsAssumption DEF ConfigInv, ConfigTypeOK, Invocation
    <3> QED
      BY <3>1, <3>2 DEF Kept, Holds
  <2> QED
    BY <2>1, <2>2, <2>3 DEF ConfigInv
<1> QED
  BY <1>1, ConfigurationIsInvariant, SetupMindsBoth, PTL
=============================================================================
