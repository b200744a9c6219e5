-------------------------- MODULE ThemeProjection --------------------------
(***************************************************************************)
(* Theme projections: the files <uid> and <uid>.accent, through which the  *)
(* greeter learns an account's theme without looking into its home.        *)
(* argvus-greeter-setup --sync-themes (packaging/greetd) publishes them    *)
(* from the accounts' own files, and the login form loads them when an     *)
(* account is selected (load_public_theme_projection in                    *)
(* crates/main/src/ui/login.rs).  Scripts may overlap, and one that dies,  *)
(* by a signal or by `set -e`, is one that takes no further step.          *)
(*                                                                         *)
(* Not a word of a theme's name matters but whether it is supported, and   *)
(* of an accent whether it is six hexadecimal digits.                      *)
(***************************************************************************)
EXTENDS Naturals

CONSTANTS
  NumAccounts,  \* interactive accounts, in the order of /etc/passwd
  NumScripts,   \* runs of the script, each with a process id of its own
  Themes,       \* supported themes
  Accents,      \* well-formed accents
  MaxEdits,     \* bound: changes users make to their own files
  SetupFaults   \* "write": the temporary file cannot be written

ASSUME AccountAssumption == NumAccounts \in Nat \ {0} /\ NumScripts \in Nat
ASSUME EditsAssumption == MaxEdits \in Nat

Account == 1 .. NumAccounts
Script == 1 .. NumScripts
Kind == {"theme", "accent"}
Files == Account \X Kind

\* Contents of a projection file; "default" is what the form makes of none.
Value == Themes \cup Accents
ASSUME ValueAssumption ==
  Value \cap {"default", "absent", "empty", "none", "unsupported"} = {}

\* An active theme may be missing or not supported; an accent that is no
\* colour is as good as missing.
VARIABLES
  source,    \* source[a][k]: what the account's own file says
  file,      \* file[a][k]: the file of that name, and whose it is
  temp,      \* temp[p]: the script's file <target>.tmp.<pid>
  script,    \* script[p]: stage of the run, account, kind and value at hand
  load,      \* the form's load: stage, account (theme_user_uid), results
  edits,     \* changes so far
  \* History:
  register,  \* register[a][k]: the value last published, or "default"
  seen,      \* seen[k]: values the register had since the load began
  excused    \* excused[p]: the files run p need not have got right

themeVars == <<source, file, temp, script, load, edits, register, seen, excused>>

Source == [theme : Themes \cup {"none", "unsupported"},
           accent : Accents \cup {"none"}]

File == [content : Value \cup {"absent", "empty"}, owned : BOOLEAN]
NoFile == [content |-> "absent", owned |-> FALSE]

Publishing == {"create", "fill", "own", "rename"}
Running == {"theme", "accent"} \cup Publishing

ThemesTypeOK ==
  /\ source \in [Account -> Source]
  /\ file \in [Account -> [Kind -> File]]
  /\ temp \in [Script -> File]
  /\ script \in [Script -> [stage : Running \cup {"off", "done"},
                            account : Account, kind : Kind,
                            value : Value \cup {"default"}]]
  /\ load \in [stage : {"idle", "statTheme", "readTheme", "statAccent",
                        "readAccent"},
               account : Account, theme : Value \cup {"default", "empty"},
               accent : Value \cup {"default", "empty"}]
  /\ edits \in 0 .. MaxEdits
  /\ register \in [Account -> [Kind -> Value \cup {"default"}]]
  /\ seen \in [Kind -> SUBSET (Value \cup {"default"})]
  /\ excused \in [Script -> SUBSET Files]

ThemesInit ==
  /\ \E s \in Source : source = [a \in Account |-> s]
  /\ file = [a \in Account |-> [k \in Kind |-> NoFile]]
  /\ temp = [p \in Script |-> NoFile]
  /\ script = [p \in Script |-> [stage |-> "off", account |-> 1,
                                 kind |-> "theme", value |-> "default"]]
  /\ load = [stage |-> "statTheme", account |-> 1,
             theme |-> "default", accent |-> "default"]
  /\ edits = 0
  /\ register = [a \in Account |-> [k \in Kind |-> "default"]]
  /\ seen = [k \in Kind |-> {"default"}]
  /\ excused = [p \in Script |-> {}]

-----------------------------------------------------------------------------
(* What a run is not to blame for                                          *)

\* The run is through with this file, or has it at hand to be published.
HasRead(p, a, k) ==
  \/ script[p].stage = "done"
  \/ a < script[p].account
  \/ /\ a = script[p].account
     /\ \/ k = "theme" /\ script[p].kind = "accent"
        \/ k = script[p].kind /\ script[p].stage \in Publishing

\* What the file says changes, or something older is published for it: the
\* runs that have read it are excused, those that will read it are not.
Disturb(a, k) ==
  excused' = [p \in Script |-> IF HasRead(p, a, k)
                               THEN excused[p] \cup {<<a, k>>} ELSE excused[p]]

-----------------------------------------------------------------------------
(* The script                                                              *)

\* The register takes a value; a load of that account may see it from now on.
Publish(a, k, v) ==
  /\ register' = [register EXCEPT ![a][k] = v]
  /\ seen' = IF load.account = a /\ load.stage # "idle"
             THEN [seen EXCEPT ![k] = @ \cup {v}] ELSE seen

Keep == UNCHANGED <<register, seen, excused>>

Goes(p, stage) == script' = [script EXCEPT ![p].stage = stage]

\* Mutant: the loop takes one account too many.
GoesOnTooFar(p) ==
  LET a == script[p].account
      At(stage, b, k) == [stage |-> stage, account |-> b, kind |-> k,
                          value |-> "default"]
  IN script' = [script EXCEPT ![p] =
       IF script[p].kind = "theme" THEN At("accent", a, "accent")
       ELSE IF a <= NumAccounts THEN At("theme", a + 1, "theme")
       ELSE At("done", 1, "theme")]

\* The loop of sync_themes: after the theme the accent, then the next account.
GoesOn(p) ==
  LET a == script[p].account
      At(stage, b, k) == [stage |-> stage, account |-> b, kind |-> k,
                          value |-> "default"]
  IN script' = [script EXCEPT ![p] =
       IF script[p].kind = "theme" THEN At("accent", a, "accent")
       ELSE IF a < NumAccounts THEN At("theme", a + 1, "theme")
       ELSE At("done", 1, "theme")]

\* Runs are numbered in the order they begin.
Begin(p) ==
  /\ script[p].stage = "off" /\ \A q \in 1 .. p - 1 : script[q].stage # "off"
  /\ Goes(p, "theme")
  /\ Keep
  /\ UNCHANGED <<source, file, temp, load, edits>>

\* publish_*_for_user up to the temporary file.
Chooses(p, k) ==
  /\ script[p].stage = k
  /\ LET v == source[script[p].account][k] IN
       /\ v \in Value
       /\ script' = [script EXCEPT ![p].stage = "create", ![p].value = v]
  /\ Keep
  /\ UNCHANGED <<source, file, temp, load, edits>>

\* No active theme, no accent or a malformed one: the projection is removed.
Withdraws(p, k) ==
  /\ script[p].stage = k
  /\ source[script[p].account][k] = "none"
  /\ file' = [file EXCEPT ![script[p].account][k] = NoFile]
  /\ Publish(script[p].account, k, "default")
  /\ UNCHANGED excused
  /\ GoesOn(p)
  /\ UNCHANGED <<source, temp, load, edits>>

\* is_supported_theme || return 0: the projection stays as it is.
Declines(p) ==
  /\ script[p].stage = "theme"
  /\ source[script[p].account].theme = "unsupported"
  /\ GoesOn(p)
  /\ Keep
  /\ UNCHANGED <<source, file, temp, load, edits>>

Create(p) ==
  /\ script[p].stage = "create"
  /\ temp' = [temp EXCEPT ![p] = [content |-> "empty", owned |-> FALSE]]
  /\ Goes(p, "fill")
  /\ Keep
  /\ UNCHANGED <<source, file, load, edits>>

Fill(p) ==
  /\ script[p].stage = "fill"
  /\ temp' = [temp EXCEPT ![p].content = script[p].value]
  /\ Goes(p, "own")
  /\ Keep
  /\ UNCHANGED <<source, file, load, edits>>

\* The run still owes its other files.
Excuse(p) ==
  excused' =
    [excused EXCEPT ![p] = @ \cup {<<script[p].account, script[p].kind>>}]

\* Mutant: the temporary file of a failed write stays.
WriteFailsLittering(p) ==
  /\ "write" \in SetupFaults
  /\ script[p].stage \in {"create", "fill"}
  /\ GoesOn(p)
  /\ Excuse(p)
  /\ UNCHANGED <<source, file, temp, load, edits, register, seen>>

\* Mutant: the failed write ends the run, as `set -e` would.
WriteFailsForAll(p) ==
  /\ "write" \in SetupFaults
  /\ script[p].stage \in {"create", "fill"}
  /\ temp' = [temp EXCEPT ![p] = NoFile]
  /\ Goes(p, "done")
  /\ Excuse(p)
  /\ UNCHANGED <<source, file, load, edits, register, seen>>

\* The write fails: the temporary file goes, the account keeps what it had.
WriteFails(p) ==
  /\ "write" \in SetupFaults
  /\ script[p].stage \in {"create", "fill"}
  /\ temp' = [temp EXCEPT ![p] = NoFile]
  /\ GoesOn(p)
  /\ Excuse(p)
  /\ UNCHANGED <<source, file, load, edits, register, seen>>

Own(p) ==
  /\ script[p].stage = "own"
  /\ temp' = [temp EXCEPT ![p].owned = TRUE]
  /\ Goes(p, "rename")
  /\ Keep
  /\ UNCHANGED <<source, file, load, edits>>

Rename(p) ==
  /\ script[p].stage = "rename"
  /\ file' = [file EXCEPT ![script[p].account][script[p].kind] = temp[p]]
  /\ temp' = [temp EXCEPT ![p] = NoFile]
  /\ Publish(script[p].account, script[p].kind, script[p].value)
  /\ IF <<script[p].account, script[p].kind>> \in excused[p]
     THEN Disturb(script[p].account, script[p].kind)
     ELSE UNCHANGED excused
  /\ GoesOn(p)
  /\ UNCHANGED <<source, load, edits>>

SetupScript(p) ==
  \/ Begin(p) \/ Declines(p)
  \/ \E k \in Kind : Chooses(p, k) \/ Withdraws(p, k)
  \/ Create(p) \/ Fill(p) \/ WriteFails(p) \/ Own(p) \/ Rename(p)

-----------------------------------------------------------------------------
(* The form: refresh_theme and load_public_theme_projection                *)

\* Another account is selected; the current one is never read again.
Select(a) ==
  /\ load.stage = "idle"
  /\ a # load.account
  /\ load' = [stage |-> "statTheme", account |-> a,
              theme |-> "default", accent |-> "default"]
  /\ seen' = [k \in Kind |-> {register[a][k]}]
  /\ UNCHANGED <<source, file, temp, script, edits, register, excused>>

\* The file the form looks at for a kind.
Projected(k) == file[load.account][k]

\* symlink_metadata: a file that is missing or somebody else's counts as none.
Stat(k, at, yes, no) ==
  /\ load.stage = at
  /\ load' = IF Projected(k).owned
             THEN [load EXCEPT !.stage = yes]
             ELSE [load EXCEPT !.stage = no, ![k] = "default"]
  /\ UNCHANGED <<source, file, temp, script, edits, register, seen, excused>>

\* Mutant: a file that went away in between reads as an empty one.
ContentOrEmpty(k) ==
  IF Projected(k).content = "absent" THEN "empty" ELSE Projected(k).content

\* read_to_string(...).ok(): it may have gone since, or be another by now.
Content(k) ==
  IF Projected(k).content = "absent" THEN "default" ELSE Projected(k).content

Read(k, at, next) ==
  /\ load.stage = at
  /\ load' = [load EXCEPT !.stage = next, ![k] = Content(k)]
  /\ UNCHANGED <<source, file, temp, script, edits, register, seen, excused>>

Load ==
  \/ Stat("theme", "statTheme", "readTheme", "statAccent")
  \/ Read("theme", "readTheme", "statAccent")
  \/ Stat("accent", "statAccent", "readAccent", "idle")
  \/ Read("accent", "readAccent", "idle")

\* Users change, or remove, their own files at any time.
Edit(a, k) ==
  /\ edits < MaxEdits
  /\ edits' = edits + 1
  /\ \E s \in Source : source' = [source EXCEPT ![a][k] = s[k]]
  /\ Disturb(a, k)
  /\ UNCHANGED <<file, temp, script, load, register, seen>>

ThemesNext ==
  \/ \E p \in Script : SetupScript(p)
  \/ \E a \in Account : Select(a)
  \/ Load
  \/ \E a \in Account, k \in Kind : Edit(a, k)

ThemesSpec == ThemesInit /\ [][ThemesNext]_themeVars

-----------------------------------------------------------------------------

\* The two files are registers for the form: each part of the theme it loads
\* was the published one at some moment during the load.  It never sees half
\* a file, nor the default where a theme was only being replaced, although it
\* looks at the owner and reads in two steps and scripts overlap and die in
\* between.  (docs/en/index.md "an atomic, UID-owned projection")
LoadIsRegular ==
  /\ load.stage \in {"statAccent", "readAccent", "idle"}
       => load.theme \in seen["theme"]
  /\ load.stage = "idle" => load.accent \in seen["accent"]

\* What the account's file asks for is what is published.  An unsupported
\* theme asks for nothing: the script leaves what is there.
AsAsked(a, k) ==
  /\ source[a][k] \in Value => register[a][k] = source[a][k]
  /\ source[a][k] = "none" => register[a][k] = "default"

\* A run that has ended has published every file as the account asks, and no
\* overlapping or dead run has undone it, unless the user changed that very
\* file after the run had read it, a run from before such a change published
\* it since, or its write failed.  A change or a failed write costs no other
\* account, and not even the account's other file.  (sync_themes)
FinishedSyncIsAccurate ==
  \A p \in Script :
    script[p].stage = "done" =>
      \A a \in Account, k \in Kind :
        <<a, k>> \notin excused[p] => AsAsked(a, k)

\* Only a run that was killed leaves a temporary file in the public directory.
FinishedSyncLeavesNoTemp ==
  \A p \in Script :
    script[p].stage \in {"off", "theme", "accent", "done"} => temp[p] = NoFile
=============================================================================
