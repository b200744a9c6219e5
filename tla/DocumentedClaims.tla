-------------------------- MODULE DocumentedClaims --------------------------
(***************************************************************************)
(* What the repository's comments say of the form and its code does not    *)
(* keep; a run finds it violated, and README.md tells the counterexample.  *)
(***************************************************************************)
EXTENDS Greeter

\* login.rs, Focus::Password is the "Password/PAM response field": a letter
\* typed while it has the focus can become part of the response.
LettersReachPassword ==
  \A c \in Keys \cap {"j", "k", "h", "l", "x"} :
    (FormTakes(c) /\ focus = "Password" /\ password < MaxPassword)
      => ENABLED EditPassword(c)
=============================================================================
