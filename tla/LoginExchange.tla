--------------------------- MODULE LoginExchange ---------------------------
(***************************************************************************)
(* What the greeter promises of a login, whatever the threads, channels    *)
(* and greetd do in between: one request at a time is submitted, greetd's  *)
(* questions about it are answered, and the session that starts is the one *)
(* that was submitted, once its account has been authenticated.  A login   *)
(* that fails leaves nothing behind; one that started ends the greeter.    *)
(***************************************************************************)
CONSTANTS Request, NoRequest

VARIABLES
  stage,  \* how far the login has come
  req     \* what it is for

login == <<stage, req>>

Init == stage = "idle" /\ req = NoRequest

Submit == stage = "idle" /\ stage' = "submitted" /\ req' \in Request

Move(from, to) == stage = from /\ stage' = to /\ req' = req

Open   == Move("submitted", "negotiating")
Ask    == Move("negotiating", "asking")
Answer == Move("asking", "negotiating")
Pass   == Move("negotiating", "authenticated")
Start  == Move("authenticated", "starting")
Finish == Move("starting", "started")

\* Failures either need greetd's slot to be cancelled first or do not.
Reject == \/ Move("negotiating", "closing")
          \/ Move("starting", "closing")

Abandon ==
  /\ stage \in {"submitted", "negotiating", "authenticated", "starting",
                "closing"}
  /\ stage' = "idle"
  /\ req' = NoRequest

Next == \/ Submit \/ Open \/ Ask \/ Answer \/ Pass \/ Start \/ Finish
        \/ Reject \/ Abandon

Spec == Init /\ [][Next]_login
=============================================================================
