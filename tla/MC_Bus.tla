------------------------------- MODULE MC_Bus -------------------------------
(* The connections of the server: the one to the bus, and those of the users
   who log in.  Each is explored for itself: `part` names the one that runs,
   the other stays as it starts. *)
EXTENDS BusConnection

VARIABLES
  part,
  authEnv, override, enabled, accounts, token, sessions, failures, now, issued, cookie, view, asks

(* Two browsers, one of which may be Home Assistant's ingress. *)
AuthEnv(i, k, o, h) == [ingress |-> i, keys |-> k, override |-> o, habits |-> h]
AuthEnvs ==
  {AuthEnv({}, {}, "on", {}), AuthEnv({}, {}, "unset", {"restarts"}), AuthEnv({"b"}, {}, "on", {}),
   AuthEnv({}, {}, "unset", {"guesses"}), AuthEnv({}, {}, "unset", {"tokens", "resets"}),
   AuthEnv({"b"}, {"mcp"}, "unset", {"tokens"})}
Login == INSTANCE Auth WITH
  Users <- {"u", "w"}, Passwords <- {"p"}, Browsers <- {"a", "b"}, MaxIssued <- 2, MaxFailures <- 2, Window <- 1,
  Lockout <- 1, MaxTime <- 3, Envs <- AuthEnvs

(* This instance is among those the theorems of BusConnectionProofs speak of. *)
ASSUME SizedAssumption == Login!Sized

authVars == <<authEnv, override, enabled, accounts, token, sessions, failures, now, issued, cookie, view, asks>>
unionVars == <<part, vars, authVars>>
Starting(of, choice, envs) == part # of => choice = CHOOSE e \in envs : TRUE

MCInit ==
  /\ part \in {"bus", "login"}
  /\ Init /\ Login!Init
  /\ Starting("bus", env, Envs) /\ Starting("login", authEnv, AuthEnvs)

MCNext ==
  /\ UNCHANGED part
  /\ \/ part = "bus" /\ Next /\ UNCHANGED authVars
     \/ part = "login" /\ Login!Next /\ UNCHANGED vars

MCSpec == MCInit /\ [][MCNext]_unionVars
-----------------------------------------------------------------------------
(* Under the fairness of the event loop, an outage is told once, new keys are
   used and a shutdown ends (knx_daemon.py). *)
ConnectionKeeps ==
  /\ OutageToldOnce
  /\ part = "bus" /\ Fairness => KeysReach
  /\ part = "bus" /\ Fairness => ShutdownEnds

(* The login: see Auth (auth.py). *)
GuardHolds == part = "login" => Login!GuardHolds

(* Accounts change only by those who are in, and who signed in gets to see the
   application (auth.py, useAuthStatus.ts). *)
SignInHolds ==
  /\ Login!OnlyTrustedChange
  /\ part = "login" /\ Login!Fairness => Login!SignInShows

(* The way back in after a lost password: see Auth (auth.py, AuthSettings.tsx). *)
HeldOffOffersReset == part = "login" => Login!HeldOffOffersReset
=============================================================================
