----------------------------- MODULE FreshReads -----------------------------
(***************************************************************************)
(* What GET /tags promises, whatever is cached: a response shows the tags  *)
(* as they were at some time not before the last change that the server    *)
(* had confirmed to anybody when the request began.  A client that has     *)
(* been told "tag created" and then fetches the tree finds the tag in it.  *)
(***************************************************************************)
EXTENDS Integers

CONSTANTS Reader, MaxVersion

VARIABLES version,    \* number of committed changes of the user's tags
          confirmed,  \* changes up to this one have been confirmed to clients
          phase,      \* of each reader: "idle" or "open"
          since,      \* the value of confirmed when its open request began
          answer      \* the version shown by its last response

vars == <<version, confirmed, phase, since, answer>>

Init ==
  /\ version = 0
  /\ confirmed = 0
  /\ phase = [r \in Reader |-> "idle"]
  /\ since = [r \in Reader |-> 0]
  /\ answer = [r \in Reader |-> 0]

Change ==
  /\ version < MaxVersion
  /\ version' = version + 1
  /\ UNCHANGED <<confirmed, phase, since, answer>>

Confirm ==
  /\ confirmed' \in confirmed..version
  /\ UNCHANGED <<version, phase, since, answer>>

Begin(r) ==
  /\ phase[r] = "idle"
  /\ phase' = [phase EXCEPT ![r] = "open"]
  /\ since' = [since EXCEPT ![r] = confirmed]
  /\ UNCHANGED <<version, confirmed, answer>>

Answer(r) ==
  /\ phase[r] = "open"
  /\ phase' = [phase EXCEPT ![r] = "idle"]
  /\ \E v \in since[r]..version : answer' = [answer EXCEPT ![r] = v]
  /\ since' = [since EXCEPT ![r] = 0]
  /\ UNCHANGED <<version, confirmed>>

\* A request fails.
Fail(r) ==
  /\ phase[r] = "open"
  /\ phase' = [phase EXCEPT ![r] = "idle"]
  /\ since' = [since EXCEPT ![r] = 0]
  /\ UNCHANGED <<version, confirmed, answer>>

\* The server starts anew: nobody waits for an answer any more.
Restart ==
  /\ phase' = [r \in Reader |-> "idle"]
  /\ since' = [r \in Reader |-> 0]
  /\ confirmed' \in confirmed..version
  /\ UNCHANGED <<version, answer>>

Next ==
  \/ Change \/ Confirm \/ Restart
  \/ \E r \in Reader : Begin(r) \/ Answer(r) \/ Fail(r)

Spec == Init /\ [][Next]_vars
=============================================================================
