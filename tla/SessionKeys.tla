----------------------------- MODULE SessionKeys -----------------------------
(***************************************************************************)
(* What the sessions of an account promise, without Redis, commands and    *)
(* answers.  Of a session at most one refresh token works.  A refresh      *)
(* exchanges it for a new one, and a session that has come to an end, or   *)
(* that a sign-out has overtaken, never works again.                       *)
(***************************************************************************)
EXTENDS Naturals

CONSTANTS Sids, Jtis

VARIABLES
  version,  \* how often everything was signed out
  known,    \* the sessions opened so far
  issued,   \* the tokens handed out so far
  works     \* of each session, the tokens that work

keysVars == <<version, known, issued, works>>

KeysInit ==
  /\ version = 0
  /\ known = {} /\ issued = {}
  /\ works = [s \in Sids |-> {}]

Same(s) == works'[s] = works[s]
Ends(s) == works'[s] = {}

\* A new session works, unless its sign-in was overtaken; others may make way for it.
Open(s, t) ==
  /\ s \notin known /\ t \notin issued
  /\ known' = known \union {s} /\ issued' = issued \union {t}
  /\ works'[s] \in {{}, {t}}
  /\ \A z \in Sids \ {s} : Same(z) \/ Ends(z)
  /\ UNCHANGED version

\* The token that worked is spent; a refresh that was overtaken gets one that does not work.
Rotate(s, t) ==
  /\ s \in known /\ t \notin issued
  /\ issued' = issued \union {t}
  /\ works'[s] = IF works[s] = {} THEN {} ELSE {t}
  /\ \A z \in Sids \ {s} : Same(z)
  /\ UNCHANGED <<version, known>>

End ==
  /\ \A s \in Sids : Same(s) \/ Ends(s)
  /\ UNCHANGED <<version, known, issued>>

SignOut ==
  /\ version' = version + 1
  /\ \A s \in Sids : Ends(s)
  /\ UNCHANGED <<known, issued>>

KeysNext ==
  \/ \E s \in Sids, t \in Jtis : Open(s, t) \/ Rotate(s, t)
  \/ End \/ SignOut

KeysSpec == KeysInit /\ [][KeysNext]_keysVars
=============================================================================
