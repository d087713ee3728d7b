---- MODULE ProviderCredentials ----
(***************************************************************************)
(* The session with the provider of recognitions                           *)
(* (backend/equipment/chatgpt_auth.py).  Requests of the API, in threads   *)
(* and processes, take an access token from one file, and when it is about *)
(* to expire exchange the refresh token; people log in and out on the same *)
(* host.  session.lock serialises them: a process that finds it gives up,  *)
(* threads of one process wait for each other.  At an exchange the         *)
(* provider may replace the refresh token; it accepts the last one only.   *)
(* Refresh tokens are numbered in the order it issues them.                *)
(*                                                                         *)
(* A login that finds a session goes on with its client and subject;       *)
(* scopes and claims are one verdict.                                      *)
(***************************************************************************)
EXTENDS Naturals

CONSTANTS Programs,   \* requests of the API, and logins and logouts by hand
          Free,       \* the lock when nobody has it
          MaxTokens,  \* bound: refresh tokens
          MaxKills    \* bound: how often programs are killed

FreeAssumption == Free \notin Programs
BoundAssumption == MaxTokens \in Nat /\ MaxKills \in Nat

VARIABLES
    file,     \* the refresh token of credentials.dat, 0 for none
    near,     \* its access token expires within a minute
    accepted, \* the refresh token the provider accepts, 0 for none
    issued,   \* how many it has issued
    lock,     \* who made session.lock
    at,       \* what each program does
    new,      \* what it was issued
    kills,
    lost      \* an answer or a verdict did not arrive, or somebody was killed

provider == <<accepted, issued>>
vars == <<file, near, provider, lock, at, new, kills, lost>>

Holding == {"read", "exchange", "check", "save", "browser", "grant", "login", "revoke", "remove", "unlock"}

\* Type correctness; whoever is at work made the lock.
TypeOK ==
    /\ file \in 0..issued /\ near \in BOOLEAN
    /\ accepted \in 0..issued /\ issued \in 0..MaxTokens
    /\ lock \in Programs \cup {Free}
    /\ at \in [Programs -> Holding \cup {"idle"}]
    /\ \A p \in Programs : at[p] # "idle" => lock = p
    /\ new \in [Programs -> 0..issued]
    /\ kills \in 0..MaxKills /\ lost \in BOOLEAN

Init ==
    /\ file = 0 /\ near = FALSE /\ accepted = 0 /\ issued = 0
    /\ lock = Free
    /\ at = [p \in Programs |-> "idle"] /\ new = [p \in Programs |-> 0]
    /\ kills = 0 /\ lost = FALSE

Goes(p, to) == at' = [at EXCEPT ![p] = to]

\* Mutant: the file is made whether it exists or not.
MakesAnyway == TRUE

MakesLock == lock = Free

\* What a program may begin with: a token, a login or a logout.
Begin(p, to) ==
    /\ at[p] = "idle" /\ to \in {"read", "browser", "revoke"} /\ MakesLock
    /\ lock' = p /\ Goes(p, to)
    /\ UNCHANGED <<file, near, provider, new, kills, lost>>

(***************************************************************************)
(* access_token                                                            *)
(***************************************************************************)
\* No credentials, or a token good for another minute: it is returned.
Read(p) ==
    /\ at[p] = "read"
    /\ Goes(p, IF file # 0 /\ near THEN "exchange" ELSE "unlock")
    /\ UNCHANGED <<file, near, provider, lock, new, kills, lost>>

Issue(p) ==
    /\ issued < MaxTokens
    /\ issued' = issued + 1 /\ accepted' = issued' /\ new' = [new EXCEPT ![p] = issued']

Keeps(p) == new' = [new EXCEPT ![p] = file] /\ UNCHANGED provider

\* The provider accepts the token, and its answer arrives or does not.
Exchange(p) ==
    /\ at[p] = "exchange" /\ file = accepted
    /\ Issue(p) \/ Keeps(p)
    /\ \/ Goes(p, "check") /\ UNCHANGED lost
       \/ Goes(p, "unlock") /\ lost' = TRUE
    /\ UNCHANGED <<file, near, lock, kills>>

\* It refuses an older token, or was not reached.
ExchangeFails(p) ==
    /\ at[p] = "exchange"
    /\ Goes(p, "unlock")
    /\ UNCHANGED <<file, near, provider, lock, new, kills, lost>>

\* The identity is checked, with keys fetched from the provider.
Check(p) ==
    /\ at[p] = "check"
    /\ \/ Goes(p, "save") /\ UNCHANGED lost
       \/ Goes(p, "unlock") /\ lost' = TRUE
    /\ UNCHANGED <<file, near, provider, lock, new, kills>>

Save(p) ==
    /\ at[p] = "save"
    /\ file' = new[p] /\ near' = FALSE
    /\ Goes(p, "unlock")
    /\ UNCHANGED <<provider, lock, new, kills, lost>>

(***************************************************************************)
(* login                                                                   *)
(***************************************************************************)
\* The person consents in the browser within five minutes, or does not.
Browser(p) ==
    /\ at[p] = "browser"
    /\ Goes(p, "grant") \/ Goes(p, "unlock")
    /\ UNCHANGED <<file, near, provider, lock, new, kills, lost>>

Grant(p) ==
    /\ at[p] = "grant" /\ Issue(p)
    /\ \/ Goes(p, "login") /\ UNCHANGED lost
       \/ Goes(p, "unlock") /\ lost' = TRUE
    /\ UNCHANGED <<file, near, lock, kills>>

GrantFails(p) ==
    /\ at[p] = "grant"
    /\ Goes(p, "unlock")
    /\ UNCHANGED <<file, near, provider, lock, new, kills, lost>>

\* The identity fits, or the tokens are thrown away.
Login(p) ==
    /\ at[p] = "login"
    /\ \/ file' = new[p] /\ near' = FALSE /\ lost' = FALSE
       \/ lost' = TRUE /\ UNCHANGED <<file, near>>
    /\ Goes(p, "unlock")
    /\ UNCHANGED <<provider, lock, new, kills>>

(***************************************************************************)
(* logout.  The credentials go whether the provider confirms or not.       *)
(***************************************************************************)
Revoke(p) ==
    /\ at[p] = "revoke"
    /\ \/ file # 0 /\ Goes(p, "remove") /\ accepted' \in {0, accepted}
       \/ file = 0 /\ Goes(p, "unlock") /\ UNCHANGED accepted
    /\ UNCHANGED <<file, near, issued, lock, new, kills, lost>>

Remove(p) ==
    /\ at[p] = "remove"
    /\ file' = 0 /\ near' = FALSE
    /\ Goes(p, "unlock")
    /\ UNCHANGED <<provider, lock, new, kills, lost>>

Unlocks(p) == TRUE

Unlock(p) ==
    /\ at[p] = "unlock"
    /\ lock' = IF Unlocks(p) THEN Free ELSE lock
    /\ Goes(p, "idle") /\ new' = [new EXCEPT ![p] = 0]
    /\ UNCHANGED <<file, near, provider, kills, lost>>

(***************************************************************************)
(* Time, kills, and the lock that people remove when no program is left.   *)
(***************************************************************************)
Expire ==
    /\ file # 0 /\ ~ near /\ near' = TRUE
    /\ UNCHANGED <<file, provider, lock, at, new, kills, lost>>

Kill(p) ==
    /\ at[p] # "idle" /\ kills < MaxKills
    /\ kills' = kills + 1
    /\ lost' = (lost \/ at[p] \in {"check", "save", "login", "remove"})
    /\ Goes(p, "idle") /\ new' = [new EXCEPT ![p] = 0]
    /\ UNCHANGED <<file, near, provider, lock>>

RemoveLock ==
    /\ lock # Free /\ \A p \in Programs : at[p] = "idle"
    /\ lock' = Free
    /\ UNCHANGED <<file, near, provider, at, new, kills, lost>>

Token(p) == Read(p) \/ Exchange(p) \/ ExchangeFails(p) \/ Check(p) \/ Save(p)
ByHand(p) == Browser(p) \/ Grant(p) \/ GrantFails(p) \/ Login(p) \/ Revoke(p) \/ Remove(p)
Work(p) == Token(p) \/ ByHand(p) \/ Unlock(p)

Next ==
    \/ \E p \in Programs : Work(p) \/ Kill(p) \/ \E to \in {"read", "browser", "revoke"} : Begin(p, to)
    \/ Expire \/ RemoveLock

Spec == Init /\ [][Next]_vars

(***************************************************************************)
(* Properties.                                                             *)
(***************************************************************************)
\* However many programs ask at a time, the file holds the token the provider accepts,
\* until an answer is lost, a verdict fails or a program is killed on the way to the file.
SessionIsKept == lock = Free /\ file # 0 /\ ~ lost => file = accepted

\* Once logged out the host has no session until somebody logs in: no request that
\* was exchanging tokens meanwhile brings one back.
SessionsComeByLogin ==
    file = 0 /\ file' # 0 => \E p \in Programs : at[p] = "login" /\ file' = new[p]

\* The invariant: the part above, and every variable has its type.
SessionHolds == TypeOK /\ SessionIsKept
====
