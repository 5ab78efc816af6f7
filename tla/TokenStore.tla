----------------------------- MODULE TokenStore -----------------------------
(***************************************************************************)
(* sempkg_registry.auth and the ways to it: tokens.json is read, changed   *)
(* and rewritten as a whole, by POST /admin/tokens on the server's event   *)
(* loop, by DELETE /admin/tokens/{token} on a thread of its pool, and by   *)
(* the token commands of the CLI in processes of their own.                *)
(*                                                                         *)
(* An entry is a digest with a label and a date: all entries have the same *)
(* length, so the length of a file is counted in entries.                  *)
(***************************************************************************)
EXTENDS Integers, FiniteSets

CONSTANTS
  Tokens,     \* what secrets.token_urlsafe returns, each once
  Admins,     \* concurrent administrators' requests and commands
  Routes,     \* the routes they take, a subset of {"server", "cli"}
  Ops,        \* what they ask for, a subset of {"add", "revoke"}
  NoOne,      \* no coroutine occupies the event loop
  MaxFaults   \* bound: failed writes and killed processes

ASSUME RoutesExist == Routes \subseteq {"server", "cli"}
ASSUME OpsExist == Ops \subseteq {"add", "revoke"}
ASSUME NoOneIsNoAdmin == NoOne \notin Admins
ASSUME TokensFinite == IsFiniteSet(Tokens)
ASSUME FaultsBounded == MaxFaults \in Nat

VARIABLES
  up,       \* is the server running?
  loop,     \* the coroutine that runs on the event loop without awaiting
  tokens,   \* tokens.json: the entries at its head, and its length
  adm,      \* the progress of each administrator
  minted,   \* tokens that have been generated
  granted,  \* tokens whose creation has been answered with success
  revoked,  \* tokens whose revocation has been answered with success
  crossed,  \* (history) has a writer overtaken another one?
  faults

tokenVars == <<tokens, adm, minted, granted, revoked, crossed>>

\* What the administrators have been told so far.
Told == [granted |-> granted, revoked |-> revoked]

Truncated == [set |-> {}, length |-> 0]
Idle == [pc |-> "idle"]

TokenInit ==
  /\ up = TRUE /\ loop = NoOne /\ faults = 0
  /\ tokens = [set |-> {}, length |-> 1]
  /\ adm = [a \in Admins |-> Idle]
  /\ minted = {} /\ granted = {} /\ revoked = {} /\ crossed = FALSE

\* Does json.load accept the file?  {} counts as one, and nothing may follow
\* the closing brace.
Readable == tokens.length = 1 + Cardinality(tokens.set)

\* Mutant of Loads: an empty file counts as one without entries.
LoadsEmpty == Readable \/ tokens.length = 0

\* _load raises on a file that json.load does not accept.
Loads == Readable

\* is_valid
IsValid(t) == Loads /\ t \in tokens.set

\* What a write over whatever is there leaves: the tail of a longer file stays.
LongestOf(m, n) == IF m >= n THEN m ELSE n
Over(S) == [set |-> S, length |-> LongestOf(tokens.length, 1 + Cardinality(S))]

\* The coroutine create_token keeps the loop to itself after its last await;
\* revoke_token runs on a thread of the pool.
Coroutine(a) == adm[a].route = "server" /\ adm[a].op = "add"
LoopAfter(a) == IF Coroutine(a) THEN NoOne ELSE loop

CanCreate(route) == route = "server" => up /\ loop = NoOne

With(t) == tokens.set \cup {t}

\* add_token up to _load; an unreadable file ends it with an exception.
LoadToAdd(a, route, t) ==
  /\ adm[a].pc = "idle" /\ "add" \in Ops /\ CanCreate(route)
  /\ t \notin minted /\ Loads
  /\ loop' = IF route = "server" THEN a ELSE loop
  /\ minted' = minted \cup {t}
  /\ adm' = [adm EXCEPT ![a] = [pc |-> "loaded", op |-> "add", route |-> route,
                                token |-> t, data |-> With(t), read |-> Told]]
  /\ UNCHANGED <<up, tokens, granted, revoked, crossed, faults>>

\* revoke_token up to the test that the token exists
LoadToRevoke(a, route, t) ==
  /\ adm[a].pc = "idle" /\ "revoke" \in Ops /\ (route = "server" => up)
  /\ IsValid(t)
  /\ adm' = [adm EXCEPT ![a] = [pc |-> "loaded", op |-> "revoke", route |-> route,
                                token |-> t, data |-> tokens.set \ {t}, read |-> Told]]
  /\ UNCHANGED <<up, loop, tokens, minted, granted, revoked, crossed, faults>>

\* The administrator is about to write over what another one has written since
\* the file was read, or is writing.
Overtakes(a) ==
  adm[a].read # Told \/ \E b \in Admins \ {a} : adm[b].pc = "opened"

\* _save: open(..., "w") truncates the file ...
OpenToSave(a) ==
  /\ adm[a].pc = "loaded"
  /\ tokens' = Truncated
  /\ crossed' = (crossed \/ Overtakes(a))
  /\ adm' = [adm EXCEPT ![a].pc = "opened"]
  /\ UNCHANGED <<up, loop, minted, granted, revoked, faults>>

\* ... and closing it writes what json.dump left in the buffer.  The answer,
\* which changes no file, is part of the step.
Save(a) ==
  /\ adm[a].pc = "opened"
  /\ tokens' = Over(adm[a].data)
  /\ IF adm[a].op = "add"
       THEN granted' = granted \cup {adm[a].token} /\ UNCHANGED revoked
       ELSE revoked' = revoked \cup {adm[a].token} /\ UNCHANGED granted
  /\ loop' = LoopAfter(a)
  /\ adm' = [adm EXCEPT ![a] = Idle]
  /\ UNCHANGED <<up, minted, crossed, faults>>

\* An OSError in a request, or a command that is killed.
AdminFault(a) ==
  /\ adm[a].pc # "idle"
  /\ faults < MaxFaults /\ faults' = faults + 1
  /\ loop' = LoopAfter(a)
  /\ adm' = [adm EXCEPT ![a] = Idle]
  /\ UNCHANGED <<up, tokens, minted, granted, revoked, crossed>>

TokenNext ==
  \E a \in Admins :
    \/ \E route \in Routes, t \in Tokens :
         LoadToAdd(a, route, t) \/ LoadToRevoke(a, route, t)
    \/ OpenToSave(a) \/ Save(a) \/ AdminFault(a)

\* The administrators that die with the server.
ServedAdmins == {a \in Admins : adm[a].pc # "idle" /\ adm[a].route = "server"}
-----------------------------------------------------------------------------
Progress ==
  [pc : {"idle"}] \cup
  [pc : {"loaded", "opened"}, op : {"add", "revoke"}, route : Routes,
   token : Tokens, data : SUBSET Tokens,
   read : [granted : SUBSET Tokens, revoked : SUBSET Tokens]]

TokenTypeOK ==
  /\ up \in BOOLEAN /\ faults \in 0..MaxFaults
  /\ tokens \in [set : SUBSET Tokens, length : Nat]
  /\ adm \in [Admins -> Progress]
  /\ minted \subseteq Tokens /\ granted \subseteq Tokens /\ revoked \subseteq Tokens
  /\ crossed \in BOOLEAN

SaysAsTold(S) == granted \ revoked \subseteq S /\ S \cap revoked = {}

\* tokens.json says what the administrators were told (add_token and
\* revoke_token, auth.py:80-99) unless a writer has overtaken another: however
\* requests, threads and commands alternate, whatever was truncated or abandoned
\* on the way, a file that can be read holds every token whose creation was
\* reported and whose revocation was not, and none whose revocation was reported.
TokensAsTold == ~crossed /\ Readable => SaysAsTold(tokens.set)

\* The same whoever overtakes whom: "The SHA-256 hash is stored" (auth.py:82) of
\* what add_token returned, and what revoke_token removed (auth.py:92) is gone.
TokensStayAsTold == Readable => SaysAsTold(tokens.set)
=============================================================================
