------------------------------ MODULE KeyBoot ------------------------------
(***************************************************************************)
(* The master key at the start of a gateway.  LoadOrCreateWithStatus reads *)
(* the key file or creates it exclusively and then writes it; a key that   *)
(* was created is accepted by main only when production allows it and no   *)
(* upstream secret is stored, and is removed otherwise.  The file is       *)
(* shared by the gateways of a deployment, which stop, crash and restart,  *)
(* and the operator may put the key in place while a start is under way;   *)
(* secrets are stored under the key that a gateway has in memory.          *)
(***************************************************************************)
EXTENDS Migrations

CONSTANTS Gateways,
          Empty,        \* a key file created and not yet written
          MaxKeys       \* bound on the keys generated or installed

ASSUME KeyBootAssumption ==
  /\ Gateways \subseteq Processes
  /\ MaxKeys \in Nat
  /\ None \notin Int /\ Empty \notin Int /\ None # Empty

Original == 0
Keys == 0..MaxKeys

VARIABLES file,     \* GATEWAY_ENCRYPTION_KEY_FILE
          mem,      \* the key a gateway runs with
          secrets,  \* the keys under which stored secrets are encrypted
          refuse,   \* production without GATEWAY_ENCRYPTION_KEY_ALLOW_GENERATE
          made,     \* keys generated or installed so far
          passed,   \* history: the keys that the operator or the guard let pass
          bypassed  \* history: a key in use did not pass the guard, or a start
                    \* has removed, overwritten or ignored the operator's key

hist == <<passed, bypassed>>
keyVars == <<file, mem, secrets, refuse, made, hist>>

\* What the key steps of a running process leave alone.
schemaVars == <<runs, recorded, lock, applied, faults>>

\* The labels of a start that has created the key file.
Owning == {"writing", "created", "rejected"}

KeyInit ==
  /\ file \in {None, Original}
  /\ secrets \in {{}, {Original}}
  /\ mem = [g \in Gateways |-> None]
  /\ refuse \in BOOLEAN
  /\ made = 0
  /\ passed = {Original} /\ bypassed = FALSE
-----------------------------------------------------------------------------
\* main returns: the process and its key are gone.
Down(g) == Refuse(g) /\ mem' = [mem EXCEPT ![g] = None]

\* Every start with a key that the guard of main has not seen is noted.
Takes(g, key) ==
  /\ mem' = [mem EXCEPT ![g] = key]
  /\ pc' = [pc EXCEPT ![g] = "snapshots"]
  /\ bypassed' = (bypassed \/ key \notin passed)
  /\ UNCHANGED <<schemaVars, file, secrets, refuse, made, passed>>

\* The process starts, or starts again, with the key it found.
Load(g) == file \in Keys /\ Takes(g, file)

\* os.ReadFile; an empty file is no key, and ends the start.
ReadFile(g) ==
  /\ pc[g] = "key"
  /\ \/ Load(g)
     \/ /\ file = None /\ Goto(g, "key", "absent")
        /\ UNCHANGED <<schemaVars, keyVars>>
     \/ /\ file = Empty /\ Down(g)
        /\ UNCHANGED <<file, secrets, refuse, made, hist>>

\* Mutant of Create: without O_EXCL.
CreateOver(g) ==
  /\ Goto(g, "absent", "writing")
  /\ made < MaxKeys
  /\ file' = Empty
  /\ UNCHANGED <<schemaVars, mem, secrets, refuse, made, hist>>

\* O_CREATE|O_EXCL
Create(g) ==
  \/ /\ file = None /\ made < MaxKeys
     /\ Goto(g, "absent", "writing")
     /\ file' = Empty
     /\ UNCHANGED <<schemaVars, mem, secrets, refuse, made, hist>>
  \/ /\ file # None
     /\ Goto(g, "absent", "exists")
     /\ UNCHANGED <<schemaVars, keyVars>>

\* A file that was created meanwhile is read; one that is empty, or was removed
\* again, ends the start.
ReadCreated(g) ==
  /\ pc[g] = "exists"
  /\ \/ Load(g)
     \/ /\ file \in {None, Empty} /\ Down(g)
        /\ UNCHANGED <<file, secrets, refuse, made, hist>>

\* The file that was created is written; when the operator put a key in its place,
\* that key is overwritten or, if the file was replaced, stays.
Write(g) ==
  /\ Goto(g, "writing", "created")
  /\ made' = made + 1
  /\ file' \in {made'} \cup (IF file = Empty THEN {} ELSE {file})
  /\ mem' = [mem EXCEPT ![g] = made']
  /\ bypassed' = (bypassed \/ (file \in passed /\ file' # file))
  /\ UNCHANGED <<schemaVars, secrets, refuse, passed>>

HasUpstreamSecrets == secrets # {}

\* Mutant of Accept: stored secrets are not looked for.
AcceptAnyway(g) ==
  /\ Goto(g, "created", IF refuse THEN "rejected" ELSE "snapshots")
  /\ passed' = IF refuse THEN passed ELSE passed \cup {mem[g]}
  /\ UNCHANGED <<schemaVars, file, mem, secrets, refuse, made, bypassed>>

\* The guard of main on a key that was created; the file is not read again.
Accept(g) ==
  /\ LET bad == refuse \/ HasUpstreamSecrets
     IN /\ Goto(g, "created", IF bad THEN "rejected" ELSE "snapshots")
        /\ passed' = IF bad THEN passed ELSE passed \cup {mem[g]}
        /\ bypassed' = (bypassed \/ (~bad /\ file # mem[g]))
  /\ UNCHANGED <<schemaVars, file, mem, secrets, refuse, made>>

\* os.Remove, whatever the file holds by now.
Removes ==
  /\ file' = None
  /\ bypassed' = (bypassed \/ file \in passed)
  /\ UNCHANGED <<secrets, refuse, made, passed>>

\* removeGeneratedEncryptionKey, and the process ends.
Reject(g) == pc[g] = "rejected" /\ Removes /\ Down(g)

\* The process dies or an operation fails: a file without its key stays, and
\* so does a key that was created and not yet checked.
Crash(g) ==
  /\ Fail(g)
  /\ mem' = [mem EXCEPT ![g] = None]
  /\ UNCHANGED <<file, secrets, refuse, made, hist>>

\* The write or the close fails: the file is removed.
WriteFails(g) ==
  /\ pc[g] = "writing"
  /\ Fail(g)
  /\ Removes
  /\ UNCHANGED mem

Stop(g) ==
  /\ pc[g] = "serving"
  /\ Down(g)
  /\ UNCHANGED <<file, secrets, refuse, made, hist>>

\* CreateUpstream or UpdateUpstream with an API key.
StoreSecret(g) ==
  /\ pc[g] = "serving"
  /\ secrets' = secrets \cup {mem[g]}
  /\ UNCHANGED <<migrationVars, file, mem, refuse, made, hist>>

\* RequestUpstreamDeletion; it needs no key.
EraseSecret(g) ==
  /\ pc[g] = "serving"
  /\ \E k \in secrets : secrets' = secrets \ {k}
  /\ UNCHANGED <<migrationVars, file, mem, refuse, made, hist>>

\* The operator restores the key file, or installs one for a first start, when no
\* key that may be in use is in place; the gateways may be in their restart loop
\* (docs/key-management.md:34,42).
Restore ==
  /\ file \notin passed
  /\ file' = Original
  /\ UNCHANGED <<migrationVars, mem, secrets, refuse, made, hist>>

\* The downtime rotation of docs/key-management.md: nothing stops the start
\* with the new key while secrets of the old one are stored.
Rotate ==
  /\ made < MaxKeys
  /\ \A g \in Gateways : pc[g] \in {"unused", "start", "failed"}
  /\ file \in Keys
  /\ made' = made + 1
  /\ file' = made'
  /\ passed' = passed \cup {made'}
  /\ bypassed' = (bypassed \/ HasUpstreamSecrets)
  /\ UNCHANGED <<migrationVars, mem, secrets, refuse>>

Boot(g) ==
  \/ ReadFile(g) \/ Create(g) \/ ReadCreated(g) \/ Write(g) \/ Accept(g) \/ Reject(g)
-----------------------------------------------------------------------------
\* A gateway that serves can decrypt every stored secret: "a freshly generated
\* key paired with existing ciphertexts aborts boot"
\* (docs/key-management.md:10), also on the attempts after it.  And the key of
\* every secret is on the disk for the next start, or is the one the operator
\* has a copy of.  This holds while every key in use passed the guard: it is
\* passed by when a created key is loaded before main has checked it (by a
\* second gateway, or by the restart after the check failed or the process
\* died) and when a key is rotated while secrets are stored.  And it holds while
\* no start has removed, overwritten or ignored a key that the operator put in
\* place after the start had created the file.
SecretsReadable ==
  ~bypassed =>
    /\ secrets \subseteq {file, Original}
    /\ \A g \in Gateways : pc[g] = "serving" => secrets \subseteq {mem[g]}

\* What a start that fails or is refused finds at the path it removes: the file
\* that it created, or the operator's key that replaced it meanwhile (os.Remove
\* takes that too, main.go:328), never a key that another gateway generated and
\* may be serving with.
RemovesNoOthersKey ==
  \A g \in Gateways :
    /\ pc[g] = "writing" => file \in {Empty, Original}
    /\ pc[g] \in {"created", "rejected"} => file \in {mem[g], Original}
=============================================================================
