-------------------------------- MODULE Session --------------------------------
(***************************************************************************)
(* Signing in to iCloud (icloud_client.py connect, twofa.py) and the       *)
(* session all processes of one Apple ID share on disk: a .session file    *)
(* and a .cookiejar, read when a process connects and rewritten after      *)
(* every request it makes.  The processes of a profile: commands run at a  *)
(* terminal (auth, auth --fresh, sync) and the daemon, which nobody        *)
(* attends.  With what status says of the session (cli.py _auth_status and *)
(* _demote_stale_session).                                                 *)
(*                                                                         *)
(* pyicloud and Apple are external.  A session is what its file holds: how *)
(* far the login came ("pending" until the code is accepted, "done", or    *)
(* "lapsed") and its trust token ("good" or, once the password changed,    *)
(* "old").  A request and the save after it are one step, for the session  *)
(* in memory is the process's own; how often a daemon reconnects is        *)
(* Daemon's.                                                               *)
(***************************************************************************)
EXTENDS Naturals

CONSTANTS
    Attended,      \* the processes with a person at the terminal
    Unattended,    \* the daemons of the profile's account
    Torn,          \* a file cut short
    MaxCodes,      \* wrong codes after which a login is given up: 5 in the code
    Max2sa         \* the same for the legacy flow: 3 in the code

ASSUME SessionAssumption ==
    /\ Attended \cap Unattended = {}
    /\ {MaxCodes, Max2sa} \subseteq Nat \ {0}

VARIABLES
    file, jar,                 \* the two files: a session; is a trust cookie kept
    env, keyring,              \* the password in the environment and the Keychain
    lastError,                 \* the profile's meta last_error
    pc, command, mem,          \* per process: its step, what it runs, the session it
                               \* holds
    source, password,          \* where its password came from; whether it is right
    rejections, codes,         \* rejected SRP logins and wrong codes of this sign-in
    refused,                   \* history: a daemon stopped, and nothing has shown since
                               \* that the session is good
    late                       \* history: the processes that read the session before
                               \* the trusted one on disk was saved

disk == <<file, jar>>
secrets == <<env, keyring>>
meta == <<lastError, refused>>
attempt == <<source, password, rejections, codes>>
vars == <<disk, secrets, meta, pc, command, mem, attempt, late>>

Procs == Attended \cup Unattended

SignIn == { "check", "discard", "discard_jar", "construct", "token", "password",
            "login", "rejected", "store", "verify", "trust", "connected" }

\* Where a person is asked.
Prompts == { "prompt", "reprompt", "device", "code_2sa", "code" }

Steps == SignIn \cup Prompts \cup {"off", "online"}

Logins == {"none", "pending", "done", "lapsed"}

Trusts == {"none", "old", "good"}

Sessions == [login : Logins, trust : Trusts]

ASSUME TornAssumption == Torn \notin Sessions

\* What a read of the Keychain item finds; "blocks" is a read that waits for an
\* authorization, and an item that cannot be read is as good as none.
Items == {"absent", "right", "wrong", "blocks"}

Blank == [login |-> "none", trust |-> "none"]

Trusted(session) == session # Torn /\ session.trust = "good"

\* _has_poisoned_session
Poisoned(session) == session # Torn /\ session.login # "none" /\ session.trust = "none"

\* A fresh account, or one that signed in before.
Init ==
    /\ \E trust \in {"none", "good"} :
          /\ file = [login |-> IF trust = "good" THEN "done" ELSE "none", trust |-> trust]
          /\ jar = (trust = "good")
    /\ env \in {"unset", "right", "wrong"} /\ keyring \in Items
    /\ env # "unset" => keyring = "absent"
    /\ lastError = "none" /\ refused = FALSE /\ late = {}
    /\ pc = [p \in Procs |-> "off"]
    /\ command = [p \in Procs |-> "none"] /\ mem = [p \in Procs |-> Blank]
    /\ source = [p \in Procs |-> "none"] /\ password = [p \in Procs |-> "none"]
    /\ rejections = [p \in Procs |-> 0] /\ codes = [p \in Procs |-> 0]

-----------------------------------------------------------------------------
At(p, step) == pc[p] = step

Goto(p, step) == pc' = [pc EXCEPT ![p] = step]

\* Of a session on disk that is trusted from now on: who is signing in or online has
\* not read it.
Behind(p, new) ==
    late' = IF Trusted(new) /\ ~Trusted(file) THEN {q \in Procs \ {p} : ~At(q, "off")}
            ELSE late

\* Mutant of Persist: the files are truncated and written in place.
PersistInPlace(p, session) ==
    /\ mem' = [mem EXCEPT ![p] = session]
    /\ file' \in {session, Torn}
    /\ UNCHANGED jar
    /\ Behind(p, file')

\* _write_session_atomic, after a request that left p with this session: the session
\* file and then the cookies are each replaced whole, or left alone by an error.
Persist(p, session) ==
    /\ mem' = [mem EXCEPT ![p] = session]
    /\ \/ UNCHANGED disk
       \/ file' = session /\ jar' \in {jar, session.trust # "none"}
    /\ Behind(p, file')

Forget(p) ==
    /\ source' = [source EXCEPT ![p] = "none"] /\ password' = [password EXCEPT ![p] = "none"]
    /\ rejections' = [rejections EXCEPT ![p] = 0] /\ codes' = [codes EXCEPT ![p] = 0]

\* The process is gone, or the sign-in is over.
Ends(p) ==
    /\ Goto(p, "off")
    /\ command' = [command EXCEPT ![p] = "none"] /\ mem' = [mem EXCEPT ![p] = Blank]
    /\ Forget(p)
    /\ late' = late \ {p}
    /\ UNCHANGED <<disk, secrets>>

\* An error only the operator can heal: the daemon stops and says so.
Refuse(p) ==
    /\ Ends(p)
    /\ lastError' = IF p \in Unattended THEN "auth" ELSE lastError
    /\ refused' = (refused \/ p \in Unattended)

\* The commands that hold the profile's instance lock (_daemon_lock, Daemon.run).
Locking == {"sync", "start"}

\* A process begins to sign in.
Begin(p, what) ==
    /\ At(p, "off")
    /\ what \in IF p \in Attended THEN {"auth", "fresh", "sync"} ELSE {"start"}
    /\ what \in Locking => \A q \in Procs : command[q] \notin Locking
    /\ command' = [command EXCEPT ![p] = what]
    /\ Goto(p, IF what = "fresh" THEN "discard" ELSE "check")
    /\ UNCHANGED <<disk, secrets, meta, mem, attempt, late>>

\* connect: a session without a trust token is discarded.
Check(p) ==
    /\ At(p, "check")
    /\ Goto(p, IF Poisoned(file) THEN "discard" ELSE "construct")
    /\ UNCHANGED <<disk, secrets, meta, command, mem, attempt, late>>

\* _clear_session, one file after the other.
Discard(p) ==
    /\ At(p, "discard")
    /\ file' = Blank
    /\ Goto(p, "discard_jar")
    /\ UNCHANGED <<jar, secrets, meta, command, mem, attempt, late>>

DiscardJar(p) ==
    /\ At(p, "discard_jar")
    /\ jar' = FALSE
    /\ Goto(p, "construct")
    /\ command' = [command EXCEPT ![p] = IF @ = "fresh" THEN "auth" ELSE @]
    /\ UNCHANGED <<file, secrets, meta, mem, attempt, late>>

\* PyiCloudService reads the files; one that cannot be read is as good as none.
Construct(p) ==
    /\ At(p, "construct")
    /\ mem' = [mem EXCEPT ![p] = IF file = Torn THEN Blank ELSE file]
    /\ late' = late \ {p}
    /\ Goto(p, "token")
    /\ UNCHANGED <<disk, secrets, meta, command, attempt>>

-----------------------------------------------------------------------------
\* The session p holds after a login that Apple accepted: a good trust token spares
\* the code.
LoggedIn(p) ==
    [mem[p] EXCEPT !.login = IF mem[p].trust = "good" THEN "done" ELSE "pending"]

\* The first authenticate(), without a password.
Token(p) ==
    /\ At(p, "token")
    /\ \/ /\ mem[p].login = "done" \/ mem[p].trust = "good"
          /\ Persist(p, [mem[p] EXCEPT !.login = "done"])
          /\ Goto(p, "verify")
       \/ Persist(p, mem[p]) /\ Goto(p, "password")
    /\ UNCHANGED <<secrets, meta, command, attempt>>

Take(p, from, what) ==
    /\ source' = [source EXCEPT ![p] = from] /\ password' = [password EXCEPT ![p] = what]
    /\ UNCHANGED <<rejections, codes>>

\* _resolve_password: the environment, the Keychain, a person.
ReadEnvironment(p) ==
    /\ At(p, "password") /\ env # "unset"
    /\ Goto(p, "login") /\ Take(p, "env", env)
    /\ UNCHANGED <<disk, secrets, meta, command, mem, late>>

\* Mutant of NoPassword: a prompt wherever it runs.
PromptAnyone(p) ==
    /\ Goto(p, "prompt")
    /\ UNCHANGED <<disk, secrets, meta, command, mem, attempt, late>>

\* What follows when no password is stored: a prompt, or an error.
NoPassword(p) ==
    IF p \in Attended
    THEN /\ Goto(p, "prompt")
         /\ UNCHANGED <<disk, secrets, meta, command, mem, attempt, late>>
    ELSE Refuse(p)

\* Mutant of ReadKeychain: the read of a daemon is not bounded.
ReadUnbounded(p) ==
    /\ At(p, "password") /\ env = "unset"
    /\ \/ /\ keyring \in {"right", "wrong"}
          /\ Goto(p, "login") /\ Take(p, "keyring", keyring)
          /\ UNCHANGED <<disk, secrets, meta, command, mem, late>>
       \/ keyring = "absent" /\ NoPassword(p)

\* _read_keyring_password: where nobody can answer the Keychain's question the wait
\* is bounded.
ReadKeychain(p) ==
    /\ At(p, "password") /\ env = "unset"
    /\ \/ /\ keyring \in {"right", "wrong"}
          /\ Goto(p, "login") /\ Take(p, "keyring", keyring)
          /\ UNCHANGED <<disk, secrets, meta, command, mem, late>>
       \/ keyring = "absent" /\ NoPassword(p)
       \/ p \in Unattended /\ Refuse(p)

\* authenticate() with the password: one SRP login.
Login(p) ==
    /\ At(p, "login")
    /\ IF password[p] = "right"
       THEN /\ Persist(p, LoggedIn(p))
            /\ IF source[p] = "prompt"
               THEN Goto(p, "store") /\ UNCHANGED attempt
               ELSE Goto(p, "verify") /\ Forget(p)
       ELSE /\ Persist(p, mem[p])
            /\ Goto(p, "rejected")
            /\ rejections' = [rejections EXCEPT ![p] = @ + 1]
            /\ UNCHANGED <<source, password, codes>>
    /\ UNCHANGED <<secrets, meta, command>>

\* Mutant of Rejected: any rejected password is asked for again.
RejectedAlways(p) ==
    /\ At(p, "rejected")
    /\ IF p \in Attended
       THEN /\ Goto(p, "reprompt")
            /\ UNCHANGED <<disk, secrets, meta, command, mem, attempt, late>>
       ELSE Refuse(p)

\* A rejected password is asked for once, if it came from the Keychain.
Rejected(p) ==
    /\ At(p, "rejected")
    /\ IF p \in Attended /\ source[p] = "keyring"
       THEN /\ Goto(p, "reprompt")
            /\ UNCHANGED <<disk, secrets, meta, command, mem, attempt, late>>
       ELSE Refuse(p)

\* The person types a password.
Types(p, what) ==
    /\ pc[p] \in {"prompt", "reprompt"}
    /\ Take(p, "prompt", what)
    /\ Goto(p, "login")
    /\ UNCHANGED <<disk, secrets, meta, command, mem, late>>

\* A prompted password is stored for the daemon, if the Keychain takes it.
Store(p) ==
    /\ At(p, "store")
    /\ keyring' \in {keyring, password[p]}
    /\ Goto(p, "verify")
    /\ Forget(p)
    /\ UNCHANGED <<disk, env, meta, command, mem, late>>

-----------------------------------------------------------------------------
\* handle_2fa.  An account has two-factor authentication or the older two-step
\* verification.
Verify(p) ==
    /\ At(p, "verify")
    /\ IF mem[p].login = "pending" /\ p \in Unattended THEN Refuse(p)
       ELSE /\ IF mem[p].login = "pending"
               THEN \E step \in {"code", "device"} : Goto(p, step)
               ELSE Goto(p, "connected")
            /\ UNCHANGED <<disk, secrets, meta, command, mem, attempt, late>>

\* _prompt_2sa: a device is chosen and sent a code.
ChooseDevice(p) ==
    /\ At(p, "device")
    /\ Persist(p, mem[p]) /\ Goto(p, "code_2sa")
    /\ UNCHANGED <<secrets, meta, command, attempt>>

AtCode(p) == pc[p] \in {"code", "code_2sa"}

Tries(p) == IF At(p, "code_2sa") THEN Max2sa ELSE MaxCodes

\* A code that is refused, by push or by SMS.
WrongCode(p) ==
    /\ AtCode(p)
    /\ IF codes[p] + 1 < Tries(p)
       THEN /\ codes' = [codes EXCEPT ![p] = @ + 1]
            /\ Persist(p, mem[p])
            /\ UNCHANGED <<secrets, meta, pc, command, source, password, rejections>>
       ELSE Refuse(p)

\* resend, an SMS instead, diagnostics: requests that do not count.
AsksAgain(p) ==
    /\ At(p, "code")
    /\ Persist(p, mem[p])
    /\ UNCHANGED <<secrets, meta, pc, command, attempt>>

RightCode(p) ==
    /\ AtCode(p)
    /\ Persist(p, [mem[p] EXCEPT !.login = "done"])
    /\ Goto(p, "trust")
    /\ UNCHANGED <<secrets, meta, command, attempt>>

\* trust_session: when it fails the sign-in goes on untrusted, with a warning.
Trust(p) ==
    /\ At(p, "trust")
    /\ Persist(p, [mem[p] EXCEPT !.trust = "good"]) \/ Persist(p, mem[p])
    /\ Goto(p, "connected")
    /\ UNCHANGED <<secrets, meta, command, attempt>>

\* The person gives up, or the sign-in meets an error only a person can heal: an
\* empty answer, no device, a code that could not be sent.
GivesUp(p) ==
    /\ pc[p] \in Prompts
    /\ Refuse(p)

-----------------------------------------------------------------------------
\* Mutant of Connected: auth clears the error of a session that is not trusted.
ConnectedClears(p) ==
    /\ At(p, "connected")
    /\ IF command[p] = "auth"
       THEN /\ Ends(p)
            /\ lastError' = IF lastError = "auth" THEN "none" ELSE lastError
            /\ refused' = (refused /\ mem[p].trust # "good")
       ELSE /\ Goto(p, "online")
            /\ Forget(p)
            /\ UNCHANGED <<disk, secrets, meta, command, mem, late>>

\* cmd_auth ends, and clears a recorded auth error if the session is trusted; a sync
\* and the daemon go online.
Connected(p) ==
    /\ At(p, "connected")
    /\ IF command[p] = "auth"
       THEN /\ Ends(p)
            /\ lastError' = IF mem[p].trust = "good" /\ lastError = "auth" THEN "none"
                            ELSE lastError
            /\ refused' = (refused /\ mem[p].trust # "good")
       ELSE /\ Goto(p, "online")
            /\ Forget(p)
            /\ UNCHANGED <<disk, secrets, meta, command, mem, late>>

\* A request of a pass that Apple serves.
Request(p) ==
    /\ At(p, "online") /\ mem[p].login = "done"
    /\ Persist(p, mem[p])
    /\ UNCHANGED <<secrets, meta, pc, command, attempt>>

\* A pass is complete: the daemon clears its error, a sync leaves it, older than the
\* pass from now on, which is as good as none.
PassDone(p) ==
    /\ At(p, "online") /\ mem[p].login = "done"
    /\ lastError' = IF p \in Unattended \/ lastError = "auth" THEN "none" ELSE lastError
    /\ refused' = FALSE
    /\ UNCHANGED <<disk, secrets, pc, command, mem, attempt, late>>

\* A request that is refused: its answer is saved like any other; then the daemon
\* signs in again or stops, a sync fails.
Unserved(p) ==
    /\ At(p, "online") /\ mem[p].login # "done"
    /\ \E step \in {"check", "rejected"} :
          /\ step = "check" => p \in Unattended
          /\ Goto(p, step)
    /\ Persist(p, mem[p])
    /\ UNCHANGED <<secrets, meta, command, attempt>>

Leave(p) ==
    /\ At(p, "online")
    /\ Ends(p)
    /\ UNCHANGED meta

\* A connection error, a kill, an interrupt.
Breaks(p) ==
    /\ ~At(p, "off")
    /\ Ends(p)
    /\ UNCHANGED meta

\* The daemon records another error over the last one: its preflight failed, a pass
\* failed, a reconnect was throttled.
OtherError ==
    /\ lastError = "auth" /\ lastError' = "other"
    /\ UNCHANGED <<disk, secrets, refused, pc, command, mem, attempt, late>>

-----------------------------------------------------------------------------
\* The session of hours lapses; the password of the account changes, and with it
\* every trust ends; the owner stores another password, or lets the Keychain answer.
Lapse(p) ==
    /\ At(p, "online") /\ mem[p].login = "done"
    /\ mem' = [mem EXCEPT ![p].login = "lapsed"]
    /\ UNCHANGED <<disk, secrets, meta, pc, command, attempt, late>>

Aged(session) == [login |-> IF session.login = "done" THEN "lapsed" ELSE session.login,
                  trust |-> IF session.trust = "good" THEN "old" ELSE session.trust]

AgedPassword(word) == IF word = "right" THEN "wrong" ELSE word

PasswordChanges ==
    /\ file # Torn /\ file' = Aged(file)
    /\ mem' = [p \in Procs |-> Aged(mem[p])]
    /\ env' = AgedPassword(env) /\ keyring' = AgedPassword(keyring)
    /\ password' = [p \in Procs |-> AgedPassword(password[p])]
    /\ UNCHANGED <<jar, meta, pc, command, source, rejections, codes, late>>

KeychainAnswers ==
    /\ keyring = "blocks" /\ keyring' \in {"right", "wrong"}
    /\ UNCHANGED <<disk, env, meta, pc, command, mem, attempt, late>>

-----------------------------------------------------------------------------
\* What a process does by itself.
Proceeds(p) ==
    \/ Check(p) \/ Discard(p) \/ DiscardJar(p) \/ Construct(p)
    \/ Token(p) \/ ReadEnvironment(p) \/ ReadKeychain(p) \/ Login(p) \/ Rejected(p) \/ Store(p)
    \/ Verify(p) \/ Trust(p) \/ Connected(p)

Person(p) ==
    \/ \E word \in {"right", "wrong"} : Types(p, word)
    \/ ChooseDevice(p) \/ WrongCode(p) \/ AsksAgain(p) \/ RightCode(p) \/ GivesUp(p)

Online(p) == Request(p) \/ PassDone(p) \/ Unserved(p) \/ Leave(p) \/ Lapse(p)

Next ==
    \/ \E p \in Procs :
          \/ \E what \in {"auth", "fresh", "sync", "start"} : Begin(p, what)
          \/ Proceeds(p) \/ Person(p) \/ Online(p) \/ Breaks(p)
    \/ PasswordChanges \/ KeychainAnswers \/ OtherError

Spec == Init /\ [][Next]_vars

\* A daemon that is scheduled goes on; nobody is made to answer it.
FairSpec == Spec /\ \A p \in Unattended : WF_vars(Proceeds(p))

-----------------------------------------------------------------------------
\* Every variable holds a value of its kind; nobody is asked where nobody is.
TypeOK ==
    /\ file \in Sessions /\ jar \in BOOLEAN
    /\ env \in {"unset", "right", "wrong"} /\ keyring \in Items
    /\ lastError \in {"none", "auth", "other"} /\ refused \in BOOLEAN
    /\ pc \in [Procs -> Steps]
    /\ mem \in [Procs -> Sessions]
    /\ command \in [Procs -> {"none", "auth", "fresh", "sync", "start"}]
    /\ source \in [Procs -> {"none", "env", "keyring", "prompt"}]
    /\ password \in [Procs -> {"none", "right", "wrong"}]
    /\ rejections \in [Procs -> Nat] /\ codes \in [Procs -> Nat]
    /\ late \subseteq Procs
    /\ \A p \in Unattended : pc[p] \notin Prompts

\* "every SRP attempt is a real Apple login and repeated failures risk an Apple ID
\* lockout" (icloud_client.py:348): after a rejected login only a person makes
\* another, once, and a sign-in gives up after so many wrong codes.
AttemptsBounded ==
    \A p \in Procs :
        /\ At(p, "login") => rejections[p] = 0 \/ (p \in Attended /\ rejections[p] = 1)
        /\ AtCode(p) => codes[p] < Tries(p)

\* A trusted session on disk is lost only to --fresh or to a process that was signed
\* in or signing in before the session was saved: no later process discards it, asks
\* for another code, or finds half of it.
TrustKept ==
    [][Trusted(file) /\ ~Trusted(file') /\ file' # Aged(file) =>
          \E p \in Procs :
             \/ At(p, "discard") /\ (p \in late \/ command[p] = "fresh")
             \/ p \in late /\ file' = mem'[p]]_vars

\* What status says (_auth_status, _demote_stale_session).
Status ==
    CASE file = Torn                                   -> "corrupted"
      [] file = Blank                                  -> "not found"
      [] Poisoned(file)                                -> "poisoned"
      [] ~Poisoned(file) /\ ~jar                       -> "untrusted"
      [] ~Poisoned(file) /\ jar                        ->
            IF lastError = "auth" THEN "stale" ELSE "valid"

\* A session that stopped the daemon is not shown as valid before a sign-in or a
\* pass proved it good again, unless another error was recorded over that one.
StatusIsHonest == refused /\ lastError # "other" => Status # "valid"

\* A daemon's sign-in ends by itself, whatever the Keychain does.
UnattendedEnds ==
    \A p \in Unattended : [](pc[p] \in SignIn => <>(pc[p] \in {"off", "online"}))
=============================================================================
