----------------------------- MODULE SessionProofs -----------------------------
(***************************************************************************)
(* For any number of processes that share one Apple ID's session: no       *)
(* sign-in repeats a rejected login by itself (AttemptsBounded), status    *)
(* never calls a session valid that stopped the daemon (StatusIsHonest),   *)
(* and a trusted session is lost only to --fresh or to a process that was  *)
(* already signing in (TrustKept).                                         *)
(*                                                                         *)
(* The counters are those of one sign-in, so the invariant says where each *)
(* step finds them (LoginsCounted, CodesCounted); what a process read of   *)
(* the session before it was trusted is Known by the history variable.     *)
(***************************************************************************)
EXTENDS Session, TLAPS

\* Rejected logins of the sign-in under way: the second login is a person's.
LoginsCounted ==
    \A p \in Procs :
        /\ pc[p] \notin {"login", "rejected", "reprompt", "store"} => rejections[p] = 0
        /\ pc[p] = "login" => \/ rejections[p] = 0
                              \/ rejections[p] = 1 /\ source[p] = "prompt" /\ p \in Attended
        /\ pc[p] = "rejected" /\ source[p] = "keyring" => rejections[p] = 1
        /\ pc[p] = "reprompt" => rejections[p] = 1 /\ p \in Attended
        /\ pc[p] \in {"off", "online"} => source[p] = "none"

\* Only a password that was typed is stored.
TypedIsStored == \A p \in Procs : At(p, "store") => password[p] \in {"right", "wrong"}

\* Wrong codes of the sign-in under way.
CodesCounted ==
    \A p \in Procs :
        /\ AtCode(p) => codes[p] < Tries(p)
        /\ pc[p] \notin {"code", "code_2sa", "trust", "connected"} => codes[p] = 0

\* What stopped the daemon is recorded until it is disproved or overwritten.
RefusalRecorded == refused => lastError # "none"

\* The steps of a process that has read the session.
HasRead == { "token", "password", "login", "rejected", "store", "verify", "trust",
             "connected", "online" } \cup Prompts

\* Who is about to discard a trusted session, or holds another, read it before.
Known ==
    \A p \in Procs :
        /\ Trusted(file)
        /\ \/ pc[p] = "discard" /\ command[p] # "fresh"
           \/ pc[p] \in HasRead /\ mem[p].trust # "good"
        => p \in late

SessionInv ==
    /\ TypeOK /\ TypedIsStored
    /\ LoginsCounted /\ CodesCounted /\ RefusalRecorded /\ Known

-----------------------------------------------------------------------------
LEMMA BlankTypes == Blank \in Sessions
  BY DEF Blank, Sessions, Logins, Trusts

\* A process that is off counts nothing and has read nothing.
LEMMA SessionInit == Init => SessionInv
<1> SUFFICES ASSUME Init PROVE SessionInv
  OBVIOUS
<1>1. file \in Sessions
  BY DEF Init, Sessions, Logins, Trusts
<1>2. TypeOK
  BY <1>1, BlankTypes DEF Init, TypeOK, Items, Steps, SignIn, Prompts, Procs
<1>3. TypedIsStored /\ LoginsCounted /\ CodesCounted /\ RefusalRecorded /\ Known
  BY DEF Init, TypedIsStored, LoginsCounted, CodesCounted, RefusalRecorded, Known, HasRead, Prompts, AtCode,
         At
<1>4. QED
  BY <1>2, <1>3 DEF SessionInv

\* The session a step may leave on disk or in memory is one.
LEMMA PersistTypes ==
  ASSUME TypeOK, NEW p \in Procs, NEW session \in Sessions, Persist(p, session)
  PROVE  /\ file' \in Sessions /\ jar' \in BOOLEAN
         /\ mem' \in [Procs -> Sessions]
         /\ late' \subseteq Procs
  BY DEF TypeOK, Persist, Behind, disk

LEMMA LoggedInTypes ==
  ASSUME TypeOK, NEW p \in Procs
  PROVE  /\ mem[p] \in Sessions
         /\ LoggedIn(p) \in Sessions /\ LoggedIn(p).trust = mem[p].trust
         /\ [mem[p] EXCEPT !.login = "done"] \in Sessions
         /\ [mem[p] EXCEPT !.login = "done"].trust = mem[p].trust
         /\ [mem[p] EXCEPT !.trust = "good"] \in Sessions
         /\ [mem[p] EXCEPT !.trust = "good"].trust = "good"
  BY DEF TypeOK, LoggedIn, Sessions, Logins, Trusts

LEMMA AgedTypes ==
  ASSUME NEW session \in Sessions
  PROVE  Aged(session) \in Sessions /\ Aged(session).trust # "good"
  BY DEF Aged, Sessions, Logins, Trusts

LEMMA GotoTypes ==
  ASSUME TypeOK, NEW p \in Procs, NEW step \in Steps, Goto(p, step),
         p \in Unattended => step \notin Prompts
  PROVE  pc' \in [Procs -> Steps] /\ \A q \in Unattended : pc'[q] \notin Prompts
  BY DEF TypeOK, Goto, Procs

LEMMA ForgetTypes ==
  ASSUME TypeOK, NEW p \in Procs, Forget(p)
  PROVE  /\ source' \in [Procs -> {"none", "env", "keyring", "prompt"}]
         /\ password' \in [Procs -> {"none", "right", "wrong"}]
         /\ rejections' \in [Procs -> Nat] /\ codes' \in [Procs -> Nat]
  BY DEF TypeOK, Forget

LEMMA EndsTypes ==
  ASSUME TypeOK, NEW p \in Procs, Ends(p), lastError' \in {"none", "auth", "other"},
         refused' \in BOOLEAN
  PROVE  TypeOK'
<1>1. pc' \in [Procs -> Steps] /\ \A q \in Unattended : pc'[q] \notin Prompts
  BY GotoTypes DEF Ends, Steps, Prompts
<1>2. QED
  BY <1>1, ForgetTypes, BlankTypes DEF Ends, TypeOK, disk, secrets

-----------------------------------------------------------------------------
\* Type correctness; and nobody is asked where nobody is.
LEMMA SessionTypeStep ==
  ASSUME TypeOK, TypedIsStored, [Next]_vars
  PROVE  TypeOK'
<1> USE DEF At, disk, secrets, meta, attempt
<1> DEFINE Stepping == pc' \in [Procs -> Steps] /\ \A q \in Unattended : pc'[q] \notin Prompts
<1> DEFINE Persisting(p) == \E session \in Sessions : Persist(p, session)
<1>a. ASSUME NEW p \in Procs, NEW step \in SignIn \cup {"off", "online"}, Goto(p, step)
      PROVE  Stepping
  <2>1. step \in Steps /\ step \notin Prompts
    BY DEF Steps, SignIn, Prompts
  <2>2. QED
    BY <1>a, <2>1, GotoTypes
<1>b. ASSUME NEW p \in Attended, NEW step \in Prompts, Goto(p, step)
      PROVE  Stepping
  BY <1>b, GotoTypes, SessionAssumption DEF Steps, Procs
<1>c. ASSUME NEW p \in Procs, Persisting(p)
      PROVE  /\ file' \in Sessions /\ jar' \in BOOLEAN
             /\ mem' \in [Procs -> Sessions] /\ late' \subseteq Procs
  BY <1>c, PersistTypes
<1>d. ASSUME NEW p \in Procs, Persist(p, mem[p])
      PROVE  Persisting(p)
  BY <1>d, LoggedInTypes
<1>e. ASSUME NEW p \in Procs, Persist(p, [mem[p] EXCEPT !.login = "done"])
      PROVE  Persisting(p)
  BY <1>e, LoggedInTypes
<1>f. ASSUME NEW p \in Procs, Refuse(p)
      PROVE  TypeOK'
  BY <1>f, EndsTypes DEF Refuse, TypeOK
<1>g. ASSUME NEW p \in Procs, pc[p] \in Prompts
      PROVE  p \in Attended
  BY <1>g DEF TypeOK, Procs
<1> HIDE DEF Stepping, Persisting
<1>1. CASE UNCHANGED vars
  BY <1>1 DEF vars, TypeOK
<1>2. ASSUME NEW p \in Procs, NEW what \in {"auth", "fresh", "sync", "start"}, Begin(p, what)
      PROVE  TypeOK'
  <2>1. Stepping
    BY <1>2, <1>a DEF Begin, SignIn
  <2>2. QED
    BY <1>2, <2>1 DEF Begin, TypeOK, Stepping
<1>3. ASSUME NEW p \in Procs, Check(p) \/ Discard(p) \/ DiscardJar(p) \/ Construct(p)
      PROVE  TypeOK'
  <2>1. Stepping
    BY <1>3, <1>a DEF Check, Discard, DiscardJar, Construct, SignIn
  <2>2. UNCHANGED <<secrets, meta, attempt>>
    BY <1>3 DEF Check, Discard, DiscardJar, Construct
  <2>3. /\ file' \in Sessions /\ jar' \in BOOLEAN /\ mem' \in [Procs -> Sessions]
        /\ command' \in [Procs -> {"none", "auth", "fresh", "sync", "start"}]
        /\ late' \subseteq Procs
    <3>1. CASE Check(p)
      BY <3>1 DEF Check, TypeOK
    <3>2. CASE Discard(p)
      BY <3>2, BlankTypes DEF Discard, TypeOK
    <3>3. CASE DiscardJar(p)
      BY <3>3, BlankTypes DEF DiscardJar, TypeOK
    <3>4. CASE Construct(p)
      BY <3>4, BlankTypes DEF Construct, TypeOK
    <3>5. QED
      BY <1>3, <3>1, <3>2, <3>3, <3>4
  <2>4. QED
    BY <2>1, <2>2, <2>3 DEF TypeOK, Stepping
<1>4. ASSUME NEW p \in Procs, Token(p)
      PROVE  TypeOK'
  <2>1. Stepping
    BY <1>4, <1>a DEF Token, SignIn
  <2>2. Persisting(p)
    BY <1>4, <1>d, <1>e DEF Token
  <2>3. QED
    BY <1>4, <2>1, <2>2, <1>c DEF Token, TypeOK, Stepping
<1>5. ASSUME NEW p \in Procs, ReadEnvironment(p)
      PROVE  TypeOK'
  <2>1. Stepping
    BY <1>5, <1>a DEF ReadEnvironment, SignIn
  <2>2. QED
    BY <1>5, <2>1 DEF ReadEnvironment, Take, TypeOK, Stepping
<1>6. ASSUME NEW p \in Procs, ReadKeychain(p)
      PROVE  TypeOK'
  <2>1. CASE keyring \in {"right", "wrong"} /\ Goto(p, "login") /\ Take(p, "keyring", keyring)
             /\ UNCHANGED <<disk, secrets, meta, command, mem, late>>
    <3>1. Stepping
      BY <2>1, <1>a DEF SignIn
    <3>2. QED
      BY <2>1, <3>1 DEF Take, TypeOK, Stepping
  <2>2. CASE NoPassword(p) /\ p \in Attended
    <3>1. Stepping
      BY <2>2, <1>b DEF NoPassword, Prompts
    <3>2. QED
      BY <2>2, <3>1 DEF NoPassword, TypeOK, Stepping
  <2>3. QED
    BY <1>6, <1>f, <2>1, <2>2 DEF ReadKeychain, NoPassword
<1>7. ASSUME NEW p \in Procs, Login(p)
      PROVE  TypeOK'
  <2>1. Stepping
    BY <1>7, <1>a DEF Login, SignIn
  <2>2. Persisting(p)
    BY <1>7, <1>d, LoggedInTypes DEF Login, Persisting
  <2>3. /\ source' \in [Procs -> {"none", "env", "keyring", "prompt"}]
        /\ password' \in [Procs -> {"none", "right", "wrong"}]
        /\ rejections' \in [Procs -> Nat] /\ codes' \in [Procs -> Nat]
    BY <1>7, ForgetTypes DEF Login, TypeOK
  <2>4. QED
    BY <1>7, <2>1, <2>2, <2>3, <1>c DEF Login, TypeOK, Stepping
<1>8. ASSUME NEW p \in Procs, Rejected(p)
      PROVE  TypeOK'
  <2>1. CASE p \in Attended /\ source[p] = "keyring"
    <3>1. Stepping
      BY <1>8, <2>1, <1>b DEF Rejected, Prompts
    <3>2. QED
      BY <1>8, <2>1, <3>1 DEF Rejected, TypeOK, Stepping
  <2>2. QED
    BY <1>8, <1>f, <2>1 DEF Rejected
<1>9. ASSUME NEW p \in Procs, Store(p)
      PROVE  TypeOK'
  <2>1. Stepping
    BY <1>9, <1>a DEF Store, SignIn
  <2>2. keyring' \in Items
    BY <1>9 DEF Store, TypeOK, TypedIsStored, Items
  <2>3. QED
    BY <1>9, <2>1, <2>2, ForgetTypes DEF Store, TypeOK, Stepping
<1>10. ASSUME NEW p \in Procs, Verify(p)
       PROVE  TypeOK'
  <2>1. CASE Refuse(p)
    BY <1>f, <2>1
  <2>2. CASE ~Refuse(p)
    <3>1. Stepping
      BY <1>10, <1>a, <1>b, <2>2 DEF Verify, SignIn, Prompts, Procs
    <3>2. QED
      BY <1>10, <2>2, <3>1 DEF Verify, TypeOK, Stepping
  <2>3. QED
    BY <2>1, <2>2
<1>11. ASSUME NEW p \in Procs, Trust(p)
       PROVE  TypeOK'
  <2>1. Stepping
    BY <1>11, <1>a DEF Trust, SignIn
  <2>2. Persisting(p)
    BY <1>11, <1>d, LoggedInTypes DEF Trust, Persisting
  <2>3. QED
    BY <1>11, <2>1, <2>2, <1>c DEF Trust, TypeOK, Stepping
<1>12. ASSUME NEW p \in Procs, Connected(p)
       PROVE  TypeOK'
  <2>1. CASE command[p] = "auth"
    BY <1>12, <2>1, EndsTypes DEF Connected, TypeOK
  <2>2. CASE command[p] # "auth"
    <3>1. Stepping
      BY <1>12, <2>2, <1>a DEF Connected
    <3>2. QED
      BY <1>12, <2>2, <3>1, ForgetTypes DEF Connected, TypeOK, Stepping
  <2>3. QED
    BY <2>1, <2>2
<1>13. ASSUME NEW p \in Procs, NEW word \in {"right", "wrong"}, Types(p, word)
       PROVE  TypeOK'
  <2>1. Stepping
    BY <1>13, <1>a DEF Types, SignIn
  <2>2. QED
    BY <1>13, <2>1 DEF Types, Take, TypeOK, Stepping
<1>14. ASSUME NEW p \in Procs, ChooseDevice(p)
       PROVE  TypeOK'
  <2>1. Stepping
    BY <1>14, <1>b, <1>g DEF ChooseDevice, Prompts
  <2>2. Persisting(p)
    BY <1>14, <1>d DEF ChooseDevice
  <2>3. QED
    BY <1>14, <2>1, <2>2, <1>c DEF ChooseDevice, TypeOK, Stepping
<1>15. ASSUME NEW p \in Procs, WrongCode(p) \/ AsksAgain(p)
       PROVE  TypeOK'
  <2>1. CASE Refuse(p)
    BY <1>f, <2>1
  <2>2. CASE Persist(p, mem[p]) /\ UNCHANGED <<secrets, meta, pc, command, source, password,
                                              rejections>> /\ codes' \in [Procs -> Nat]
    <3>1. Persisting(p)
      BY <2>2, <1>d
    <3>2. QED
      BY <2>2, <3>1, <1>c DEF TypeOK
  <2>3. QED
    BY <1>15, <2>1, <2>2 DEF WrongCode, AsksAgain, TypeOK
<1>16. ASSUME NEW p \in Procs, RightCode(p)
       PROVE  TypeOK'
  <2>1. Stepping
    BY <1>16, <1>a DEF RightCode, SignIn
  <2>2. Persisting(p)
    BY <1>16, <1>e DEF RightCode
  <2>3. QED
    BY <1>16, <2>1, <2>2, <1>c DEF RightCode, TypeOK, Stepping
<1>17. ASSUME NEW p \in Procs, GivesUp(p)
       PROVE  TypeOK'
  BY <1>17, <1>f DEF GivesUp
<1>18. ASSUME NEW p \in Procs, Request(p) \/ PassDone(p)
       PROVE  TypeOK'
  <2>1. CASE Request(p)
    <3>1. Persisting(p)
      BY <2>1, <1>d DEF Request
    <3>2. QED
      BY <2>1, <3>1, <1>c DEF Request, TypeOK
  <2>2. CASE PassDone(p)
    BY <2>2 DEF PassDone, TypeOK
  <2>3. QED
    BY <1>18, <2>1, <2>2
<1>19. ASSUME NEW p \in Procs, Unserved(p)
       PROVE  TypeOK'
  <2>1. Stepping
    BY <1>19, <1>a DEF Unserved, SignIn
  <2>2. Persisting(p)
    BY <1>19, <1>d DEF Unserved
  <2>3. QED
    BY <1>19, <2>1, <2>2, <1>c DEF Unserved, TypeOK, Stepping
<1>20. ASSUME NEW p \in Procs, Leave(p) \/ Breaks(p)
       PROVE  TypeOK'
  BY <1>20, EndsTypes DEF Leave, Breaks, TypeOK
<1>21. ASSUME NEW p \in Procs, Lapse(p)
       PROVE  TypeOK'
  BY <1>21 DEF Lapse, TypeOK, Sessions, Logins
<1>22. CASE PasswordChanges
  BY <1>22, AgedTypes DEF PasswordChanges, AgedPassword, TypeOK, Items
<1>23. CASE KeychainAnswers \/ OtherError
  BY <1>23 DEF KeychainAnswers, OtherError, TypeOK, Items
<1>24. QED
  BY <1>1, <1>2, <1>3, <1>4, <1>5, <1>6, <1>7, <1>8, <1>9, <1>10, <1>11, <1>12, <1>13,
     <1>14, <1>15, <1>16, <1>17, <1>18, <1>19, <1>20, <1>21, <1>22, <1>23
     DEF Next, Proceeds, Person, Online

-----------------------------------------------------------------------------
\* The steps of p.
Acts(p) ==
    \/ \E what \in {"auth", "fresh", "sync", "start"} : Begin(p, what)
    \/ Proceeds(p) \/ Person(p) \/ Online(p) \/ Breaks(p)

Unmoved(q) ==
    /\ pc'[q] = pc[q] /\ command'[q] = command[q] /\ mem'[q] = mem[q]
    /\ source'[q] = source[q] /\ password'[q] = password[q]
    /\ rejections'[q] = rejections[q] /\ codes'[q] = codes[q]

\* A sign-in is its process's own.
LEMMA OthersUnmoved ==
  ASSUME TypeOK, NEW p \in Procs, Acts(p), NEW q \in Procs \ {p}
  PROVE  Unmoved(q)
<1> USE DEF At, Goto, attempt, Unmoved
<1>0. /\ pc \in [Procs -> Steps] /\ rejections \in [Procs -> Nat] /\ codes \in [Procs -> Nat]
      /\ source \in [Procs -> {"none", "env", "keyring", "prompt"}]
      /\ password \in [Procs -> {"none", "right", "wrong"}]
      /\ command \in [Procs -> {"none", "auth", "fresh", "sync", "start"}]
      /\ mem \in [Procs -> Sessions]
  BY DEF TypeOK
<1>1. CASE Refuse(p) \/ Leave(p) \/ Breaks(p)
  BY <1>0, <1>1 DEF Refuse, Leave, Breaks, Ends, Forget
<1>2. CASE \E what \in {"auth", "fresh", "sync", "start"} : Begin(p, what)
  BY <1>0, <1>2 DEF Begin
<1>3. CASE Check(p) \/ Discard(p) \/ DiscardJar(p) \/ Construct(p)
  BY <1>0, <1>3 DEF Check, Discard, DiscardJar, Construct
<1>4. CASE Token(p) \/ ReadEnvironment(p) \/ ReadKeychain(p)
  BY <1>0, <1>1, <1>4 DEF Token, Persist, ReadEnvironment, ReadKeychain, NoPassword, Take
<1>5. CASE Login(p) \/ Rejected(p) \/ Store(p)
  BY <1>0, <1>1, <1>5 DEF Login, Persist, Rejected, Store, Forget
<1>6. CASE Verify(p) \/ Trust(p) \/ Connected(p)
  BY <1>0, <1>1, <1>6 DEF Verify, Trust, Persist, Connected, Ends, Forget
<1>7. CASE Person(p)
  BY <1>0, <1>1, <1>7 DEF Person, Types, Take, ChooseDevice, WrongCode, AsksAgain, RightCode,
                    GivesUp, Persist
<1>8. CASE Online(p)
  BY <1>0, <1>1, <1>8 DEF Online, Request, PassDone, Unserved, Lapse, Persist
<1>9. QED
  BY <1>1, <1>2, <1>3, <1>4, <1>5, <1>6, <1>7, <1>8 DEF Acts, Proceeds

\* What the counters and the password of p say after its own step.
LEMMA OwnCounts ==
  ASSUME TypeOK, TypedIsStored, LoginsCounted, CodesCounted, NEW p \in Procs, Acts(p)
  PROVE  /\ pc'[p] = "store" => password'[p] \in {"right", "wrong"}
         /\ pc'[p] \notin {"login", "rejected", "reprompt", "store"} => rejections'[p] = 0
         /\ pc'[p] = "login" => \/ rejections'[p] = 0
                                \/ /\ rejections'[p] = 1 /\ source'[p] = "prompt"
                                   /\ p \in Attended
         /\ pc'[p] = "rejected" /\ source'[p] = "keyring" => rejections'[p] = 1
         /\ pc'[p] = "reprompt" => rejections'[p] = 1 /\ p \in Attended
         /\ pc'[p] \in {"off", "online"} => source'[p] = "none"
         /\ pc'[p] = "code_2sa" => codes'[p] < Max2sa
         /\ pc'[p] = "code" => codes'[p] < MaxCodes
         /\ pc'[p] \notin {"code", "code_2sa", "trust", "connected"} => codes'[p] = 0
<1> USE SessionAssumption
    DEF At, Goto, attempt, TypedIsStored, LoginsCounted, CodesCounted, AtCode, Tries
<1>0. /\ pc \in [Procs -> Steps] /\ rejections \in [Procs -> Nat] /\ codes \in [Procs -> Nat]
      /\ source \in [Procs -> {"none", "env", "keyring", "prompt"}]
      /\ password \in [Procs -> {"none", "right", "wrong"}]
  BY DEF TypeOK
<1>1. CASE Refuse(p) \/ Leave(p) \/ Breaks(p)
  BY <1>0, <1>1 DEF Refuse, Leave, Breaks, Ends, Forget
<1>2. CASE \E what \in {"auth", "fresh", "sync", "start"} : Begin(p, what)
  BY <1>0, <1>2 DEF Begin
<1>3. CASE Check(p) \/ Discard(p) \/ DiscardJar(p) \/ Construct(p)
  BY <1>0, <1>3 DEF Check, Discard, DiscardJar, Construct
<1>4. CASE Token(p) \/ ReadEnvironment(p) \/ ReadKeychain(p)
  BY <1>0, <1>1, <1>4 DEF Token, ReadEnvironment, ReadKeychain, NoPassword, Take
<1>5. CASE Login(p)
  BY <1>0, <1>5 DEF Login, Forget
<1>6. CASE Rejected(p) \/ Store(p)
  BY <1>0, <1>1, <1>6 DEF Rejected, Store, Forget
<1>7. CASE Verify(p) \/ Trust(p) \/ Connected(p)
  BY <1>0, <1>1, <1>7 DEF Verify, Trust, Connected, Ends, Forget
<1>8. CASE Person(p)
  BY <1>0, <1>1, <1>8
     DEF Person, Types, Take, ChooseDevice, WrongCode, AsksAgain, RightCode, GivesUp, TypeOK,
         Prompts, Procs
<1>9. CASE Online(p)
  BY <1>0, <1>1, <1>9 DEF Online, Request, PassDone, Unserved, Lapse
<1>10. QED
  BY <1>1, <1>2, <1>3, <1>4, <1>5, <1>6, <1>7, <1>8, <1>9 DEF Acts, Proceeds

\* The counters of every process after any step.
LEMMA CountsStep ==
  ASSUME SessionInv, [Next]_vars
  PROVE  TypedIsStored' /\ LoginsCounted' /\ CodesCounted'
<1> USE DEF SessionInv, TypedIsStored, LoginsCounted, CodesCounted, AtCode, Tries, At
<1>1. ASSUME NEW p \in Procs, Acts(p)
      PROVE  TypedIsStored' /\ LoginsCounted' /\ CodesCounted'
  <2>1. \A q \in Procs \ {p} : Unmoved(q)
    BY <1>1, OthersUnmoved
  <2>2. \A q \in Procs \ {p} :
           /\ pc'[q] = pc[q] /\ source'[q] = source[q] /\ password'[q] = password[q]
           /\ rejections'[q] = rejections[q] /\ codes'[q] = codes[q]
    BY <2>1 DEF Unmoved
  <2>3. QED
    BY <1>1, <2>2, OwnCounts
<1>2. CASE PasswordChanges
  BY <1>2 DEF PasswordChanges, AgedPassword
<1>3. CASE KeychainAnswers \/ OtherError \/ UNCHANGED vars
  BY <1>3 DEF KeychainAnswers, OtherError, vars, attempt
<1>4. QED
  BY <1>1, <1>2, <1>3 DEF Next, Acts

-----------------------------------------------------------------------------
\* What p's step does to the session: it leaves the file alone, discards it, or saves
\* the one it holds, trusted if it was trusted before.
DiskStep(p) ==
    \/ UNCHANGED <<file, mem, late>> /\ (pc'[p] \in HasRead => pc[p] \in HasRead)
       /\ (pc'[p] = "discard" => command'[p] = "fresh" \/ ~Trusted(file))
    \/ UNCHANGED file /\ late' = late \ {p}
       /\ (pc'[p] \in HasRead /\ Trusted(file) => mem'[p].trust = "good") /\ pc'[p] # "discard"
    \/ UNCHANGED <<mem, late>> /\ At(p, "discard") /\ file' = Blank
    \/ /\ UNCHANGED <<file, late>> /\ At(p, "online") /\ At(p, "online")'
       /\ mem'[p].trust = mem[p].trust
    \/ /\ pc[p] \in HasRead /\ pc'[p] # "discard"
       /\ \E session \in Sessions :
             /\ session.trust \in {"good", mem[p].trust}
             /\ Persist(p, session)

LEMMA ActsOnDisk ==
  ASSUME TypeOK, NEW p \in Procs, Acts(p)
  PROVE  DiskStep(p)
<1> USE DEF At, Goto, disk, DiskStep
<1>0. /\ pc \in [Procs -> Steps] /\ mem \in [Procs -> Sessions] /\ file \in Sessions
      /\ command \in [Procs -> {"none", "auth", "fresh", "sync", "start"}]
  BY DEF TypeOK
<1>1. CASE Refuse(p) \/ Leave(p) \/ Breaks(p)
  BY <1>0, <1>1 DEF Refuse, Leave, Breaks, Ends, HasRead, Prompts
<1>2. CASE \E what \in {"auth", "fresh", "sync", "start"} : Begin(p, what)
  BY <1>0, <1>2 DEF Begin, HasRead, Prompts
<1>3. CASE Check(p)
  BY <1>0, <1>3 DEF Check, HasRead, Prompts, Poisoned, Trusted
<1>4. CASE Discard(p)
  BY <1>4 DEF Discard
<1>5. CASE DiscardJar(p)
  BY <1>0, <1>5 DEF DiscardJar, HasRead, Prompts
<1>6. CASE Construct(p)
  BY <1>0, <1>6 DEF Construct, Trusted
<1>7. CASE Token(p) \/ Login(p) \/ Trust(p) \/ Request(p) \/ Unserved(p)
  <2>1. pc[p] \in HasRead /\ pc'[p] # "discard"
    BY <1>0, <1>7 DEF Token, Login, Trust, Request, Unserved, HasRead
  <2>2. \E session \in Sessions :
           session.trust \in {"good", mem[p].trust} /\ Persist(p, session)
    BY <1>7, LoggedInTypes DEF Token, Login, Trust, Request, Unserved
  <2>3. QED
    BY <2>1, <2>2
<1>8. CASE ReadEnvironment(p) \/ ReadKeychain(p) \/ Rejected(p) \/ Store(p) \/ Verify(p)
  BY <1>0, <1>1, <1>8 DEF ReadEnvironment, ReadKeychain, NoPassword, Rejected, Store, Verify,
                          HasRead, Prompts
<1>9. CASE Connected(p)
  BY <1>0, <1>9 DEF Connected, Ends, HasRead, Prompts
<1>10. CASE Person(p)
  <2>1. CASE \E word \in {"right", "wrong"} : Types(p, word)
    BY <1>0, <2>1 DEF Types, HasRead, Prompts
  <2>2. CASE GivesUp(p)
    BY <1>1, <2>2 DEF GivesUp
  <2>3. CASE ChooseDevice(p) \/ WrongCode(p) \/ AsksAgain(p) \/ RightCode(p)
    <3>1. pc[p] \in HasRead /\ (pc'[p] # "discard" \/ Refuse(p))
      BY <1>0, <2>3 DEF ChooseDevice, WrongCode, AsksAgain, RightCode, AtCode, HasRead, Prompts
    <3>2. \/ Refuse(p)
          \/ \E session \in Sessions :
                session.trust \in {"good", mem[p].trust} /\ Persist(p, session)
      BY <2>3, LoggedInTypes DEF ChooseDevice, WrongCode, AsksAgain, RightCode
    <3>3. QED
      BY <1>1, <3>1, <3>2
  <2>4. QED
    BY <1>10, <2>1, <2>2, <2>3 DEF Person
<1>11. CASE PassDone(p)
  BY <1>0, <1>11 DEF PassDone
<1>12. CASE Lapse(p)
  BY <1>0, <1>12 DEF Lapse, Sessions
<1>13. QED
  BY <1>1, <1>2, <1>3, <1>4, <1>5, <1>6, <1>7, <1>8, <1>9, <1>10, <1>11, <1>12
     DEF Acts, Proceeds, Online

\* A session that becomes trusted leaves every other process that is not off behind.
LEMMA KnownStep ==
  ASSUME SessionInv, [Next]_vars
  PROVE  Known'
<1> USE DEF SessionInv, Known, At
<1>1. ASSUME NEW p \in Procs, Acts(p)
      PROVE  Known'
  <2>1. DiskStep(p) /\ \A q \in Procs \ {p} : Unmoved(q)
    BY <1>1, ActsOnDisk, OthersUnmoved
  <2> SUFFICES ASSUME NEW q \in Procs, Trusted(file)',
                      \/ pc'[q] = "discard" /\ command'[q] # "fresh"
                      \/ pc'[q] \in HasRead /\ mem'[q].trust # "good"
               PROVE  q \in late'
    OBVIOUS
  <2>2. mem \in [Procs -> Sessions] /\ file \in Sessions
    BY DEF TypeOK
  <2>3. CASE q # p
    <3>1. \/ pc[q] = "discard" /\ command[q] # "fresh"
          \/ pc[q] \in HasRead /\ mem[q].trust # "good"
      BY <2>1, <2>3 DEF Unmoved
    <3>2. pc[q] # "off"
      BY <3>1 DEF HasRead, Prompts
    <3>3. \/ Trusted(file) /\ (q \in late => q \in late')
          \/ late' = {r \in Procs \ {p} : ~At(r, "off")}
      BY <2>1, <2>3 DEF DiskStep, Persist, Behind, Trusted, Blank, disk
    <3>4. QED
      BY <2>3, <3>1, <3>2, <3>3
  <2>4. CASE q = p
    <3>1. CASE \E session \in Sessions :
                  session.trust \in {"good", mem[p].trust} /\ Persist(p, session)
               /\ pc[p] \in HasRead /\ pc'[p] # "discard"
      BY <2>2, <2>4, <3>1 DEF Persist, Behind, Trusted, disk
    <3>2. QED
      BY <2>1, <2>2, <2>4, <3>1 DEF DiskStep, Trusted, Blank, HasRead, Prompts
  <2>5. QED
    BY <2>3, <2>4
<1>2. CASE PasswordChanges
  <2>1. file' = Aged(file) /\ file \in Sessions
    BY <1>2 DEF PasswordChanges, TypeOK
  <2>2. ~Trusted(file)'
    BY <2>1, AgedTypes DEF Trusted
  <2>3. QED
    BY <2>2
<1>3. CASE KeychainAnswers \/ OtherError \/ UNCHANGED vars
  BY <1>3 DEF KeychainAnswers, OtherError, vars, attempt, disk, Trusted
<1>4. QED
  BY <1>1, <1>2, <1>3 DEF Next, Acts

\* The error of a stopped daemon goes only with the evidence against it.
LEMMA RefusalStep ==
  ASSUME TypeOK, RefusalRecorded, [Next]_vars
  PROVE  RefusalRecorded'
<1> USE DEF RefusalRecorded, meta
<1>1. ASSUME NEW p \in Procs, Refuse(p)
      PROVE  RefusalRecorded'
  BY <1>1 DEF Refuse
<1>2. ASSUME NEW p \in Procs, Connected(p) \/ PassDone(p)
      PROVE  RefusalRecorded'
  BY <1>2 DEF Connected, PassDone
<1>3. ASSUME NEW p \in Procs, Acts(p), ~Connected(p), ~PassDone(p), ~Refuse(p)
      PROVE  UNCHANGED meta
  BY <1>3
     DEF Acts, Begin, Proceeds, Check, Discard, DiscardJar, Construct, Token,
         ReadEnvironment, ReadKeychain, NoPassword, Login, Rejected, Store, Verify, Trust,
         Person, Types, ChooseDevice, WrongCode, AsksAgain, RightCode, GivesUp, Online,
         Request, Unserved, Leave, Lapse, Breaks
<1>4. CASE PasswordChanges \/ KeychainAnswers \/ OtherError \/ UNCHANGED vars
  BY <1>4 DEF PasswordChanges, KeychainAnswers, OtherError, vars
<1>5. QED
  BY <1>1, <1>2, <1>3, <1>4 DEF Next, Acts

-----------------------------------------------------------------------------
\* The invariant is inductive.
THEOREM SessionInductive == Spec => []SessionInv
<1>1. SessionInv /\ [Next]_vars => SessionInv'
  BY SessionTypeStep, CountsStep, RefusalStep, KnownStep DEF SessionInv
<1>2. QED
  BY SessionInit, <1>1, PTL DEF Spec

\* handle_2fa and _authenticate_token_first: a process nobody attends is never at a
\* prompt.
THEOREM SessionTypes == Spec => []TypeOK
<1>1. SessionInv => TypeOK
  BY DEF SessionInv
<1>2. QED
  BY SessionInductive, <1>1, PTL

\* "every SRP attempt is a real Apple login and repeated failures risk an Apple ID
\* lockout" (icloud_client.py:348), for any number of processes and any limits.
THEOREM LoginsAreFew == Spec => []AttemptsBounded
<1>1. SessionInv => AttemptsBounded
  BY DEF SessionInv, LoginsCounted, CodesCounted, AttemptsBounded, At
<1>2. QED
  BY SessionInductive, <1>1, PTL

\* _auth_status and _demote_stale_session: a session that stopped a daemon is shown as
\* valid only after a sign-in or a pass, or under another error.
THEOREM StatusHonest == Spec => []StatusIsHonest
<1>1. ASSUME TypeOK, RefusalRecorded
      PROVE  StatusIsHonest
  BY <1>1 DEF TypeOK, RefusalRecorded, StatusIsHonest, Status
<1>2. SessionInv => StatusIsHonest
  BY <1>1 DEF SessionInv
<1>3. QED
  BY SessionInductive, <1>2, PTL

\* _write_session_atomic, _has_poisoned_session and connect: no process that began
\* after a trusted session was saved loses it, --fresh apart.
THEOREM TrustIsKept == Spec => TrustKept
<1>1. ASSUME SessionInv, [Next]_vars, Trusted(file), ~Trusted(file'), file' # Aged(file)
      PROVE  \E p \in Procs : \/ At(p, "discard") /\ (p \in late \/ command[p] = "fresh")
                              \/ p \in late /\ file' = mem'[p]
  <2>1. PICK p \in Procs : Acts(p)
    BY <1>1 DEF Next, Acts, PasswordChanges, KeychainAnswers, OtherError, vars, disk
  <2>2. DiskStep(p) /\ mem \in [Procs -> Sessions]
    BY <1>1, <2>1, ActsOnDisk DEF SessionInv, TypeOK
  <2>3. CASE At(p, "discard") /\ file' = Blank
    BY <1>1, <2>3 DEF SessionInv, Known, At
  <2>4. ASSUME NEW session \in Sessions, session.trust \in {"good", mem[p].trust},
               Persist(p, session), pc[p] \in HasRead
        PROVE  p \in late /\ file' = mem'[p]
    <3>1. file' = session /\ mem'[p] = session
      BY <1>1, <2>2, <2>4 DEF Persist, disk
    <3>2. session.trust # "good" /\ mem[p].trust # "good"
      BY <1>1, <2>4, <3>1, TornAssumption DEF Trusted
    <3>3. QED
      BY <1>1, <2>4, <3>1, <3>2 DEF SessionInv, Known
  <2>5. QED
    BY <1>1, <2>2, <2>3, <2>4 DEF DiskStep
<1>2. SessionInv /\ [Next]_vars =>
         [Trusted(file) /\ ~Trusted(file') /\ file' # Aged(file) =>
             \E p \in Procs : \/ At(p, "discard") /\ (p \in late \/ command[p] = "fresh")
                              \/ p \in late /\ file' = mem'[p]]_vars
  BY <1>1
<1>3. QED
  BY SessionInductive, <1>2, PTL DEF Spec, TrustKept
=============================================================================
